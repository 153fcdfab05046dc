---------------------------- MODULE MainnetV2_proofs ----------------------------
(***************************************************************************)
(* The mandates of the Mainnet V2 registry, for every set of signed terms, *)
(* every budget and every administrator.  The inductive invariant of the   *)
(* records is MandatesInv; that a credential backs one mandate is not      *)
(* inductive without knowing that a stored mandate has used up its         *)
(* credential (CredentialsRecorded), because registration looks only at    *)
(* that record.  So far the tokens play no part: whatever they answer,     *)
(* these facts hold.  The second half is about the money: what the token   *)
(* moved, the receipts, the refinement of the mandate ledger, and what the *)
(* preview of a payment is worth.  The last part is about the registry     *)
(* under its controllers (GovernedRegistry): it implements the registry    *)
(* and the controllers both, and a stop holds as long as it was bound to.  *)
(***************************************************************************)
EXTENDS GovernedRegistry, Sums_proofs

LEMMA MandatesInit == Init => MandatesInv
  <1> SUFFICES ASSUME Init PROVE MandatesInv
    OBVIOUS
  <1>1. 0 \in 0..MaxTime /\ 0 \in 0..MaxSeq /\ << >> \in Seq(ReceiptType)
    BY RegistryConstants
  <1>2. MoneyTypeOK
    BY <1>1 DEF Init, MoneyTypeOK
  <1> QED BY <1>2 DEF Init, MandatesInv, InvalidStateUnreachable, CredentialsRecorded,
             OneMandatePerCredential, Registered

\* What signed terms look like.
LEMMA SignedTerms ==
  ASSUME NEW m \in MandateTerms
  PROVE  m.user \in Users /\ m.credential \in Credentials /\ m.maxAmount \in Int
  BY RegistryConstants DEF MandateTermsType

\* Steps that leave the books alone.
LEMMA BooksUnchanged ==
  ASSUME MandatesInv, UNCHANGED moneyVars, now' \in 0..MaxTime
  PROVE  MandatesInv'
  <1>1. MoneyTypeOK'
    BY DEF MandatesInv, MoneyTypeOK, moneyVars
  <1>2. InvalidStateUnreachable'
    BY DEF MandatesInv, InvalidStateUnreachable, Registered, StoredStateIsValid, moneyVars
  <1>3. CredentialsRecorded' /\ OneMandatePerCredential'
    BY DEF MandatesInv, CredentialsRecorded, OneMandatePerCredential, Registered, moneyVars
  <1> QED BY <1>1, <1>2, <1>3 DEF MandatesInv

LEMMA StoreKeepsInv ==
  ASSUME MandatesInv, NEW m \in MandateTerms, Store(m), now' = now
  PROVE  MandatesInv'
  <1>1. /\ m.maxAmount > 0 /\ IsFresh(m)
        /\ status' = [status EXCEPT ![m] = "Active"]
        /\ spent' = [spent EXCEPT ![m] = 0]
        /\ seq' = [seq EXCEPT ![m] = 0]
        /\ usedCredentials' = usedCredentials \union {<<m.user, m.credential>>}
        /\ receipts' = receipts
    BY DEF Store
  <1>2. MoneyTypeOK'
    <2>1. 0 \in 0..MaxSeq /\ <<m.user, m.credential>> \in Users \X Credentials
      BY RegistryConstants, SignedTerms
    <2> QED BY <1>1, <2>1 DEF MandatesInv, MoneyTypeOK
  <1>3. /\ status'[m] = "Active" /\ spent'[m] = 0
        /\ \A n \in MandateTerms \ {m} : status'[n] = status[n] /\ spent'[n] = spent[n]
    BY <1>1 DEF MandatesInv, MoneyTypeOK
  <1>4. InvalidStateUnreachable'
    <2> SUFFICES ASSUME NEW n \in MandateTerms, Registered(n)'
                 PROVE  StoredStateIsValid(n)'
      BY DEF InvalidStateUnreachable
    <2>1. CASE n = m
      BY <1>1, <1>3, <2>1, SignedTerms DEF StoredStateIsValid
    <2>2. CASE n # m
      BY <1>3, <2>2 DEF MandatesInv, InvalidStateUnreachable, Registered, StoredStateIsValid
    <2> QED BY <2>1, <2>2
  <1>5. CredentialsRecorded'
    BY <1>1, <1>3 DEF MandatesInv, CredentialsRecorded, Registered
  <1>6. OneMandatePerCredential'
    <2>1. \A n \in MandateTerms \ {m} : Registered(n)' => Registered(n)
      BY <1>3 DEF Registered
    <2>2. \A n \in MandateTerms : Registered(n) =>
             <<n.user, n.credential>> # <<m.user, m.credential>>
      BY <1>1 DEF IsFresh, MandatesInv, CredentialsRecorded
    <2> QED BY <2>1, <2>2 DEF MandatesInv, OneMandatePerCredential
  <1> QED BY <1>2, <1>4, <1>5, <1>6 DEF MandatesInv

LEMMA RevokeKeepsInv ==
  ASSUME MandatesInv, NEW m \in MandateTerms, RevokeMandate(m)
  PROVE  MandatesInv'
  <1>1. /\ Registered(m) /\ status' = [status EXCEPT ![m] = "Revoked"]
        /\ UNCHANGED <<now, spent, seq, usedCredentials, receipts>>
    BY DEF RevokeMandate
  <1>2. MoneyTypeOK'
    BY <1>1 DEF MandatesInv, MoneyTypeOK
  <1>3. /\ status'[m] = "Revoked"
        /\ \A n \in MandateTerms \ {m} : status'[n] = status[n]
    BY <1>1 DEF MandatesInv, MoneyTypeOK
  <1>4. \A n \in MandateTerms : Registered(n)' => Registered(n)
    BY <1>1, <1>3 DEF Registered
  <1>5. InvalidStateUnreachable'
    BY <1>1, <1>3, <1>4 DEF MandatesInv, InvalidStateUnreachable, StoredStateIsValid
  <1>6. CredentialsRecorded' /\ OneMandatePerCredential'
    BY <1>1, <1>4 DEF MandatesInv, CredentialsRecorded, OneMandatePerCredential
  <1> QED BY <1>2, <1>5, <1>6 DEF MandatesInv

\* What a payment does to the books, by field.
LEMMA PaymentFacts ==
  ASSUME MandatesInv, NEW m \in MandateTerms, NEW amount \in PaymentAmounts,
         NEW expectedSeq, ExecutePayment(m, amount, expectedSeq)
  PROVE  /\ Registered(m) /\ status[m] = "Active" /\ now < m.expiry
         /\ amount \in Nat /\ amount > 0
         /\ spent[m] + amount \in 0..m.maxAmount
         /\ spent'[m] = spent[m] + amount
         /\ seq'[m] = seq[m] + 1 /\ seq[m] + 1 \in 0..MaxSeq
         /\ status'[m] = IF spent'[m] = m.maxAmount THEN "Exhausted" ELSE "Active"
         /\ \A n \in MandateTerms \ {m} :
              spent'[n] = spent[n] /\ seq'[n] = seq[n] /\ status'[n] = status[n]
         /\ UNCHANGED <<now, usedCredentials>>
  <1>1. /\ Registered(m) /\ CheckedSpent(m, amount, m.merchant) /\ SequenceLeft(m)
        /\ spent' = [spent EXCEPT ![m] = spent[m] + amount]
        /\ seq' = [seq EXCEPT ![m] = seq[m] + 1]
        /\ status' = [status EXCEPT ![m] = StatusAfter(m, spent[m] + amount)]
        /\ UNCHANGED <<now, usedCredentials>>
    BY DEF ExecutePayment
  <1>2. /\ amount > 0 /\ status[m] = "Active" /\ now < m.expiry
        /\ spent[m] + amount <= m.maxAmount
    BY <1>1 DEF CheckedSpent
  <1>3. /\ spent[m] \in Nat /\ seq[m] \in 0..MaxSeq /\ MaxSeq \in Nat /\ amount \in Int
        /\ m.maxAmount \in Int
    BY RegistryConstants, SignedTerms DEF MandatesInv, MoneyTypeOK
  <1>4. amount \in Nat /\ spent[m] + amount \in 0..m.maxAmount /\ seq[m] + 1 \in 0..MaxSeq
    BY <1>1, <1>2, <1>3 DEF SequenceLeft
  <1>5. /\ spent'[m] = spent[m] + amount /\ seq'[m] = seq[m] + 1
        /\ status'[m] = StatusAfter(m, spent[m] + amount)
        /\ \A n \in MandateTerms \ {m} :
             spent'[n] = spent[n] /\ seq'[n] = seq[n] /\ status'[n] = status[n]
    BY <1>1 DEF MandatesInv, MoneyTypeOK
  <1>6. status'[m] = IF spent'[m] = m.maxAmount THEN "Exhausted" ELSE "Active"
    BY <1>2, <1>5 DEF StatusAfter
  <1> QED BY <1>1, <1>2, <1>4, <1>5, <1>6

LEMMA PaymentKeepsInv ==
  ASSUME MandatesInv, NEW m \in MandateTerms, NEW amount \in PaymentAmounts,
         NEW expectedSeq, ExecutePayment(m, amount, expectedSeq)
  PROVE  MandatesInv'
  <1> USE PaymentFacts
  <1>1. MoneyTypeOK'
    <2>1. ReceiptOf(m, amount) \in ReceiptType
      BY RegistryConstants DEF ReceiptOf, ReceiptType, MandatesInv, MoneyTypeOK
    <2>2. /\ receipts' = [receipts EXCEPT ![m] = Append(receipts[m], ReceiptOf(m, amount))]
          /\ spent' = [spent EXCEPT ![m] = spent[m] + amount]
          /\ seq' = [seq EXCEPT ![m] = seq[m] + 1]
          /\ status' = [status EXCEPT ![m] = StatusAfter(m, spent[m] + amount)]
      BY DEF ExecutePayment
    <2>3. receipts' \in [MandateTerms -> Seq(ReceiptType)]
      BY <2>1, <2>2 DEF MandatesInv, MoneyTypeOK
    <2>4. spent' \in [MandateTerms -> Nat] /\ seq' \in [MandateTerms -> 0..MaxSeq]
      BY <2>2 DEF MandatesInv, MoneyTypeOK
    <2>5. StatusAfter(m, spent[m] + amount) \in {"None", "Active", "Revoked", "Exhausted"}
      BY DEF StatusAfter, MandatesInv, MoneyTypeOK
    <2>6. status' \in [MandateTerms -> {"None", "Active", "Revoked", "Exhausted"}]
      BY <2>2, <2>5 DEF MandatesInv, MoneyTypeOK
    <2> QED BY <2>3, <2>4, <2>6 DEF MandatesInv, MoneyTypeOK
  <1>2. \A n \in MandateTerms : Registered(n)' => Registered(n)
    BY DEF Registered
  <1>3. InvalidStateUnreachable'
    <2> SUFFICES ASSUME NEW n \in MandateTerms, Registered(n)'
                 PROVE  StoredStateIsValid(n)'
      BY DEF InvalidStateUnreachable
    <2>1. StoredStateIsValid(n)
      BY <1>2 DEF MandatesInv, InvalidStateUnreachable
    <2>2. CASE n = m
      BY <2>1, <2>2 DEF StoredStateIsValid
    <2>3. CASE n # m
      BY <2>1, <2>3 DEF StoredStateIsValid
    <2> QED BY <2>2, <2>3
  <1>4. CredentialsRecorded' /\ OneMandatePerCredential'
    BY <1>2 DEF MandatesInv, CredentialsRecorded, OneMandatePerCredential
  <1> QED BY <1>1, <1>3, <1>4 DEF MandatesInv

LEMMA MandatesStep == MandatesInv /\ [Next]_vars => MandatesInv'
  <1> SUFFICES ASSUME MandatesInv, [Next]_vars PROVE MandatesInv'
    OBVIOUS
  <1>1. ASSUME NEW m \in MandateTerms, RegisterMandate(m) PROVE MandatesInv'
    BY <1>1, StoreKeepsInv DEF RegisterMandate
  <1>2. ASSUME NEW m \in MandateTerms, RegisterAndApprove(m) PROVE MandatesInv'
    BY <1>2, StoreKeepsInv DEF RegisterAndApprove
  <1>3. ASSUME NEW m \in MandateTerms, RevokeMandate(m) PROVE MandatesInv'
    BY <1>3, RevokeKeepsInv
  <1>4. ASSUME NEW m \in MandateTerms, NEW amount \in PaymentAmounts,
               NEW n \in 0..MaxSeq, ExecutePayment(m, amount, n)
        PROVE  MandatesInv'
    BY <1>4, PaymentKeepsInv
  <1>5. now \in 0..MaxTime /\ MaxTime \in Nat
    BY RegistryConstants DEF MandatesInv, MoneyTypeOK
  <1>6. ASSUME NEW caller \in Principals, Administer(caller) PROVE MandatesInv'
    BY <1>5, <1>6, BooksUnchanged DEF Administer
  <1>7. CASE TokenStep
    BY <1>5, <1>7, BooksUnchanged DEF TokenStep
  <1>8. CASE Tick
    <2>1. now' \in 0..MaxTime
      BY <1>5, <1>8 DEF Tick
    <2> QED BY <1>8, <2>1, BooksUnchanged DEF Tick
  <1>9. CASE UNCHANGED vars
    BY <1>5, <1>9, BooksUnchanged DEF vars
  <1> QED BY <1>1, <1>2, <1>3, <1>4, <1>6, <1>7, <1>8, <1>9 DEF Next

\* Types of the books, validity of what is stored, and the record of used
\* credentials hold in every reachable state of any instance.
THEOREM MandatesInvariant == Spec => []MandatesInv
  BY MandatesInit, MandatesStep, PTL DEF Spec

\* The InvalidState answers of the money path are dead code.
THEOREM InvalidStateIsUnreachable == Spec => []InvalidStateUnreachable
  <1>1. MandatesInv => InvalidStateUnreachable
    BY DEF MandatesInv
  <1> QED BY <1>1, MandatesInvariant, PTL

\* A user's credential commitment backs one mandate.
THEOREM CredentialsBackOneMandate == Spec => []OneMandatePerCredential
  <1>1. MandatesInv => OneMandatePerCredential
    BY DEF MandatesInv
  <1> QED BY <1>1, MandatesInvariant, PTL

LEMMA FinalStepHolds == MandatesInv /\ [Next]_vars => FinalStep
  <1> SUFFICES ASSUME MandatesInv, [Next]_vars, NEW m \in MandateTerms
               PROVE  /\ status[m] = "Revoked" => status'[m] = "Revoked"
                      /\ status[m] \in {"Revoked", "Exhausted"}
                           \/ (Registered(m) /\ now >= m.expiry) => spent'[m] = spent[m]
                      /\ Registered(m) => /\ Registered(m)'
                                          /\ spent'[m] >= spent[m] /\ seq'[m] >= seq[m]
    BY DEF FinalStep
  <1>1. /\ spent[m] \in Nat /\ seq[m] \in Nat /\ now \in Nat /\ m.expiry \in Nat
        /\ status \in [MandateTerms -> {"None", "Active", "Revoked", "Exhausted"}]
        /\ spent \in [MandateTerms -> Nat] /\ seq \in [MandateTerms -> 0..MaxSeq]
    BY RegistryConstants DEF MandatesInv, MoneyTypeOK, MandateTermsType
  <1> DEFINE Kept == /\ status'[m] = status[m] /\ spent'[m] = spent[m] /\ seq'[m] = seq[m]
             Goal == /\ status[m] = "Revoked" => status'[m] = "Revoked"
                     /\ status[m] \in {"Revoked", "Exhausted"}
                          \/ (Registered(m) /\ now >= m.expiry) => spent'[m] = spent[m]
                     /\ Registered(m) => /\ Registered(m)'
                                         /\ spent'[m] >= spent[m] /\ seq'[m] >= seq[m]
  <1>2. Kept => Goal
    BY <1>1 DEF Registered
  <1>3. ASSUME NEW n \in MandateTerms, Store(n) PROVE Goal
    <2>1. CASE n = m
      BY <1>3, <2>1 DEF Store, IsFresh, Registered
    <2>2. CASE n # m
      BY <1>1, <1>2, <1>3, <2>2 DEF Store
    <2> QED BY <2>1, <2>2
  <1>4. ASSUME NEW n \in MandateTerms, RevokeMandate(n) PROVE Goal
    BY <1>1, <1>4 DEF RevokeMandate, Registered
  <1>5. ASSUME NEW n \in MandateTerms, NEW amount \in PaymentAmounts, NEW k \in 0..MaxSeq,
               ExecutePayment(n, amount, k)
        PROVE  Goal
    <2>1. CASE n = m
      BY <1>1, <1>5, <2>1, PaymentFacts DEF Registered
    <2>2. CASE n # m
      BY <1>2, <1>5, <2>2, PaymentFacts
    <2> QED BY <2>1, <2>2
  <1>6. ASSUME UNCHANGED moneyVars PROVE Goal
    BY <1>2, <1>6 DEF moneyVars
  <1> HIDE DEF Goal
  <1>7. Goal
    BY <1>3, <1>4, <1>5, <1>6 DEF Next, RegisterMandate, RegisterAndApprove, Administer,
       TokenStep, Tick, vars
  <1> QED BY <1>7 DEF Goal

\* Revoked, used up and expired are final, and no mandate starts afresh.
THEOREM FinalityIsKept == Spec => FinalityHolds
  <1>1. MandatesInv /\ [Next]_vars => [FinalStep]_vars
    BY FinalStepHolds
  <1> QED BY <1>1, MandatesInvariant, PTL DEF Spec, FinalityHolds


--------------------------------------------------------------------------------
\* Money: what the books say against what the tokens moved.

\* A mandate that was never registered has no history.
NothingFromNowhere ==
  \A m \in MandateTerms : ~Registered(m) => spent[m] = 0 /\ seq[m] = 0

BooksInv ==
  /\ MandatesInv
  /\ NothingFromNowhere
  /\ ReceiptsTellAll
  /\ BooksMatchLedger

\* The sum of the receipts follows an appended one.
LEMMA SumAppends ==
  ASSUME NEW r \in Seq(ReceiptType), NEW e \in ReceiptType
  PROVE  SumOfAmounts(Append(r, e), 1..Len(Append(r, e))) =
           SumOfAmounts(r, 1..Len(r)) + e.amount
  <1> DEFINE n == Len(r)
             q == Append(r, e)
             f == [i \in 1..n + 1 |-> q[i].amount]
  <1>1. /\ n \in Nat /\ Len(q) = n + 1 /\ q[n + 1] = e
        /\ \A i \in 1..n : q[i] = r[i] /\ r[i] \in ReceiptType
    OBVIOUS
  <1>2. IsFiniteSet(1..n + 1)
    BY <1>1, FS_Interval
  <1>3. \A i \in 1..n + 1 : q[i] \in ReceiptType
    <2> HIDE DEF q
    <2> QED BY <1>1
  <1>4. /\ \A i \in 1..n + 1 : f[i] \in Int /\ q[i].amount = f[i]
        /\ f[n + 1] = e.amount
        /\ \A i \in 1..n : r[i].amount = f[i]
    <2> HIDE DEF q
    <2> QED BY <1>1, <1>3 DEF ReceiptType
  <1> HIDE DEF q, f
  <1>5. SumOfAmounts(q, 1..n + 1) = Sum(f, 1..n + 1)
    BY <1>4, AmountsAgree
  <1>6. SumOfAmounts(r, 1..n) = Sum(f, 1..n)
    BY <1>4, AmountsAgree
  <1>7. Sum(f, 1..n + 1) = f[n + 1] + Sum(f, (1..n + 1) \ {n + 1})
    <2>1. n + 1 \in 1..n + 1
      BY <1>1
    <2>2. \A i \in 1..n + 1 : f[i] \in Int
      BY <1>4
    <2> QED BY <1>2, <2>1, <2>2, SumPick, Zenon
  <1>8. Sum(f, (1..n + 1) \ {n + 1}) = Sum(f, 1..n)
    <2>1. (1..n + 1) \ {n + 1} = 1..n
      BY <1>1
    <2> QED BY <2>1
  <1>9. Sum(f, 1..n) \in Int /\ e.amount \in Int
    <2>1. IsFiniteSet(1..n)
      BY <1>1, FS_Interval
    <2>2. \A i \in 1..n : i \in 1..n + 1
      BY <1>1
    <2>3. \A i \in 1..n : f[i] \in Int
      BY <1>4, <2>2
    <2>4. Sum(f, 1..n) \in Int
      BY <2>1, <2>3, SumPick, Zenon
    <2> QED BY <2>4 DEF ReceiptType
  <1> HIDE DEF n
  <1>10. SumOfAmounts(q, 1..n + 1) = SumOfAmounts(r, 1..n) + e.amount
    BY <1>4, <1>5, <1>6, <1>7, <1>8, <1>9
  <1> QED BY <1>1, <1>10 DEF n, q

LEMMA ReceiptsAreSums ==
  /\ ReceiptsTellAll <=> \A m \in MandateTerms :
        /\ Len(receipts[m]) = seq[m]
        /\ \A i \in 1..Len(receipts[m]) : receipts[m][i].sequence = i - 1
        /\ SumOfAmounts(receipts[m], 1..Len(receipts[m])) = spent[m]
  /\ ReceiptsTellAll' <=> \A m \in MandateTerms :
        /\ Len(receipts'[m]) = seq'[m]
        /\ \A i \in 1..Len(receipts'[m]) : receipts'[m][i].sequence = i - 1
        /\ SumOfAmounts(receipts'[m], 1..Len(receipts'[m])) = spent'[m]
  <1>1. ReceiptsTellAll <=> \A m \in MandateTerms :
        /\ Len(receipts[m]) = seq[m]
        /\ \A i \in 1..Len(receipts[m]) : receipts[m][i].sequence = i - 1
        /\ SumOfAmounts(receipts[m], 1..Len(receipts[m])) = spent[m]
    BY Zenon DEF ReceiptsTellAll, SumOfAmounts, MapThenSumSet, MapThenFoldSet
  <1>2. ReceiptsTellAll' <=> \A m \in MandateTerms :
        /\ Len(receipts'[m]) = seq'[m]
        /\ \A i \in 1..Len(receipts'[m]) : receipts'[m][i].sequence = i - 1
        /\ SumOfAmounts(receipts'[m], 1..Len(receipts'[m])) = spent'[m]
    BY Zenon DEF ReceiptsTellAll, SumOfAmounts, MapThenSumSet, MapThenFoldSet
  <1> QED BY <1>1, <1>2

Naming(a, u, w) == {m \in MandateTerms : m.asset = a /\ m.user = u /\ m.merchant = w}

LEMMA BooksAreSums ==
  /\ BooksMatchLedger <=> \A a \in Assets, u \in Users, w \in Payees :
                             drawn[a][u][w] = Sum(spent, Naming(a, u, w))
  /\ BooksMatchLedger' <=> \A a \in Assets, u \in Users, w \in Payees :
                             drawn'[a][u][w] = Sum(spent', Naming(a, u, w))
  <1>1. BooksMatchLedger <=> \A a \in Assets, u \in Users, w \in Payees :
                               drawn[a][u][w] = Sum(spent, Naming(a, u, w))
    BY Zenon DEF BooksMatchLedger, Sum, Naming
  <1>2. BooksMatchLedger' <=> \A a \in Assets, u \in Users, w \in Payees :
                                drawn'[a][u][w] = Sum(spent', Naming(a, u, w))
    BY Zenon DEF BooksMatchLedger, Sum, Naming, MapThenSumSet, MapThenFoldSet
  <1> QED BY <1>1, <1>2

LEMMA NamingIsFinite ==
  ASSUME NEW a, NEW u, NEW w
  PROVE  IsFiniteSet(Naming(a, u, w)) /\ Naming(a, u, w) \subseteq MandateTerms
  BY RegistryConstants, FS_Subset DEF Naming

\* The tokens move the amount of the payment and nothing else.
LEMMA FlowOfPayment ==
  ASSUME NEW m \in MandateTerms, NEW amount \in Int, NEW a, NEW u, NEW w
  PROVE  Flow(Transfer(m, amount), a, u, w) = IF m \in Naming(a, u, w) THEN amount ELSE 0
  <1> DEFINE batch == Transfer(m, amount)
             legs == {k \in DOMAIN batch : /\ batch[k].asset = a
                                           /\ batch[k].from = u
                                           /\ batch[k].to = w}
             f == [k \in {m} |-> amount]
  <1>1. Flow(batch, a, u, w) = SumOfAmounts(batch, legs)
    BY DEF Flow, SumOfAmounts
  <1>2. /\ \A k \in legs : batch[k].amount = f[k]
        /\ legs = IF m \in Naming(a, u, w) THEN {m} ELSE {}
    BY DEF Transfer, Naming
  <1>3. f[m] = amount
    OBVIOUS
  <1> HIDE DEF batch, legs, f
  <1>4. Flow(batch, a, u, w) = Sum(f, legs)
    BY <1>1, <1>2, AmountsAgree
  <1>5. Sum(f, {m}) = amount /\ Sum(f, {}) = 0
    BY <1>3, SumOfOne, SumOfNone
  <1>6. Flow(batch, a, u, w) = IF m \in Naming(a, u, w) THEN amount ELSE 0
    BY <1>2, <1>4, <1>5
  <1> QED BY <1>6 DEF batch

LEMMA PaymentMoves ==
  ASSUME MandatesInv, NEW m \in MandateTerms, NEW amount \in PaymentAmounts,
         NEW expectedSeq, ExecutePayment(m, amount, expectedSeq)
  PROVE  drawn' = [a \in Assets |-> [u \in Users |-> [w \in Payees |->
                     drawn[a][u][w] + (IF m \in Naming(a, u, w) THEN amount ELSE 0)]]]
  <1>1. drawn' = [a \in Assets |-> [u \in Users |-> [w \in Payees |->
                    drawn[a][u][w] + Flow(Transfer(m, amount), a, u, w)]]]
    BY DEF ExecutePayment, Settle
  <1>2. \A a, u, w : Flow(Transfer(m, amount), a, u, w) =
                       IF m \in Naming(a, u, w) THEN amount ELSE 0
    BY RegistryConstants, FlowOfPayment
  <1> QED BY <1>1, <1>2

\* Nothing but a payment changes what was drawn.
LEMMA OthersDrawNothing ==
  ASSUME [Next]_vars,
         ~ \E m \in MandateTerms, amount \in PaymentAmounts, k \in 0..MaxSeq :
             ExecutePayment(m, amount, k)
  PROVE  drawn' = drawn
  BY DEF Next, vars, RegisterMandate, RegisterAndApprove, RevokeMandate, Administer,
     TokenStep, Tick, tokenVars, Environment, Approve, MoveFunds, SetAuthorized

\* What each step does to what is spent and to the receipts.
LEMMA OthersSpendNothing ==
  ASSUME MandatesInv, NothingFromNowhere, [Next]_vars,
         ~ \E m \in MandateTerms, amount \in PaymentAmounts, k \in 0..MaxSeq :
             ExecutePayment(m, amount, k)
  PROVE  /\ spent' = spent /\ seq' = seq /\ receipts' = receipts
         /\ \A m \in MandateTerms : Registered(m) => Registered(m)'
  <1> DEFINE Goal == /\ spent' = spent /\ seq' = seq /\ receipts' = receipts
                     /\ \A m \in MandateTerms : Registered(m) => Registered(m)'
  <1>1. /\ spent \in [MandateTerms -> Nat] /\ seq \in [MandateTerms -> 0..MaxSeq]
        /\ status \in [MandateTerms -> {"None", "Active", "Revoked", "Exhausted"}]
    BY DEF MandatesInv, MoneyTypeOK
  <1>2. ASSUME NEW m \in MandateTerms, Store(m) PROVE Goal
    <2>1. /\ ~Registered(m) /\ spent' = [spent EXCEPT ![m] = 0] /\ receipts' = receipts
          /\ seq' = [seq EXCEPT ![m] = 0]
          /\ status' = [status EXCEPT ![m] = "Active"]
      BY <1>2 DEF Store, IsFresh
    <2>2. spent[m] = 0 /\ seq[m] = 0
      BY <2>1 DEF NothingFromNowhere
    <2> QED BY <1>1, <2>1, <2>2 DEF Registered
  <1>3. ASSUME NEW m \in MandateTerms, RevokeMandate(m) PROVE Goal
    BY <1>1, <1>3 DEF RevokeMandate, Registered
  <1>4. ASSUME UNCHANGED moneyVars PROVE Goal
    BY <1>4 DEF moneyVars, Registered
  <1> HIDE DEF Goal
  <1>5. Goal
    BY <1>2, <1>3, <1>4 DEF Next, RegisterMandate, RegisterAndApprove, Administer,
       TokenStep, Tick, vars
  <1> QED BY <1>5 DEF Goal

LEMMA PaymentKeepsBooks ==
  ASSUME BooksInv, NEW m \in MandateTerms, NEW amount \in PaymentAmounts,
         NEW expectedSeq, ExecutePayment(m, amount, expectedSeq)
  PROVE  NothingFromNowhere' /\ ReceiptsTellAll' /\ BooksMatchLedger'
  <1>1. /\ amount \in Int /\ Registered(m) /\ spent'[m] = spent[m] + amount
        /\ status'[m] # "None" /\ seq'[m] = seq[m] + 1
        /\ \A n \in MandateTerms \ {m} :
              spent'[n] = spent[n] /\ status'[n] = status[n] /\ seq'[n] = seq[n]
        /\ \A n \in MandateTerms : spent[n] \in Nat /\ seq[n] \in Nat
    <2>1. MandatesInv
      BY DEF BooksInv
    <2>2. \A n \in MandateTerms : spent[n] \in Nat /\ seq[n] \in Nat
      BY <2>1, RegistryConstants DEF MandatesInv, MoneyTypeOK
    <2>3. status'[m] # "None"
      BY <2>1, PaymentFacts
    <2> QED BY <2>1, <2>2, <2>3, PaymentFacts
  <1>2. NothingFromNowhere'
    BY <1>1 DEF BooksInv, NothingFromNowhere, Registered
  <1>3. BooksMatchLedger'
    <2> SUFFICES ASSUME NEW a \in Assets, NEW u \in Users, NEW w \in Payees
                 PROVE  drawn'[a][u][w] = Sum(spent', Naming(a, u, w))
      BY BooksAreSums
    <2>1. drawn'[a][u][w] = drawn[a][u][w] + (IF m \in Naming(a, u, w) THEN amount ELSE 0)
      BY PaymentMoves DEF BooksInv
    <2>2. drawn[a][u][w] = Sum(spent, Naming(a, u, w))
      BY BooksAreSums DEF BooksInv
    <2>3. Sum(spent', Naming(a, u, w)) =
            Sum(spent, Naming(a, u, w)) + (IF m \in Naming(a, u, w) THEN amount ELSE 0)
      <3>1. /\ IsFiniteSet(Naming(a, u, w))
            /\ \A k \in Naming(a, u, w) : spent[k] \in Int
            /\ \A k \in Naming(a, u, w) \ {m} : spent'[k] = spent[k]
            /\ m \in Naming(a, u, w) => spent'[m] = spent[m] + amount
        BY <1>1, NamingIsFinite
      <3>2. amount \in Int
        BY <1>1
      <3> QED BY <3>1, <3>2, SumOneChanges, Zenon
    <2> QED BY <2>1, <2>2, <2>3
  <1>4. ReceiptsTellAll'
    <2>1. /\ receipts' = [receipts EXCEPT ![m] = Append(receipts[m], ReceiptOf(m, amount))]
          /\ receipts \in [MandateTerms -> Seq(ReceiptType)]
      BY DEF ExecutePayment, BooksInv, MandatesInv, MoneyTypeOK
    <2> DEFINE r == receipts[m]
               e == ReceiptOf(m, amount)
    <2>2. /\ r \in Seq(ReceiptType) /\ receipts'[m] = Append(r, e)
          /\ \A n \in MandateTerms \ {m} : receipts'[n] = receipts[n]
      BY <2>1
    <2>3. amount \in Nat
      <3>1. MandatesInv
        BY DEF BooksInv
      <3> QED BY <3>1, PaymentFacts
    <2>4. e \in ReceiptType /\ e.amount = amount /\ e.sequence = seq[m]
      BY <1>1, <2>3 DEF ReceiptOf, ReceiptType
    <2>5. /\ Len(r) = seq[m] /\ SumOfAmounts(r, 1..Len(r)) = spent[m]
          /\ \A i \in 1..Len(r) : r[i].sequence = i - 1
      BY ReceiptsAreSums DEF BooksInv
    <2> HIDE DEF r, e
    <2>6. /\ Len(Append(r, e)) = seq[m] + 1
          /\ SumOfAmounts(Append(r, e), 1..Len(Append(r, e))) = spent[m] + amount
          /\ \A i \in 1..Len(Append(r, e)) : Append(r, e)[i].sequence = i - 1
      <3>1. Len(Append(r, e)) = Len(r) + 1 /\ Len(r) \in Nat
        BY <2>2
      <3>2. \A i \in 1..Len(r) + 1 : Append(r, e)[i] = IF i <= Len(r) THEN r[i] ELSE e
        BY <2>2
      <3>3. \A i \in 1..Len(r) + 1 : Append(r, e)[i].sequence = i - 1
        BY <2>4, <2>5, <3>1, <3>2
      <3> QED BY <2>2, <2>4, <2>5, <3>1, <3>3, SumAppends
    <2>7. ASSUME NEW n \in MandateTerms
          PROVE  /\ Len(receipts'[n]) = seq'[n]
                 /\ \A i \in 1..Len(receipts'[n]) : receipts'[n][i].sequence = i - 1
                 /\ SumOfAmounts(receipts'[n], 1..Len(receipts'[n])) = spent'[n]
      <3>1. CASE n = m
        BY <1>1, <2>2, <2>6, <3>1
      <3>2. CASE n # m
        <4>1. receipts'[n] = receipts[n] /\ seq'[n] = seq[n] /\ spent'[n] = spent[n]
          BY <1>1, <2>2, <3>2
        <4>2. /\ Len(receipts[n]) = seq[n]
              /\ \A i \in 1..Len(receipts[n]) : receipts[n][i].sequence = i - 1
              /\ SumOfAmounts(receipts[n], 1..Len(receipts[n])) = spent[n]
          BY ReceiptsAreSums DEF BooksInv
        <4> QED BY <4>1, <4>2
      <3> QED BY <3>1, <3>2
    <2> QED BY <2>7, ReceiptsAreSums
  <1> QED BY <1>2, <1>3, <1>4

LEMMA BooksInit == Init => BooksInv
  <1> SUFFICES ASSUME Init PROVE BooksInv
    OBVIOUS
  <1>1. MandatesInv
    BY MandatesInit
  <1>2. NothingFromNowhere
    BY DEF Init, NothingFromNowhere
  <1>3. ReceiptsTellAll
    <2> SUFFICES ASSUME NEW m \in MandateTerms
                 PROVE  /\ Len(receipts[m]) = seq[m]
                        /\ \A i \in 1..Len(receipts[m]) : receipts[m][i].sequence = i - 1
                        /\ SumOfAmounts(receipts[m], 1..Len(receipts[m])) = spent[m]
      BY ReceiptsAreSums
    <2>1. receipts[m] = << >> /\ seq[m] = 0 /\ spent[m] = 0 /\ 1..0 = {}
      BY DEF Init
    <2>2. SumOfAmounts(<< >>, {}) = 0
      BY SumOfNone, AmountsAgree
    <2> QED BY <2>1, <2>2
  <1>4. BooksMatchLedger
    <2> SUFFICES ASSUME NEW a \in Assets, NEW u \in Users, NEW w \in Payees
                 PROVE  drawn[a][u][w] = Sum(spent, Naming(a, u, w))
      BY BooksAreSums
    <2>1. drawn[a][u][w] = 0 /\ \A k \in Naming(a, u, w) : spent[k] = 0
      BY NamingIsFinite DEF Init, TokenInit
    <2>2. Sum(spent, Naming(a, u, w)) = 0
      BY <2>1, NamingIsFinite, SumOfZeros, Zenon
    <2> QED BY <2>1, <2>2
  <1> QED BY <1>1, <1>2, <1>3, <1>4 DEF BooksInv

LEMMA BooksStep == BooksInv /\ [Next]_vars => BooksInv'
  <1> SUFFICES ASSUME BooksInv, [Next]_vars PROVE BooksInv'
    OBVIOUS
  <1>0. MandatesInv /\ NothingFromNowhere /\ MandatesInv'
    BY MandatesStep DEF BooksInv
  <1>1. ASSUME NEW m \in MandateTerms, NEW amount \in PaymentAmounts, NEW k \in 0..MaxSeq,
               ExecutePayment(m, amount, k)
        PROVE  BooksInv'
    BY <1>0, <1>1, PaymentKeepsBooks DEF BooksInv
  <1>2. CASE ~ \E m \in MandateTerms, amount \in PaymentAmounts, k \in 0..MaxSeq :
                 ExecutePayment(m, amount, k)
    <2>1. /\ spent' = spent /\ seq' = seq /\ receipts' = receipts /\ drawn' = drawn
          /\ \A m \in MandateTerms : Registered(m) => Registered(m)'
      BY <1>0, <1>2, OthersSpendNothing, OthersDrawNothing
    <2>2. NothingFromNowhere'
      BY <1>0, <2>1 DEF NothingFromNowhere
    <2>3. BooksMatchLedger'
      BY <2>1, BooksAreSums DEF BooksInv
    <2>4. ReceiptsTellAll'
      BY <2>1, ReceiptsAreSums DEF BooksInv
    <2> QED BY <1>0, <2>2, <2>3, <2>4 DEF BooksInv
  <1> QED BY <1>1, <1>2

THEOREM BooksInvariant == Spec => []BooksInv
  BY BooksInit, BooksStep, PTL DEF Spec

\* What was ever drawn from a user for a merchant is what the mandates that name
\* them have spent.
THEOREM BooksAreTrue == Spec => []BooksMatchLedger
  <1>1. BooksInv => BooksMatchLedger
    BY DEF BooksInv
  <1> QED BY <1>1, BooksInvariant, PTL

\* The payment events of a mandate number its payments and add up to what it has
\* spent.
THEOREM ReceiptsAreComplete == Spec => []ReceiptsTellAll
  <1>1. BooksInv => ReceiptsTellAll
    BY DEF BooksInv
  <1> QED BY <1>1, BooksInvariant, PTL

LEMMA SpendStepHolds == BooksInv /\ [Next]_vars => SpendStep
  <1> SUFFICES ASSUME BooksInv, [Next]_vars, NEW n \in MandateTerms, spent'[n] # spent[n]
               PROVE  /\ ~paused /\ n.asset \in allowed
                      /\ status[n] = "Active" /\ now < n.expiry
                      /\ spent'[n] > spent[n]
                      /\ drawn'[n.asset][n.user][n.merchant]
                           - drawn[n.asset][n.user][n.merchant] = spent'[n] - spent[n]
                      /\ \A k \in MandateTerms \ {n} : spent'[k] = spent[k]
    BY DEF SpendStep
  <1>0. MandatesInv /\ NothingFromNowhere
    BY DEF BooksInv
  <1>1. PICK m \in MandateTerms, amount \in PaymentAmounts, k \in 0..MaxSeq :
               ExecutePayment(m, amount, k)
    BY <1>0, OthersSpendNothing
  <1>2. /\ n = m /\ amount \in Int /\ amount > 0 /\ spent'[n] = spent[n] + amount
        /\ status[n] = "Active" /\ now < n.expiry
        /\ \A j \in MandateTerms \ {n} : spent'[j] = spent[j]
    BY <1>0, <1>1, PaymentFacts
  <1>3. ~paused /\ n.asset \in allowed
    BY <1>1, <1>2 DEF ExecutePayment, CheckedSpent
  <1>4. /\ n.asset \in Assets /\ n.user \in Users /\ n.merchant \in Payees
        /\ n \in Naming(n.asset, n.user, n.merchant) /\ spent[n] \in Int
    BY <1>0, RegistryConstants DEF MandateTermsType, Naming, MandatesInv, MoneyTypeOK
  <1>5. drawn'[n.asset][n.user][n.merchant] = drawn[n.asset][n.user][n.merchant] + amount
    BY <1>0, <1>1, <1>2, <1>4, PaymentMoves
  <1>6. drawn[n.asset][n.user][n.merchant] \in Int
    <2>1. drawn[n.asset][n.user][n.merchant] = Sum(spent, Naming(n.asset, n.user, n.merchant))
      BY <1>4, BooksAreSums DEF BooksInv
    <2>2. \A j \in MandateTerms : spent[j] \in Int
      BY <1>0 DEF MandatesInv, MoneyTypeOK
    <2>3. \A j \in Naming(n.asset, n.user, n.merchant) : spent[j] \in Int
      BY <2>2, NamingIsFinite
    <2>4. Sum(spent, Naming(n.asset, n.user, n.merchant)) \in Int
      BY <2>3, NamingIsFinite, SumPick, Zenon
    <2> QED BY <2>1, <2>4
  <1> QED BY <1>2, <1>3, <1>4, <1>5, <1>6

\* Money moves only as much as one live mandate is charged, unpaused and in an
\* asset that is allowed now.
THEOREM MoneyMovesAsAdmitted == Spec => SpendingIsAdmitted
  <1>1. BooksInv /\ [Next]_vars => [SpendStep]_vars
    BY SpendStepHolds
  <1> QED BY <1>1, BooksInvariant, PTL DEF Spec, SpendingIsAdmitted

--------------------------------------------------------------------------------
\* The registry implements the mandate ledger.

\* What the ledger says a charge of one mandate moves.
LEMMA LedgerMoves ==
  ASSUME NEW m \in MandateTerms, Registered(m), NEW amount, amount[m] \in Int,
         NEW a, NEW u, NEW w
  PROVE  Ledger!Moved({m}, amount, a, u, w) =
           IF m \in Naming(a, u, w) THEN amount[m] ELSE 0
  <1> DEFINE G == [n \in MandateTerms |-> IF Registered(n) THEN n ELSE NoGrant]
             hit == {n \in {m} : G[n].asset = a /\ G[n].user = u /\ G[n].merchant = w}
  <1>1. Ledger!Moved({m}, amount, a, u, w) = Sum(amount, hit)
    BY Zenon DEF Ledger!Moved, Ledger!MapThenSumSet, Ledger!MapThenFoldSet, Sum,
                 MapThenSumSet, MapThenFoldSet
  <1>2. hit = IF m \in Naming(a, u, w) THEN {m} ELSE {}
    BY DEF Naming
  <1> HIDE DEF hit
  <1>3. Sum(amount, {m}) = amount[m] /\ Sum(amount, {}) = 0
    BY SumOfOne, SumOfNone
  <1> QED BY <1>1, <1>2, <1>3

LEMMA LedgerCharge ==
  ASSUME BooksInv, NEW m \in MandateTerms, NEW amount \in PaymentAmounts,
         NEW expectedSeq, ExecutePayment(m, amount, expectedSeq)
  PROVE  Ledger!Next
  <1> DEFINE d == [n \in MandateTerms |-> spent'[n] - spent[n]]
  <1>1. MandatesInv
    BY DEF BooksInv
  <1>2. /\ amount \in Int /\ amount > 0 /\ Registered(m) /\ status[m] = "Active"
        /\ now < m.expiry /\ spent[m] + amount <= m.maxAmount
        /\ spent'[m] = spent[m] + amount /\ spent[m] \in Int
        /\ status'[m] \in {"Active", "Exhausted"}
        /\ \A n \in MandateTerms \ {m} : spent'[n] = spent[n] /\ status'[n] = status[n]
        /\ now' = now
    BY <1>1, PaymentFacts DEF MandatesInv, MoneyTypeOK
  <1>3. d[m] = amount
    BY <1>2
  <1>4. m # NoGrant
    BY GrantConstants
  <1> HIDE DEF d
  <1>5. Ledger!Charge({m}, d)
    <2>1. Ledger!Chargeable(m)
      BY <1>2, <1>4 DEF Ledger!Chargeable, Ledger!Granted
    <2>2. spent' = [n \in MandateTerms |-> IF n \in {m} THEN spent[n] + d[n] ELSE spent[n]]
      <3>1. spent' \in [MandateTerms -> Nat]
        <4>1. MandatesInv'
          BY <1>1, PaymentKeepsInv
        <4> QED BY <4>1 DEF MandatesInv, MoneyTypeOK
      <3> QED BY <1>2, <1>3, <3>1
    <2>3. drawn' = [a \in Assets |-> [u \in Users |-> [w \in Payees |->
                      drawn[a][u][w] + Ledger!Moved({m}, d, a, u, w)]]]
      <3>1. \A a, u, w : Ledger!Moved({m}, d, a, u, w) =
                           IF m \in Naming(a, u, w) THEN amount ELSE 0
        BY <1>2, <1>3, LedgerMoves
      <3>2. drawn' = [a \in Assets |-> [u \in Users |-> [w \in Payees |->
                        drawn[a][u][w] + (IF m \in Naming(a, u, w) THEN amount ELSE 0)]]]
        BY <1>1, PaymentMoves
      <3>3. \A a \in Assets, u \in Users, w \in Payees :
              drawn[a][u][w] + Ledger!Moved({m}, d, a, u, w) =
                drawn[a][u][w] + (IF m \in Naming(a, u, w) THEN amount ELSE 0)
        BY <3>1
      <3> QED BY <3>2, <3>3, Zenon
    <2>4. \A n \in MandateTerms : /\ Registered(n) <=> Registered(n)'
                                 /\ (status[n] # "Revoked") = (status'[n] # "Revoked")
      BY <1>2 DEF Registered
    <2>5. /\ [n \in MandateTerms |-> IF Registered(n)' THEN n ELSE NoGrant] =
               [n \in MandateTerms |-> IF Registered(n) THEN n ELSE NoGrant]
          /\ [n \in MandateTerms |-> status'[n] # "Revoked"] =
               [n \in MandateTerms |-> status[n] # "Revoked"]
      BY <2>4
    <2>6. d[m] > 0 /\ spent[m] + d[m] <= m.maxAmount
      BY <1>2, <1>3
    <2> QED BY <1>2, <2>1, <2>2, <2>3, <2>5, <2>6, Zenon DEF Ledger!Charge
  <1>6. {m} \in SUBSET MandateTerms
    OBVIOUS
  <1> QED BY <1>5, <1>6 DEF Ledger!Next, d

LEMMA LedgerGrant ==
  ASSUME BooksInv, NEW m \in MandateTerms, Store(m), now' = now, drawn' = drawn
  PROVE  Ledger!Next
  <1>1. /\ m.maxAmount > 0 /\ now < m.expiry /\ ~Registered(m)
        /\ status' = [status EXCEPT ![m] = "Active"]
        /\ spent' = [spent EXCEPT ![m] = 0]
        /\ spent \in [MandateTerms -> Nat] /\ spent[m] = 0
        /\ status \in [MandateTerms -> {"None", "Active", "Revoked", "Exhausted"}]
    BY DEF Store, IsTimely, IsFresh, BooksInv, NothingFromNowhere, MandatesInv, MoneyTypeOK
  <1>2. spent' = spent
    BY <1>1
  <1>3. [n \in MandateTerms |-> IF Registered(n)' THEN n ELSE NoGrant] =
          [[n \in MandateTerms |-> IF Registered(n) THEN n ELSE NoGrant] EXCEPT ![m] = m]
    BY <1>1 DEF Registered
  <1>4. [n \in MandateTerms |-> status'[n] # "Revoked"] =
          [n \in MandateTerms |-> status[n] # "Revoked"]
    BY <1>1 DEF Registered
  <1>5. Ledger!GrantMandate(m, m)
    BY <1>1, <1>2, <1>3, <1>4, Zenon DEF Ledger!GrantMandate, Ledger!Granted
  <1> QED BY <1>5 DEF Ledger!Next

LEMMA LedgerWithdraw ==
  ASSUME BooksInv, NEW m \in MandateTerms, RevokeMandate(m)
  PROVE  Ledger!Next
  <1>1. /\ Registered(m) /\ m # NoGrant /\ UNCHANGED <<now, spent, drawn>>
        /\ status' = [status EXCEPT ![m] = "Revoked"]
        /\ status \in [MandateTerms -> {"None", "Active", "Revoked", "Exhausted"}]
    BY GrantConstants DEF RevokeMandate, tokenVars, BooksInv, MandatesInv, MoneyTypeOK
  <1>2. [n \in MandateTerms |-> IF Registered(n)' THEN n ELSE NoGrant] =
          [n \in MandateTerms |-> IF Registered(n) THEN n ELSE NoGrant]
    BY <1>1 DEF Registered
  <1>3. [n \in MandateTerms |-> status'[n] # "Revoked"] =
          [[n \in MandateTerms |-> status[n] # "Revoked"] EXCEPT ![m] = FALSE]
    BY <1>1
  <1>4. Ledger!Withdraw(m)
    BY <1>1, <1>2, <1>3, Zenon DEF Ledger!Withdraw, Ledger!Granted
  <1> QED BY <1>4 DEF Ledger!Next

LEMMA LedgerInit == Init => Ledger!Init
  BY DEF Init, TokenInit, Ledger!Init, Registered

LEMMA LedgerStep == BooksInv /\ [Next]_vars => [Ledger!Next]_(Ledger!ledgerVars)
  <1> SUFFICES ASSUME BooksInv, [Next]_vars PROVE [Ledger!Next]_(Ledger!ledgerVars)
    OBVIOUS
  <1>1. ASSUME NEW m \in MandateTerms, RegisterMandate(m) \/ RegisterAndApprove(m)
        PROVE  Ledger!Next
    BY <1>1, LedgerGrant DEF RegisterMandate, RegisterAndApprove, tokenVars
  <1>2. ASSUME NEW m \in MandateTerms, RevokeMandate(m) PROVE Ledger!Next
    BY <1>2, LedgerWithdraw
  <1>3. ASSUME NEW m \in MandateTerms, NEW amount \in PaymentAmounts, NEW k \in 0..MaxSeq,
               ExecutePayment(m, amount, k)
        PROVE  Ledger!Next
    BY <1>3, LedgerCharge
  <1>4. ASSUME UNCHANGED <<now, status, spent, drawn>>
        PROVE  UNCHANGED Ledger!ledgerVars
    BY <1>4 DEF Ledger!ledgerVars, Registered
  <1>5. CASE Tick
    BY <1>5 DEF Tick, Ledger!Next, Ledger!Pass, tokenVars, moneyVars, Registered
  <1>6. ASSUME NEW caller \in Principals, Administer(caller)
        PROVE  UNCHANGED <<now, status, spent, drawn>>
    BY <1>6 DEF Administer, tokenVars, moneyVars
  <1>7. ASSUME TokenStep PROVE UNCHANGED <<now, status, spent, drawn>>
    BY <1>7 DEF TokenStep, Environment, Approve, MoveFunds, SetAuthorized, moneyVars
  <1>8. ASSUME UNCHANGED vars PROVE UNCHANGED <<now, status, spent, drawn>>
    BY <1>8 DEF vars, tokenVars, moneyVars
  <1> QED BY <1>1, <1>2, <1>3, <1>4, <1>5, <1>6, <1>7, <1>8 DEF Next

\* The registry, for all its administration, is a mandate ledger.
THEOREM ImplementsLedger == Spec => ImplementsMandateLedger
  BY LedgerInit, LedgerStep, BooksInvariant, PTL DEF Spec, ImplementsMandateLedger, Ledger!Spec

--------------------------------------------------------------------------------
\* What the preview promises, with the guards of the payment in the place of
\* ENABLED.

FundsTypeOK ==
  /\ allowance \in [Assets -> [Users -> Nat]]
  /\ balance \in [Assets -> [Users -> Nat]]

LEMMA FundsStep == FundsTypeOK /\ [Next]_vars => FundsTypeOK'
  <1> SUFFICES ASSUME FundsTypeOK, [Next]_vars PROVE FundsTypeOK'
    OBVIOUS
  <1> USE DEF FundsTypeOK
  <1>1. CASE UNCHANGED <<allowance, balance>>
    BY <1>1
  <1>2. ASSUME NEW m \in MandateTerms, RegisterAndApprove(m) PROVE FundsTypeOK'
    <2>1. m.maxAmount \in Nat
      BY <1>2, SignedTerms DEF RegisterAndApprove, Store
    <2> QED BY <1>2, <2>1 DEF RegisterAndApprove
  <1>3. ASSUME NEW a \in Assets, NEW u \in Users,
               NEW v \in AllowanceValues, Approve(a, u, v)
        PROVE  FundsTypeOK'
    BY <1>3, TokenConstants DEF Approve
  <1>4. ASSUME NEW a \in Assets, NEW u \in Users,
               NEW v \in BalanceValues, MoveFunds(a, u, v)
        PROVE  FundsTypeOK'
    BY <1>4, TokenConstants DEF MoveFunds
  <1>5. ASSUME NEW batch, Settle(batch) PROVE FundsTypeOK'
    <2>1. ASSUME NEW a \in Assets, NEW u \in Users
          PROVE  /\ allowance[a][u] - Due(batch, a, u) \in Nat
                 /\ balance[a][u] - Due(batch, a, u) \in Nat
      <3>1. allowance[a][u] \in Nat /\ balance[a][u] \in Nat
        OBVIOUS
      <3>2. /\ Due(batch, a, u) \in 0..balance[a][u]
            /\ Due(batch, a, u) \in 0..allowance[a][u]
        BY <1>5 DEF Settle, CanSettle
      <3> QED BY <3>1, <3>2
    <2> QED BY <1>5, <2>1 DEF Settle
  <1> HIDE DEF FundsTypeOK
  <1>6. ASSUME TokenStep PROVE FundsTypeOK'
    BY <1>1, <1>3, <1>4, <1>6 DEF TokenStep, Environment, SetAuthorized
  <1>7. ASSUME NEW m \in MandateTerms, NEW amount, NEW k, ExecutePayment(m, amount, k)
        PROVE  FundsTypeOK'
    BY <1>5, <1>7 DEF ExecutePayment
  <1>8. ASSUME UNCHANGED tokenVars PROVE FundsTypeOK'
    BY <1>1, <1>8 DEF tokenVars
  <1> QED BY <1>2, <1>6, <1>7, <1>8
          DEF Next, vars, RegisterMandate, RevokeMandate, Administer, Tick

\* A payment owes its payer's funds the amount, and nobody else's anything.
LEMMA DueOfPayment ==
  ASSUME NEW m \in MandateTerms, NEW amount \in Int, NEW a, NEW u
  PROVE  Due(Transfer(m, amount), a, u) = IF m.asset = a /\ m.user = u THEN amount ELSE 0
  <1> DEFINE batch == Transfer(m, amount)
             legs == {k \in DOMAIN batch : batch[k].asset = a /\ batch[k].from = u}
             f == [k \in {m} |-> amount]
  <1>1. Due(batch, a, u) = SumOfAmounts(batch, legs)
    BY DEF Due, SumOfAmounts
  <1>2. /\ \A k \in legs : batch[k].amount = f[k]
        /\ legs = IF m.asset = a /\ m.user = u THEN {m} ELSE {}
    BY DEF Transfer
  <1>3. f[m] = amount
    OBVIOUS
  <1> HIDE DEF batch, legs, f
  <1>4. Due(batch, a, u) = Sum(f, legs)
    BY <1>1, <1>2, AmountsAgree
  <1>5. Sum(f, {m}) = amount /\ Sum(f, {}) = 0
    BY <1>3, SumOfOne, SumOfNone
  <1>6. Due(batch, a, u) = IF m.asset = a /\ m.user = u THEN amount ELSE 0
    BY <1>2, <1>4, <1>5
  <1> QED BY <1>6 DEF batch

\* What a transfer asks of the payer.
CanPay(a, u, amount) ==
  /\ allowance[a][u] >= amount
  /\ balance[a][u] >= amount
  /\ authorized[a][u]

\* What `the tokens permitting' comes to: the payer has the allowance and the
\* funds, and neither party is frozen.
LEMMA TransferSettles ==
  ASSUME FundsTypeOK, NEW m \in MandateTerms, NEW amount \in Nat
  PROVE  CanSettle(Transfer(m, amount)) <=>
           CanPay(m.asset, m.user, amount) /\ authorized[m.asset][m.merchant]
  <1> DEFINE batch == Transfer(m, amount)
  <1>1. m.asset \in Assets /\ m.user \in Users
    BY RegistryConstants DEF MandateTermsType
  <1>2. /\ \A a \in Assets, u \in Users :
             Due(batch, a, u) = IF m.asset = a /\ m.user = u THEN amount ELSE 0
    BY DueOfPayment
  <1>3. (\A k \in DOMAIN batch : /\ authorized[batch[k].asset][batch[k].from]
                                /\ authorized[batch[k].asset][batch[k].to])
        <=> authorized[m.asset][m.user] /\ authorized[m.asset][m.merchant]
    BY DEF Transfer
  <1> HIDE DEF batch
  <1>4. (\A a \in Assets, u \in Users : /\ Due(batch, a, u) \in 0..balance[a][u]
                                       /\ Due(batch, a, u) \in 0..allowance[a][u])
        <=> allowance[m.asset][m.user] >= amount /\ balance[m.asset][m.user] >= amount
    <2>1. \A a \in Assets, u \in Users : allowance[a][u] \in Nat /\ balance[a][u] \in Nat
      BY DEF FundsTypeOK
    <2> QED BY <1>1, <1>2, <2>1
  <1>5. CanSettle(batch) <=> CanPay(m.asset, m.user, amount) /\ authorized[m.asset][m.merchant]
    BY <1>3, <1>4, Zenon DEF CanSettle, CanPay
  <1> QED BY <1>5 DEF batch

\* What execute_payment asks of the state, in its own order, and what it writes:
\* one value for each variable, whatever the state.
PaymentAllowed(m, amount, expectedSeq) ==
  /\ ~paused
  /\ Registered(m)
  /\ expectedSeq = seq[m]
  /\ CheckedSpent(m, amount, m.merchant)
  /\ SequenceLeft(m)
  /\ CanSettle(Transfer(m, amount))

PaymentWrites(m, amount) ==
  LET batch == Transfer(m, amount) IN
  /\ spent' = [spent EXCEPT ![m] = @ + amount]
  /\ seq' = [seq EXCEPT ![m] = @ + 1]
  /\ status' = [status EXCEPT ![m] = StatusAfter(m, spent[m] + amount)]
  /\ allowance' = [a \in Assets |-> [u \in Users |-> allowance[a][u] - Due(batch, a, u)]]
  /\ balance' = [a \in Assets |-> [u \in Users |-> balance[a][u] - Due(batch, a, u)]]
  /\ drawn' = [a \in Assets |-> [u \in Users |-> [w \in Payees |->
                 drawn[a][u][w] + Flow(batch, a, u, w)]]]
  /\ receipts' = [receipts EXCEPT ![m] = Append(@, ReceiptOf(m, amount))]
  /\ UNCHANGED <<authorized, adminVars, now, usedCredentials>>

\* Guards and writes are all there is to the payment.
LEMMA PaymentIsGuarded ==
  ASSUME NEW m, NEW amount, NEW expectedSeq
  PROVE  ExecutePayment(m, amount, expectedSeq)
           <=> PaymentAllowed(m, amount, expectedSeq) /\ PaymentWrites(m, amount)
  BY Zenon DEF ExecutePayment, PaymentAllowed, PaymentWrites, Settle

\* PreviewIsExact with the guards of the payment in the place of ENABLED.
PreviewDecides ==
  \A m \in MandateTerms, amount \in PaymentAmounts, expectedSeq \in 0..MaxSeq :
    PaymentAllowed(m, amount, expectedSeq) <=>
      /\ Preview(m, amount, expectedSeq, m.merchant, m.asset)
      /\ CanPay(m.asset, m.user, amount)
      /\ authorized[m.asset][m.merchant]

\* validate_mandate promises neither too much nor too little: its answer, the
\* payer's allowance and funds and two trustlines that are not frozen are all
\* that execute_payment asks for.
THEOREM PreviewIsDecisive == Spec => []PreviewDecides
  <1>1. Init => FundsTypeOK
    BY TokenConstants DEF Init, TokenInit, FundsTypeOK
  <1>2. FundsTypeOK => PreviewDecides
    <2> SUFFICES ASSUME FundsTypeOK, NEW m \in MandateTerms, NEW amount \in PaymentAmounts,
                        NEW expectedSeq \in 0..MaxSeq
                 PROVE  PaymentAllowed(m, amount, expectedSeq) <=>
                          /\ Preview(m, amount, expectedSeq, m.merchant, m.asset)
                          /\ CanPay(m.asset, m.user, amount)
                          /\ authorized[m.asset][m.merchant]
      BY DEF PreviewDecides
    <2>1. CASE amount > 0
      <3>1. amount \in Nat
        BY <2>1, RegistryConstants
      <3> QED BY <3>1, TransferSettles, Zenon DEF PaymentAllowed, Preview
    <2>2. CASE ~(amount > 0)
      BY <2>2 DEF PaymentAllowed, Preview, CheckedSpent
    <2> QED BY <2>1, <2>2
  <1> QED BY <1>1, <1>2, FundsStep, PTL DEF Spec

--------------------------------------------------------------------------------
\* The registry under its controllers: GovernedRegistry is a way of running the
\* registry, and a way of running the controllers, so what is proved of either
\* holds of both together.

\* The call an operation makes is one the controller can make.
LEMMA ControllerPerforms ==
  ASSUME NEW c \in Controllers, NEW op \in Operations, Control!Perform(c, ActionOf[op])
  PROVE  AdminStep(c)
  <1> DEFINE action == ActionOf[op]
  <1>1. action \in Control!Actions
    BY GovernedConstants
  <1> HIDE DEF action
  <1>2. action.kind = "Upgrade" => action.hash \in WasmHashes
    BY <1>1 DEF Control!Actions
  <1>3. action.kind = "AssetPolicy" => action.asset \in Listable /\ action.permit \in BOOLEAN
    BY <1>1 DEF Control!Actions
  <1>4. action.kind = "TransferAdmin" => action.newAdmin \in Principals
    BY <1>1 DEF Control!Actions
  <1>5. Control!Perform(c, action)
    BY DEF action
  <1> QED
    BY <1>2, <1>3, <1>4, <1>5
    DEF Control!Perform, Control!Upgrade, Control!Unpause, Control!SetAssetAllowed,
        Control!ProposeAdmin, AdminStep, Upgrade, Unpause, SetAssetAllowed, ProposeAdmin

\* What controllers and accounts do to the registry, they do through its
\* administration plane.
LEMMA ControlAdministers ==
  ASSUME Control!Next
  PROVE  (\E caller \in Principals : AdminStep(caller)) \/ UNCHANGED adminVars
  <1>1. Controllers \subseteq Principals /\ Accounts \subseteq Principals
    BY GovernedConstants
  <1>2. ASSUME NEW c \in Controllers, NEW a \in Accounts,
               Control!Deploy(c, a) \/ Control!ProposeGovernance(c, a)
        PROVE  UNCHANGED adminVars
    BY <1>2 DEF Control!Deploy, Control!ProposeGovernance, Control!adminVars, adminVars
  <1>3. ASSUME NEW c \in Controllers, Control!AcceptGovernance(c)
        PROVE  UNCHANGED adminVars
    BY <1>3 DEF Control!AcceptGovernance, Control!adminVars, adminVars
  <1>4. ASSUME NEW c \in Controllers, Control!AcceptManagement(c) PROVE AdminStep(c)
    BY <1>4 DEF Control!AcceptManagement, Control!AcceptAdmin, AdminStep, AcceptAdmin
  <1>5. ASSUME NEW c \in Controllers, Control!PauseNow(c) PROVE AdminStep(c)
    BY <1>5 DEF Control!PauseNow, Control!Pause, AdminStep, Pause
  <1>6. ASSUME NEW c \in Controllers, NEW op \in Operations,
               Control!Schedule(c, op) \/ Control!Cancel(c, op)
        PROVE  UNCHANGED adminVars
    BY <1>6 DEF Control!Schedule, Control!Cancel, Control!adminVars, adminVars
  <1>7. ASSUME NEW c \in Controllers, NEW op \in Operations, Control!Execute(c, op)
        PROVE  AdminStep(c)
    BY <1>7, ControllerPerforms DEF Control!Execute
  <1>8. ASSUME NEW a \in Accounts, Control!DirectCall(a) PROVE AdminStep(a)
    BY <1>8
    DEF Control!DirectCall, Control!AdminStep, Control!ProposeAdmin, Control!AcceptAdmin,
        Control!Pause, Control!Unpause, Control!SetAssetAllowed, Control!Upgrade,
        AdminStep, ProposeAdmin, AcceptAdmin, Pause, Unpause, SetAssetAllowed, Upgrade
  <1>9. ASSUME Control!CloseLedger PROVE UNCHANGED adminVars
    BY <1>9 DEF Control!CloseLedger, Control!adminVars, adminVars
  <1> QED BY <1>1, <1>2, <1>3, <1>4, <1>5, <1>6, <1>7, <1>8, <1>9 DEF Control!Next

LEMMA MoneyStepIsStep == ASSUME MoneyStep PROVE Next /\ UNCHANGED adminVars
  BY DEF MoneyStep, Next, RegisterMandate, RegisterAndApprove, RevokeMandate,
         ExecutePayment, TokenStep, Tick, adminVars

LEMMA GovernedStepIsStep == [GovernedNext]_governedVars => [Next]_vars
  <1>1. ASSUME ControlStep PROVE [Next]_vars
    <2>1. UNCHANGED <<tokenVars, now, moneyVars>>
      BY <1>1 DEF ControlStep
    <2>2. CASE \E caller \in Principals : AdminStep(caller)
      BY <2>1, <2>2 DEF Next, Administer
    <2>3. CASE UNCHANGED adminVars
      BY <2>1, <2>3 DEF vars
    <2> QED BY <1>1, <2>2, <2>3, ControlAdministers DEF ControlStep
  <1>2. UNCHANGED governedVars => UNCHANGED vars
    BY DEF governedVars, vars
  <1> QED BY <1>1, <1>2, MoneyStepIsStep DEF GovernedNext

\* Whatever is proved of the registry under any administration holds of it under
\* its controllers: to payments they are an administrator like any other.
THEOREM GovernedIsRegistry == GovernedSpec => Spec
  <1>1. GovernedInit => Init
    BY DEF GovernedInit
  <1> QED BY <1>1, GovernedStepIsStep, PTL DEF GovernedSpec, Spec

LEMMA GovernedStepIsControl == [GovernedNext]_governedVars => [Control!Next]_(Control!vars)
  <1>1. ASSUME UNCHANGED adminVars, UNCHANGED controlVars PROVE UNCHANGED Control!vars
    BY <1>1 DEF adminVars, controlVars, Control!vars, Control!adminVars,
                Control!controllerVars, Control!operationVars
  <1>2. MoneyStep => UNCHANGED controlVars
    BY DEF MoneyStep
  <1>3. UNCHANGED governedVars => UNCHANGED adminVars /\ UNCHANGED controlVars
    BY DEF governedVars
  <1> QED BY <1>1, <1>2, <1>3, MoneyStepIsStep DEF GovernedNext, ControlStep

\* Whatever is proved of the controllers holds while the registry they run is in
\* use: payments touch nothing they decide by.
THEOREM GovernedIsControlled == GovernedSpec => Control!Spec
  <1>1. GovernedInit => Control!Init
    BY DEF GovernedInit
  <1> QED BY <1>1, GovernedStepIsControl, PTL DEF GovernedSpec, Control!Spec

--------------------------------------------------------------------------------
\* What a stop is worth.

\* The controllers' clocks, as far as the argument needs them.
ClockTypeOK ==
  /\ ledger \in Nat
  /\ readyLedger \in [Controllers -> [Operations -> Nat]]

LEMMA ReadyAtIsNatural ==
  ASSUME ledger \in Nat
  PROVE  Control!ReadyAt \in Nat /\ (Control!DelayIsRepresentable => Control!ReadyAt = ledger + Delay)
  BY GovernedConstants DEF Control!ReadyAt, Control!DelayIsRepresentable

\* What a step of the controllers may do to the clocks.
LEMMA ClockSteps ==
  ASSUME ClockTypeOK, Control!Next
  PROVE  /\ ledger' \in {ledger, ledger + 1}
         /\ ledger' # ledger => UNCHANGED <<adminVars, readyLedger>>
         /\ readyLedger' \in [Controllers -> [Operations -> Nat]]
  <1>1. ASSUME NEW c \in Controllers, NEW op \in Operations, NEW r \in Nat
        PROVE  [readyLedger EXCEPT ![c][op] = r] \in [Controllers -> [Operations -> Nat]]
    BY DEF ClockTypeOK
  <1>2. 0 \in Nat /\ 1 \in Nat /\ Control!ReadyAt \in Nat
    BY ReadyAtIsNatural DEF ClockTypeOK
  <1>3. ASSUME NEW c \in Controllers, NEW a \in Accounts,
               Control!Deploy(c, a) \/ Control!ProposeGovernance(c, a)
        PROVE  ledger' = ledger /\ readyLedger' = readyLedger
    BY <1>3 DEF Control!Deploy, Control!ProposeGovernance, Control!operationVars
  <1>4. ASSUME NEW c \in Controllers,
               Control!AcceptGovernance(c) \/ Control!AcceptManagement(c) \/ Control!PauseNow(c)
        PROVE  ledger' = ledger /\ readyLedger' = readyLedger
    BY <1>4 DEF Control!AcceptGovernance, Control!AcceptManagement, Control!PauseNow,
                Control!operationVars
  <1>5. ASSUME NEW c \in Controllers, NEW op \in Operations,
               Control!Schedule(c, op) \/ Control!Cancel(c, op) \/ Control!Execute(c, op)
        PROVE  ledger' = ledger /\ readyLedger' \in [Controllers -> [Operations -> Nat]]
    <2>1. PICK r \in Nat : readyLedger' = [readyLedger EXCEPT ![c][op] = r]
      <3>1. CASE Control!Schedule(c, op)
        BY <1>2, <3>1 DEF Control!Schedule
      <3>2. CASE Control!Cancel(c, op)
        BY <1>2, <3>2 DEF Control!Cancel, Control!UnsetLedger
      <3>3. CASE Control!Execute(c, op)
        BY <1>2, <3>3 DEF Control!Execute, Control!DoneLedger
      <3> QED BY <1>5, <3>1, <3>2, <3>3
    <2>2. ledger' = ledger
      BY <1>5 DEF Control!Schedule, Control!Cancel, Control!Execute
    <2> QED BY <1>1, <2>1, <2>2
  <1>6. ASSUME NEW a \in Accounts, Control!DirectCall(a)
        PROVE  ledger' = ledger /\ readyLedger' = readyLedger
    BY <1>6 DEF Control!DirectCall, Control!operationVars
  <1>7. ASSUME Control!CloseLedger
        PROVE  ledger' = ledger + 1 /\ UNCHANGED <<adminVars, readyLedger>>
    BY <1>7 DEF Control!CloseLedger, Control!operationVars, Control!adminVars, adminVars
  <1> QED BY <1>3, <1>4, <1>5, <1>6, <1>7 DEF Control!Next, ClockTypeOK

LEMMA ClockStep == ClockTypeOK /\ [GovernedNext]_governedVars => ClockTypeOK'
  <1>1. ASSUME ClockTypeOK, Control!Next PROVE ClockTypeOK'
    BY <1>1, ClockSteps DEF ClockTypeOK
  <1>2. ASSUME ClockTypeOK, UNCHANGED controlVars PROVE ClockTypeOK'
    BY <1>2 DEF ClockTypeOK, controlVars
  <1>3. UNCHANGED governedVars => UNCHANGED controlVars
    BY DEF governedVars
  <1> QED BY <1>1, <1>2, <1>3 DEF GovernedNext, ControlStep, MoneyStep

LEMMA ClockInvariant == GovernedSpec => []ClockTypeOK
  <1>1. GovernedInit => ClockTypeOK
    BY DEF GovernedInit, Control!Init, ClockTypeOK, Control!UnsetLedger
  <1> QED BY <1>1, ClockStep, PTL DEF GovernedSpec

\* Nothing becomes ready early but by a schedule call that takes effect late.
LEMMA NoneReadyStays ==
  ASSUME NEW c \in Controllers, NEW actions, NEW until, NoneReady(c, actions, until),
         \A op \in Operations :
           readyLedger'[c][op] \in {readyLedger[c][op], 0, 1} \/ readyLedger'[c][op] >= until
  PROVE  \A op \in Operations :
           ActionOf[op] \in actions /\ Control!Pending(c, op)' => readyLedger'[c][op] >= until
  BY DEF NoneReady, Control!Pending, Control!UnsetLedger, Control!DoneLedger

\* While mandate m is barred no step of a controller or an account lifts the bar
\* before `until'.
LEMMA BarStays ==
  ASSUME NEW c \in Controllers, NEW m \in MandateTerms, NEW until \in Nat,
         ClockTypeOK, Control!Next, ledger < until,
         Barred(c, m, until), until <= ledger + Delay
  PROVE  /\ admin' = c /\ pendingAdmin' = Nobody /\ code' = code
         /\ \A op \in Operations :
              \/ readyLedger'[c][op] \in {readyLedger[c][op], 0, 1}
              \/ readyLedger'[c][op] >= until
         /\ \/ paused /\ paused' /\ NoneReady(c, Resumption, until)
            \/ m.asset \notin allowed /\ m.asset \notin allowed'
               /\ NoneReady(c, Listing(m.asset), until)
  <1> DEFINE Timed == \A op \in Operations :
                        \/ readyLedger'[c][op] \in {readyLedger[c][op], 0, 1}
                        \/ readyLedger'[c][op] >= until
             Stays == \/ paused /\ paused' /\ NoneReady(c, Resumption, until)
                      \/ m.asset \notin allowed /\ m.asset \notin allowed'
                         /\ NoneReady(c, Listing(m.asset), until)
             Goal == admin' = c /\ pendingAdmin' = Nobody /\ code' = code /\ Timed /\ Stays
  <1>1. /\ admin = c /\ pendingAdmin = Nobody /\ NoneReady(c, Handovers, until)
        /\ \/ paused /\ NoneReady(c, Resumption, until)
           \/ m.asset \notin allowed /\ NoneReady(c, Listing(m.asset), until)
    BY DEF Barred
  <1>2. c \notin Accounts
    BY GovernedConstants
  <1>3. ASSUME UNCHANGED adminVars, Timed PROVE Goal
    BY <1>1, <1>3 DEF adminVars
  <1>4. ASSUME readyLedger' = readyLedger PROVE Timed
    BY <1>4
  <1>5. ASSUME NEW d \in Controllers, NEW a \in Accounts,
               Control!Deploy(d, a) \/ Control!ProposeGovernance(d, a)
        PROVE  Goal
    BY <1>3, <1>4, <1>5 DEF Control!Deploy, Control!ProposeGovernance,
                            Control!operationVars, Control!adminVars, adminVars
  <1>6. ASSUME NEW d \in Controllers, Control!AcceptGovernance(d) PROVE Goal
    BY <1>3, <1>4, <1>6 DEF Control!AcceptGovernance, Control!operationVars,
                            Control!adminVars, adminVars
  <1>7. ASSUME NEW d \in Controllers, Control!AcceptManagement(d) PROVE FALSE
    BY <1>1, <1>7 DEF Control!AcceptManagement, Control!AcceptAdmin
  <1>8. ASSUME NEW d \in Controllers, Control!PauseNow(d) PROVE Goal
    BY <1>1, <1>4, <1>8 DEF Control!PauseNow, Control!Pause, Control!operationVars
  <1>9. ASSUME NEW d \in Controllers, NEW o \in Operations, Control!Schedule(d, o)
        PROVE  Goal
    <2>1. Control!ReadyAt \in Nat /\ Control!ReadyAt >= until
      BY <1>9, ReadyAtIsNatural, GovernedConstants DEF Control!Schedule, ClockTypeOK
    <2>2. Timed
      BY <1>9, <2>1 DEF Control!Schedule, ClockTypeOK
    <2> QED BY <1>3, <1>9, <2>2 DEF Control!Schedule, Control!adminVars, adminVars
  <1>10. ASSUME NEW d \in Controllers, NEW o \in Operations, Control!Cancel(d, o)
         PROVE  Goal
    <2>1. Timed
      BY <1>10 DEF Control!Cancel, Control!UnsetLedger, ClockTypeOK
    <2> QED BY <1>3, <1>10, <2>1 DEF Control!Cancel, Control!adminVars, adminVars
  <1>11. ASSUME NEW d \in Controllers, NEW o \in Operations, Control!Execute(d, o)
         PROVE  Goal
    <2> DEFINE action == ActionOf[o]
    <2>1. d = c /\ Control!Pending(c, o) /\ readyLedger[c][o] <= ledger
          /\ Control!Perform(c, action)
      BY <1>1, <1>11 DEF Control!Execute, Control!Owned, Control!IsReady
    <2>2. action \in Control!Actions
      BY GovernedConstants
    <2>3. ~(readyLedger[c][o] >= until)
      BY <2>1 DEF ClockTypeOK
    <2>4. action \notin Handovers
      BY <1>1, <2>1, <2>3 DEF NoneReady
    <2>5. NoneReady(c, Resumption, until) => action \notin Resumption
      BY <2>1, <2>3 DEF NoneReady
    <2>6. NoneReady(c, Listing(m.asset), until) => action \notin Listing(m.asset)
      BY <2>1, <2>3 DEF NoneReady
    <2>7. Timed
      BY <1>11 DEF Control!Execute, Control!DoneLedger, ClockTypeOK
    <2> HIDE DEF action
    <2>8. action.kind \notin {"Upgrade", "TransferAdmin"}
      BY <2>2, <2>4 DEF Handovers
    <2>9. CASE action.kind = "Unpause" /\ Control!Unpause(c)
      <3>1. action \in Resumption
        BY <2>2, <2>9 DEF Resumption, Control!Actions
      <3> QED BY <1>1, <2>5, <2>7, <2>9, <3>1 DEF Control!Unpause
    <2>10. CASE action.kind = "AssetPolicy"
                /\ Control!SetAssetAllowed(c, action.asset, action.permit)
      <3>1. action \in [kind : {"AssetPolicy"}, asset : Listable, permit : BOOLEAN]
        BY <2>2, <2>10 DEF Control!Actions
      <3>2. action.asset = m.asset /\ action.permit => action \in Listing(m.asset)
        BY <3>1 DEF Listing
      <3>3. m.asset \notin allowed /\ ~(action.asset = m.asset /\ action.permit)
            => m.asset \notin allowed'
        BY <2>10, <3>1 DEF Control!SetAssetAllowed
      <3> QED BY <1>1, <2>6, <2>7, <2>10, <3>2, <3>3 DEF Control!SetAssetAllowed
    <2> QED BY <2>1, <2>8, <2>9, <2>10 DEF Control!Perform
  <1>12. ASSUME NEW a \in Accounts, Control!DirectCall(a) PROVE FALSE
    BY <1>1, <1>2, <1>12
    DEF Control!DirectCall, Control!AdminStep, Control!ProposeAdmin, Control!AcceptAdmin,
        Control!Pause, Control!Unpause, Control!SetAssetAllowed, Control!Upgrade
  <1>13. ASSUME Control!CloseLedger PROVE Goal
    BY <1>3, <1>4, <1>13 DEF Control!CloseLedger, Control!operationVars,
                             Control!adminVars, adminVars
  <1> QED BY <1>5, <1>6, <1>7, <1>8, <1>9, <1>10, <1>11, <1>12, <1>13 DEF Control!Next

\* The bar and what it protects, until the ledger reaches `until'.
Kept(c, m, until, amount, hash) ==
  ledger < until =>
    Barred(c, m, until) /\ until <= ledger + Delay /\ spent[m] = amount /\ code = hash

LEMMA KeptStep ==
  ASSUME NEW c \in Controllers, NEW m \in MandateTerms, NEW until \in Nat,
         NEW amount, NEW hash,
         ClockTypeOK, BooksInv, [GovernedNext]_governedVars,
         Kept(c, m, until, amount, hash)
  PROVE  Kept(c, m, until, amount, hash)'
  <1>1. ASSUME Control!Next, spent' = spent PROVE Kept(c, m, until, amount, hash)'
    <2> SUFFICES ASSUME ledger' < until
                 PROVE  /\ Barred(c, m, until)' /\ until <= ledger' + Delay
                        /\ spent'[m] = amount /\ code' = hash
      BY DEF Kept
    <2>1. ledger' \in {ledger, ledger + 1} /\ ledger \in Nat /\ Delay \in Nat
      BY <1>1, ClockSteps, GovernedConstants DEF ClockTypeOK
    <2>2. ledger < until /\ Barred(c, m, until) /\ until <= ledger + Delay
          /\ spent[m] = amount /\ code = hash
      BY <2>1 DEF Kept
    <2>3. Barred(c, m, until)'
      <3>1. \A op \in Operations :
              \/ readyLedger'[c][op] \in {readyLedger[c][op], 0, 1}
              \/ readyLedger'[c][op] >= until
        BY <1>1, <2>2, BarStays
      <3>2. \A actions : NoneReady(c, actions, until) =>
              \A op \in Operations :
                ActionOf[op] \in actions /\ Control!Pending(c, op)'
                  => readyLedger'[c][op] >= until
        BY <3>1, NoneReadyStays
      <3>3. /\ NoneReady(c, Handovers, until) => NoneReady(c, Handovers, until)'
            /\ NoneReady(c, Resumption, until) => NoneReady(c, Resumption, until)'
            /\ NoneReady(c, Listing(m.asset), until) => NoneReady(c, Listing(m.asset), until)'
        BY <3>2 DEF NoneReady, Handovers, Resumption, Listing, Control!Actions
      <3> QED BY <1>1, <2>2, <3>3, BarStays DEF Barred
    <2>4. until <= ledger' + Delay
      <3>1. ledger' = ledger \/ ledger' = ledger + 1
        BY <2>1
      <3>2. until <= ledger + Delay
        BY <2>2
      <3>3. ledger \in Int /\ Delay \in Int
        BY <2>1
      <3> QED BY <3>1, <3>2, <3>3
    <2>5. spent'[m] = amount
      BY <1>1, <2>2
    <2>6. code' = hash
      BY <1>1, <2>2, BarStays
    <2> QED BY <2>3, <2>4, <2>5, <2>6
  <1>2. ASSUME UNCHANGED adminVars, UNCHANGED controlVars,
               ledger < until => spent'[m] = spent[m]
        PROVE  Kept(c, m, until, amount, hash)'
    BY <1>2 DEF Kept, Barred, NoneReady, Control!Pending, Control!UnsetLedger,
                Control!DoneLedger, adminVars, controlVars
  <1>3. ASSUME MoneyStep PROVE Kept(c, m, until, amount, hash)'
    <2>1. SpendStep
      BY SpendStepHolds, GovernedStepIsStep
    <2>2. ledger < until => spent'[m] = spent[m]
      BY <2>1 DEF SpendStep, Kept, Barred
    <2> QED BY <1>2, <1>3, <2>2, MoneyStepIsStep DEF MoneyStep
  <1>4. ASSUME UNCHANGED governedVars PROVE Kept(c, m, until, amount, hash)'
    BY <1>2, <1>4 DEF governedVars, moneyVars
  <1>5. ASSUME ControlStep PROVE Kept(c, m, until, amount, hash)'
    BY <1>1, <1>5 DEF ControlStep, moneyVars
  <1> QED BY <1>3, <1>4, <1>5 DEF GovernedNext

\* A stop can be relied on: until something already announced could lift it, or
\* else for the whole delay, a barred mandate is not charged nor the code changed.
THEOREM StopsAreKept == GovernedSpec => StopsHold
  <1> SUFFICES ASSUME NEW c \in Controllers, NEW m \in MandateTerms,
                      NEW until \in 1..MaxLedger + 1,
                      NEW amount \in 0..m.maxAmount, NEW hash \in WasmHashes
               PROVE  GovernedSpec =>
                        [](/\ Barred(c, m, until) /\ until <= ledger + Delay
                           /\ spent[m] = amount /\ code = hash
                           => [](ledger < until => spent[m] = amount /\ code = hash))
    BY DEF StopsHold
  <1> DEFINE Stop == /\ Barred(c, m, until) /\ until <= ledger + Delay
                     /\ spent[m] = amount /\ code = hash
             Safe == ledger < until => spent[m] = amount /\ code = hash
             Now == Kept(c, m, until, amount, hash)
  <1>1. until \in Nat
    BY GovernedConstants
  <1>2. Stop => Now
    BY DEF Kept
  <1>3. Now => Safe
    BY DEF Kept
  <1>4. ClockTypeOK /\ BooksInv /\ [GovernedNext]_governedVars /\ Now => Now'
    BY <1>1, KeptStep
  <1>5. GovernedSpec => []ClockTypeOK /\ []BooksInv
    BY ClockInvariant, GovernedIsRegistry, BooksInvariant, PTL
  <1>6. GovernedSpec => [][GovernedNext]_governedVars
    BY DEF GovernedSpec
  <1> HIDE DEF Stop, Safe, Now
  <1>7. GovernedSpec => [](Stop => []Safe)
    BY <1>2, <1>3, <1>4, <1>5, <1>6, PTL
  <1> QED BY <1>7 DEF Stop, Safe

================================================================================
