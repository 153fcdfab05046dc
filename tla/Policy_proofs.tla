----------------------------- MODULE Policy_proofs ------------------------------
(***************************************************************************)
(* The reference policy over the simple registry, for every set of signed  *)
(* terms, every cap and every executor's requests.  The inductive          *)
(* invariant is PolicyInv: that nonces count payments is inductive only    *)
(* together with the fact that a consumed nonce belongs to a policy in     *)
(* force (NoncesAreInForce), so that a new mandate starts from none.       *)
(*                                                                         *)
(* Then the calls within a transaction, on a host that admits re-entry or  *)
(* not, to any depth: FramesInv is about the locks, CallsInv about nonces  *)
(* and caps, ChainInv about the sums of what was booked and what moved,    *)
(* StepsInv about how far a transaction has come: it makes one step of it. *)
(***************************************************************************)
EXTENDS CallFrames, SequenceTheorems, Sums_proofs

LEMMA SignedTerms ==
  ASSUME NEW t \in MandateTerms
  PROVE  t.maxAmount \in Int /\ t.expiry \in Nat /\ t # NoTerms
  BY RegistryConstants DEF MandateTermsType

LEMMA PolicyInit == Init => PolicyInv
  <1> SUFFICES ASSUME Init PROVE PolicyInv
    OBVIOUS
  <1>1. 0 \in 0..MaxTime /\ 0 \in 0..MaxSeq
    BY RegistryConstants
  <1>2. BooksTypeOK
    BY <1>1 DEF Init, RegistryInit, BooksTypeOK
  <1>3. \A m \in Mandates : ~Registered(m) /\ ~Installed(m)
    BY DEF Init, RegistryInit, Registered, Installed
  <1>4. NoncesAreInForce
    BY FS_EmptySet DEF Init, NoncesAreInForce
  <1>5. StatusTracksTerms
    BY <1>3 DEF Init, RegistryInit, StatusTracksTerms
  <1> QED BY <1>2, <1>3, <1>4, <1>5 DEF PolicyInv, BindingStaysTrue, NoncesMatchPayments,
             SpendWithinCaps, UsesExtension

\* The facts about one mandate that the steps rest on.
LEMMA MandateFacts ==
  ASSUME PolicyInv, NEW m \in Mandates
  PROVE  /\ spent[m] \in Nat /\ seq[m] \in Nat /\ seq[m] \in 0..MaxSeq
         /\ Registered(m) => /\ terms[m] \in MandateTerms
                             /\ terms[m].maxAmount \in Int /\ terms[m].expiry \in Nat
         /\ Installed(m) => policy[m].cap \in Nat /\ UsesExtension(m)
         /\ ~Installed(m) => NoncesOf(m) = {}
         /\ NoncesOf(m) \subseteq consumed
  <1>1. /\ spent[m] \in Nat /\ seq[m] \in 0..MaxSeq
        /\ terms[m] \in MandateTerms \union {NoTerms}
    BY DEF PolicyInv, BooksTypeOK
  <1>2. Registered(m) => /\ terms[m] \in MandateTerms
                         /\ terms[m].maxAmount \in Int /\ terms[m].expiry \in Nat
    BY <1>1, SignedTerms DEF Registered
  <1>3. Installed(m) => policy[m].cap \in Nat /\ UsesExtension(m)
    BY <1>2 DEF PolicyInv, BindingStaysTrue, UsesExtension
  <1>4. ~Installed(m) => NoncesOf(m) = {}
    BY DEF PolicyInv, NoncesAreInForce, NoncesOf
  <1> QED BY <1>1, <1>2, <1>3, <1>4 DEF NoncesOf

\* Steps that leave the books and the policies alone.
LEMMA BooksUnchanged ==
  ASSUME PolicyInv, UNCHANGED mandateVars, UNCHANGED policyVars,
         now' \in 0..MaxTime, paused' \in BOOLEAN
  PROVE  PolicyInv'
  <1>1. BooksTypeOK'
    BY DEF PolicyInv, BooksTypeOK, mandateVars, policyVars
  <1>2. BindingStaysTrue' /\ SpendWithinCaps' /\ StatusTracksTerms'
    BY DEF PolicyInv, BindingStaysTrue, SpendWithinCaps, StatusTracksTerms, UsesExtension,
           Registered, Installed, mandateVars, policyVars
  <1>3. NoncesAreInForce' /\ NoncesMatchPayments'
    BY DEF PolicyInv, NoncesAreInForce, NoncesMatchPayments, NoncesOf, UsesExtension,
           Registered, Installed, mandateVars, policyVars
  <1> QED BY <1>1, <1>2, <1>3 DEF PolicyInv

LEMMA RegisterKeepsInv ==
  ASSUME PolicyInv, NEW m \in Mandates, NEW t \in MandateTerms,
         RegisterMandate(m, t), UNCHANGED policyVars
  PROVE  PolicyInv'
  <1>1. /\ t.maxAmount > 0 /\ ~Registered(m)
        /\ terms' = [terms EXCEPT ![m] = t]
        /\ status' = [status EXCEPT ![m] = "Active"]
        /\ spent' = [spent EXCEPT ![m] = 0]
        /\ seq' = [seq EXCEPT ![m] = 0]
        /\ UNCHANGED <<now, paused, policy, consumed>>
    BY DEF RegisterMandate, IsFresh, policyVars
  <1>2. BooksTypeOK'
    <2>1. 0 \in 0..MaxSeq
      BY RegistryConstants
    <2> QED BY <1>1, <2>1 DEF PolicyInv, BooksTypeOK
  <1>3. /\ terms'[m] = t /\ spent'[m] = 0 /\ seq'[m] = 0
        /\ \A n \in Mandates \ {m} :
             terms'[n] = terms[n] /\ spent'[n] = spent[n] /\ seq'[n] = seq[n]
    BY <1>1 DEF PolicyInv, BooksTypeOK
  <1>4. ~Installed(m) /\ NoncesOf(m) = {}
    BY <1>1, MandateFacts DEF UsesExtension
  <1>5. BindingStaysTrue'
    BY <1>1, <1>3, <1>4 DEF PolicyInv, BindingStaysTrue, UsesExtension, Registered, Installed
  <1>6. NoncesAreInForce'
    BY <1>1 DEF PolicyInv, NoncesAreInForce, Installed
  <1>7. NoncesMatchPayments'
    <2> SUFFICES ASSUME NEW n \in Mandates, UsesExtension(n)'
                 PROVE  Cardinality(NoncesOf(n)') = seq'[n]
      BY DEF NoncesMatchPayments
    <2>1. NoncesOf(n)' = NoncesOf(n)
      BY <1>1 DEF NoncesOf
    <2>2. CASE n = m
      BY <1>3, <1>4, <2>1, <2>2, FS_EmptySet
    <2>3. CASE n # m
      <3>1. UsesExtension(n) /\ seq'[n] = seq[n]
        BY <1>3, <2>3 DEF UsesExtension, Registered
      <3> QED BY <2>1, <3>1 DEF PolicyInv, NoncesMatchPayments
    <2> QED BY <2>2, <2>3
  <1>8. SpendWithinCaps'
    <2>1. t.maxAmount \in Int
      BY SignedTerms
    <2> QED BY <1>1, <1>3, <1>4, <2>1 DEF PolicyInv, SpendWithinCaps, UsesExtension,
                                          Registered, Installed
  <1>9. StatusTracksTerms'
    BY <1>1, SignedTerms DEF PolicyInv, BooksTypeOK, StatusTracksTerms, Registered
  <1> QED BY <1>2, <1>5, <1>6, <1>7, <1>8, <1>9 DEF PolicyInv

LEMMA RevokeKeepsInv ==
  ASSUME PolicyInv, NEW m \in Mandates, RevokeMandate(m), UNCHANGED policyVars
  PROVE  PolicyInv'
  <1>1. /\ Registered(m) /\ status' = [status EXCEPT ![m] = "Revoked"]
        /\ UNCHANGED <<now, paused, terms, spent, seq, policy, consumed>>
    BY DEF RevokeMandate, policyVars
  <1>2. BooksTypeOK'
    BY <1>1 DEF PolicyInv, BooksTypeOK
  <1>3. BindingStaysTrue' /\ SpendWithinCaps'
    BY <1>1 DEF PolicyInv, BindingStaysTrue, SpendWithinCaps, UsesExtension, Registered,
                Installed
  <1>4. NoncesAreInForce' /\ NoncesMatchPayments'
    BY <1>1 DEF PolicyInv, NoncesAreInForce, NoncesMatchPayments, NoncesOf, UsesExtension,
                Registered, Installed
  <1>5. StatusTracksTerms'
    BY <1>1 DEF PolicyInv, BooksTypeOK, StatusTracksTerms, Registered
  <1> QED BY <1>2, <1>3, <1>4, <1>5 DEF PolicyInv

LEMMA InstallKeepsInv ==
  ASSUME PolicyInv, NEW m \in Mandates, NEW cap \in Caps, NEW notBefore \in StartTimes,
         InstallPolicy(m, cap, notBefore)
  PROVE  PolicyInv'
  <1> DEFINE new == [mandate |-> m, base |-> terms[m], cap |-> cap, notBefore |-> notBefore]
  <1>1. /\ ~Installed(m) /\ Registered(m) /\ terms[m].agent = Extension
        /\ cap > 0 /\ cap <= terms[m].maxAmount /\ notBefore < terms[m].expiry
        /\ policy' = [policy EXCEPT ![m] = new]
        /\ UNCHANGED <<now, paused, terms, status, spent, seq, consumed>>
    BY DEF InstallPolicy, NotYetInstalled, registryVars, mandateVars
  <1>2. /\ terms[m] \in MandateTerms /\ terms[m].maxAmount \in Int
        /\ NoncesOf(m) = {} /\ seq[m] \in Nat /\ cap \in Int
    BY <1>1, MandateFacts, PolicyConstants
  <1>3. new \in Policies /\ new # NoPolicy
    BY <1>2, PolicyConstants DEF Policies
  <1>4. /\ new.mandate = m /\ new.base = terms[m] /\ new.cap = cap
        /\ new.notBefore = notBefore
    OBVIOUS
  <1> HIDE DEF new
  <1>5. BooksTypeOK'
    BY <1>1, <1>3 DEF PolicyInv, BooksTypeOK
  <1>6. policy'[m] = new /\ \A n \in Mandates \ {m} : policy'[n] = policy[n]
    BY <1>1 DEF PolicyInv, BooksTypeOK
  <1>7. BindingStaysTrue'
    BY <1>1, <1>2, <1>4, <1>6 DEF PolicyInv, BindingStaysTrue, UsesExtension, Registered,
                                  Installed
  <1>8. NoncesAreInForce'
    <2> SUFFICES ASSUME NEW c \in consumed
                 PROVE  Installed(c[1].mandate)' /\ c[1] = policy'[c[1].mandate]
      BY <1>1 DEF PolicyInv, NoncesAreInForce
    <2>1. c[1].mandate \in Mandates
      BY DEF PolicyInv, BooksTypeOK, Policies
    <2>2. Installed(c[1].mandate) /\ c[1] = policy[c[1].mandate]
      BY DEF PolicyInv, NoncesAreInForce
    <2> QED BY <1>1, <1>6, <2>1, <2>2 DEF Installed
  <1>9. NoncesMatchPayments'
    BY <1>1 DEF PolicyInv, NoncesMatchPayments, NoncesOf, UsesExtension, Registered
  <1>10. SpendWithinCaps'
    <2>1. spent[m] = 0 /\ UsesExtension(m)
      BY <1>1 DEF PolicyInv, SpendWithinCaps, UsesExtension
    <2>2. seq[m] = 0
      BY <1>2, <2>1, FS_EmptySet DEF PolicyInv, NoncesMatchPayments
    <2>3. spent[m] <= seq[m] * cap
      BY <1>2, <2>1, <2>2
    <2> QED BY <1>1, <1>4, <1>6, <2>3 DEF PolicyInv, SpendWithinCaps, UsesExtension,
                                          Registered, Installed
  <1>11. StatusTracksTerms'
    BY <1>1 DEF PolicyInv, StatusTracksTerms, Registered
  <1> QED BY <1>5, <1>7, <1>8, <1>9, <1>10, <1>11 DEF PolicyInv

\* What a payment does to the books, by field, whoever asks for it.
LEMMA PaymentFacts ==
  ASSUME PolicyInv, NEW caller, NEW m \in Mandates, NEW amount \in PaymentAmounts,
         NEW expectedSeq, ExecutePayment(caller, m, amount, expectedSeq)
  PROVE  /\ Registered(m) /\ caller = terms[m].agent /\ status[m] = "Active"
         /\ amount \in Nat /\ amount > 0
         /\ spent[m] + amount <= terms[m].maxAmount
         /\ spent' = [spent EXCEPT ![m] = spent[m] + amount]
         /\ spent'[m] = spent[m] + amount
         /\ seq'[m] = seq[m] + 1 /\ seq[m] + 1 \in 0..MaxSeq
         /\ status'[m] \in {"Active", "Exhausted"}
         /\ \A n \in Mandates \ {m} :
              spent'[n] = spent[n] /\ seq'[n] = seq[n] /\ status'[n] = status[n]
         /\ UNCHANGED <<now, paused, terms>>
  <1>1. /\ Registered(m) /\ MayCall(caller, m) /\ Check(m, amount, terms[m].merchant)
        /\ SequenceLeft(m)
        /\ spent' = [spent EXCEPT ![m] = spent[m] + amount]
        /\ seq' = [seq EXCEPT ![m] = seq[m] + 1]
        /\ status' = [status EXCEPT ![m] = StatusAfter(m, spent[m] + amount)]
        /\ UNCHANGED <<now, paused, terms>>
    BY DEF ExecutePayment, PaymentAccepted, BookPayment
  <1>2. /\ amount \in Nat /\ amount > 0 /\ status[m] = "Active"
        /\ spent[m] + amount <= terms[m].maxAmount
    BY <1>1, RegistryConstants DEF Check
  <1>3. seq[m] + 1 \in 0..MaxSeq
    BY <1>1, MandateFacts, RegistryConstants DEF SequenceLeft
  <1>4. StatusAfter(m, spent[m] + amount) \in {"Active", "Exhausted"}
    BY <1>2 DEF StatusAfter
  <1>5. /\ spent'[m] = spent[m] + amount /\ seq'[m] = seq[m] + 1
        /\ status'[m] = StatusAfter(m, spent[m] + amount)
        /\ \A n \in Mandates \ {m} :
             spent'[n] = spent[n] /\ seq'[n] = seq[n] /\ status'[n] = status[n]
    BY <1>1 DEF PolicyInv, BooksTypeOK
  <1> QED BY <1>1, <1>2, <1>3, <1>4, <1>5 DEF MayCall

LEMMA PaymentKeepsTypes ==
  ASSUME PolicyInv, NEW caller, NEW m \in Mandates, NEW amount \in PaymentAmounts,
         NEW expectedSeq, ExecutePayment(caller, m, amount, expectedSeq),
         policy' = policy, consumed' \subseteq Policies \X Nonces
  PROVE  BooksTypeOK'
  <1>1. /\ spent' = [spent EXCEPT ![m] = spent[m] + amount]
        /\ seq' = [seq EXCEPT ![m] = seq[m] + 1]
        /\ status' = [status EXCEPT ![m] = StatusAfter(m, spent[m] + amount)]
    BY DEF ExecutePayment, PaymentAccepted, BookPayment
  <1>2. /\ spent[m] + amount \in Nat /\ seq[m] + 1 \in 0..MaxSeq
        /\ UNCHANGED <<now, paused, terms>>
    BY PaymentFacts, MandateFacts
  <1>3. StatusAfter(m, spent[m] + amount) \in {"None", "Active", "Revoked", "Exhausted"}
    BY DEF StatusAfter, PolicyInv, BooksTypeOK
  <1> QED BY <1>1, <1>2, <1>3 DEF PolicyInv, BooksTypeOK

\* A payment by an agent of its own: not one of the extension's mandates.
LEMMA DirectPaymentKeepsInv ==
  ASSUME PolicyInv, NEW caller \in Agents \ {Extension}, NEW m \in Mandates,
         NEW amount \in PaymentAmounts, NEW expectedSeq,
         ExecutePayment(caller, m, amount, expectedSeq), UNCHANGED policyVars
  PROVE  PolicyInv'
  <1>1. policy' = policy /\ consumed' = consumed
    BY DEF policyVars
  <1>2. BooksTypeOK'
    BY <1>1, PaymentKeepsTypes DEF PolicyInv, BooksTypeOK
  <1>3. ~UsesExtension(m) /\ ~Installed(m)
    BY PaymentFacts, MandateFacts DEF UsesExtension
  <1>4. BindingStaysTrue'
    BY <1>1, PaymentFacts DEF PolicyInv, BindingStaysTrue, UsesExtension, Registered, Installed
  <1>5. NoncesAreInForce'
    BY <1>1 DEF PolicyInv, NoncesAreInForce, Installed
  <1>6. NoncesMatchPayments'
    <2> SUFFICES ASSUME NEW n \in Mandates, UsesExtension(n)'
                 PROVE  Cardinality(NoncesOf(n)') = seq'[n]
      BY DEF NoncesMatchPayments
    <2>1. UsesExtension(n)
      BY PaymentFacts DEF UsesExtension, Registered
    <2>2. n # m
      BY <1>3, <2>1
    <2>3. seq'[n] = seq[n]
      BY <2>2, PaymentFacts
    <2>4. NoncesOf(n)' = NoncesOf(n)
      BY <1>1 DEF NoncesOf
    <2> QED BY <2>1, <2>3, <2>4 DEF PolicyInv, NoncesMatchPayments
  <1>7. SpendWithinCaps'
    BY <1>1, <1>3, PaymentFacts DEF PolicyInv, SpendWithinCaps, UsesExtension, Registered,
                                    Installed
  <1>8. StatusTracksTerms'
    BY PaymentFacts DEF PolicyInv, StatusTracksTerms, Registered
  <1> QED BY <1>2, <1>4, <1>5, <1>6, <1>7, <1>8 DEF PolicyInv

LEMMA OneMoreCap ==
  ASSUME NEW s \in Nat, NEW k \in Nat, NEW cap \in Nat, NEW a \in Nat,
         s <= k * cap, a <= cap
  PROVE  s + a <= (k + 1) * cap
  <1>1. (k + 1) * cap = k * cap + cap /\ k * cap \in Nat
    OBVIOUS
  <1> QED BY <1>1

LEMMA ExecuteKeepsInv ==
  ASSUME PolicyInv, NEW r \in Requests, Execute(r)
  PROVE  PolicyInv'
  <1> DEFINE m == r.mandate
             entry == <<policy[m], r.nonce>>
  <1>1. /\ m \in Mandates /\ r.amount \in PaymentAmounts /\ r.nonce \in Nonces
        /\ Installed(m) /\ r.policyHash = policy[m]
        /\ r.amount <= policy[m].cap
        /\ <<r.policyHash, r.nonce>> \notin consumed
        /\ consumed' = consumed \union {<<r.policyHash, r.nonce>>}
        /\ ExecutePayment(Extension, m, r.amount, r.expectedSeq)
        /\ policy' = policy
    BY DEF Execute, RequestAdmitted, WithinPolicy, NonceIsFresh, Requests
  <1>2. /\ policy[m] \in Policies /\ policy[m].mandate = m /\ policy[m].cap \in Nat
        /\ entry[1] = policy[m]
    BY <1>1, MandateFacts DEF PolicyInv, BooksTypeOK, BindingStaysTrue, Installed
  <1>3. entry \notin consumed /\ consumed' = consumed \union {entry}
    BY <1>1
  <1>4. entry \in Policies \X Nonces
    BY <1>1, <1>2
  <1> HIDE DEF m, entry
  <1>5. BooksTypeOK'
    BY <1>1, <1>3, <1>4, PaymentKeepsTypes DEF PolicyInv, BooksTypeOK
  <1> USE <1>1
  <1>6. BindingStaysTrue'
    BY PaymentFacts DEF PolicyInv, BindingStaysTrue, UsesExtension, Registered, Installed
  <1>7. NoncesAreInForce'
    <2>1. IsFiniteSet(consumed')
      BY <1>3, FS_AddElement DEF PolicyInv, NoncesAreInForce
    <2>2. ASSUME NEW c \in consumed' PROVE Installed(c[1].mandate) /\ c[1] = policy[c[1].mandate]
      <3>1. CASE c \in consumed
        BY <3>1 DEF PolicyInv, NoncesAreInForce
      <3>2. CASE c = entry
        BY <1>2, <3>2
      <3> QED BY <1>3, <3>1, <3>2
    <2> QED BY <2>1, <2>2 DEF NoncesAreInForce, Installed
  <1>8. NoncesMatchPayments'
    <2> SUFFICES ASSUME NEW n \in Mandates, UsesExtension(n)'
                 PROVE  Cardinality(NoncesOf(n)') = seq'[n]
      BY DEF NoncesMatchPayments
    <2>1. UsesExtension(n)
      BY PaymentFacts DEF UsesExtension, Registered
    <2>2. /\ Cardinality(NoncesOf(n)) = seq[n] /\ seq[n] \in Nat
          /\ IsFiniteSet(NoncesOf(n))
      BY <2>1, MandateFacts, FS_Subset DEF PolicyInv, NoncesMatchPayments, NoncesAreInForce
    <2>3. CASE n = m
      <3>1. NoncesOf(n)' = NoncesOf(n) \union {entry} /\ entry \notin NoncesOf(n)
        BY <1>2, <1>3, <2>3 DEF NoncesOf
      <3>2. Cardinality(NoncesOf(n)') = Cardinality(NoncesOf(n)) + 1
        BY <2>2, <3>1, FS_AddElement
      <3> QED BY <2>2, <2>3, <3>2, PaymentFacts
    <2>4. CASE n # m
      <3>1. NoncesOf(n)' = NoncesOf(n)
        BY <1>2, <1>3, <2>4 DEF NoncesOf
      <3>2. seq'[n] = seq[n]
        BY <2>4, PaymentFacts
      <3> QED BY <2>2, <3>1, <3>2
    <2> QED BY <2>3, <2>4
  <1>9. SpendWithinCaps'
    <2> SUFFICES ASSUME NEW n \in Mandates
                 PROVE  /\ Installed(n) => spent'[n] <= seq'[n] * policy[n].cap
                        /\ UsesExtension(n)' /\ ~Installed(n) => spent'[n] = 0
                        /\ Registered(n)' => spent'[n] <= terms[n].maxAmount
      BY PaymentFacts DEF SpendWithinCaps, Installed
    <2>1. CASE n = m
      <3>1. spent[n] <= seq[n] * policy[n].cap
        BY <2>1 DEF PolicyInv, SpendWithinCaps
      <3>2. /\ spent[n] \in Nat /\ seq[n] \in Nat /\ r.amount \in Nat
            /\ spent'[n] = spent[n] + r.amount /\ seq'[n] = seq[n] + 1
            /\ spent'[n] <= terms[n].maxAmount
        BY <2>1, PaymentFacts, MandateFacts
      <3>3. spent'[n] <= seq'[n] * policy[n].cap
        BY <1>2, <2>1, <3>1, <3>2, OneMoreCap
      <3> QED BY <2>1, <3>2, <3>3
    <2>2. CASE n # m
      BY <2>2, PaymentFacts DEF PolicyInv, SpendWithinCaps, UsesExtension, Registered
    <2> QED BY <2>1, <2>2
  <1>10. StatusTracksTerms'
    BY PaymentFacts DEF PolicyInv, StatusTracksTerms, Registered
  <1> QED BY <1>5, <1>6, <1>7, <1>8, <1>9, <1>10 DEF PolicyInv

LEMMA PolicyInvStep == PolicyInv /\ [Next]_vars => PolicyInv'
  <1> SUFFICES ASSUME PolicyInv, [Next]_vars PROVE PolicyInv'
    OBVIOUS
  <1>0. now \in 0..MaxTime /\ MaxTime \in Nat /\ paused \in BOOLEAN
    BY RegistryConstants DEF PolicyInv, BooksTypeOK
  <1>1. ASSUME NEW m \in Mandates, NEW t \in MandateTerms, RegisterMandate(m, t),
               UNCHANGED policyVars
        PROVE  PolicyInv'
    BY <1>1, RegisterKeepsInv
  <1>2. ASSUME NEW m \in Mandates, RevokeMandate(m), UNCHANGED policyVars PROVE PolicyInv'
    BY <1>2, RevokeKeepsInv
  <1>3. ASSUME NEW caller \in Agents \ {Extension}, NEW m \in Mandates,
               NEW amount \in PaymentAmounts, NEW n \in 0..MaxSeq,
               ExecutePayment(caller, m, amount, n), UNCHANGED policyVars
        PROVE  PolicyInv'
    BY <1>3, DirectPaymentKeepsInv
  <1>4. ASSUME Pause \/ Unpause \/ TokenStep \/ Tick, UNCHANGED policyVars PROVE PolicyInv'
    <2>1. CASE Pause \/ Unpause
      BY <1>0, <1>4, <2>1, BooksUnchanged DEF Pause, Unpause
    <2>2. CASE TokenStep
      BY <1>0, <1>4, <2>2, BooksUnchanged DEF TokenStep
    <2>3. CASE Tick
      <3>1. now' \in 0..MaxTime
        BY <1>0, <2>3 DEF Tick
      <3> QED BY <1>0, <1>4, <2>3, <3>1, BooksUnchanged DEF Tick
    <2> QED BY <1>4, <2>1, <2>2, <2>3
  <1>5. CASE RegistryStep
    BY <1>1, <1>2, <1>3, <1>4, <1>5 DEF RegistryStep
  <1>6. ASSUME NEW m \in Mandates, NEW cap \in Caps, NEW notBefore \in StartTimes,
               InstallPolicy(m, cap, notBefore)
        PROVE  PolicyInv'
    BY <1>6, InstallKeepsInv
  <1>7. ASSUME NEW r \in Requests, Execute(r) PROVE PolicyInv'
    BY <1>7, ExecuteKeepsInv
  <1>8. CASE UNCHANGED vars
    BY <1>0, <1>8, BooksUnchanged DEF vars, registryVars
  <1> QED BY <1>5, <1>6, <1>7, <1>8 DEF Next

\* The books, the policies and the record of nonces agree in every reachable
\* state of any instance.
THEOREM PolicyInvariant == Spec => []PolicyInv
  BY PolicyInit, PolicyInvStep, PTL DEF Spec

\* The live mandate never parts from the policy's binding.
THEOREM BindingIsTrue == Spec => []BindingStaysTrue
  <1>1. PolicyInv => BindingStaysTrue
    BY DEF PolicyInv
  <1> QED BY <1>1, PolicyInvariant, PTL

\* One payment for each consumed nonce, and one nonce for each payment.
THEOREM NoncesCountPayments == Spec => []NoncesMatchPayments
  <1>1. PolicyInv => NoncesMatchPayments
    BY DEF PolicyInv
  <1> QED BY <1>1, PolicyInvariant, PTL

\* What is spent stays within the cap of each payment and within the budget.
THEOREM CapsAreKept == Spec => []SpendWithinCaps
  <1>1. PolicyInv => SpendWithinCaps
    BY DEF PolicyInv
  <1> QED BY <1>1, PolicyInvariant, PTL

LEMMA PolicyStepHolds == PolicyInv /\ [Next]_vars => PolicyStep
  <1> SUFFICES ASSUME PolicyInv, [Next]_vars, NEW m \in Mandates, UsesExtension(m),
                      spent'[m] # spent[m]
               PROVE  \E r \in Requests : Execute(r) /\ r.mandate = m
    <2> SUFFICES ASSUME PolicyInv, NEW n \in Mandates, UsesExtension(n), spent'[n] # spent[n],
                        NEW r \in Requests, Execute(r), r.mandate = n
                 PROVE  /\ Installed(n) /\ now >= policy[n].notBefore
                        /\ spent'[n] - spent[n] \in 1..policy[n].cap
                        /\ \E nonce \in Nonces :
                             /\ <<policy[n], nonce>> \notin consumed
                             /\ consumed' = consumed \union {<<policy[n], nonce>>}
      BY DEF PolicyStep
    <2>1. /\ Installed(n) /\ r.policyHash = policy[n] /\ now >= policy[n].notBefore
          /\ r.amount <= policy[n].cap /\ r.amount \in PaymentAmounts /\ r.nonce \in Nonces
          /\ <<policy[n], r.nonce>> \notin consumed
          /\ consumed' = consumed \union {<<policy[n], r.nonce>>}
          /\ ExecutePayment(Extension, n, r.amount, r.expectedSeq)
      BY DEF Execute, RequestAdmitted, WithinPolicy, NonceIsFresh, Requests
    <2>2. spent'[n] = spent[n] + r.amount /\ r.amount \in Nat /\ r.amount > 0
      BY <2>1, PaymentFacts
    <2>3. spent[n] \in Nat /\ policy[n].cap \in Nat
      BY <2>1, MandateFacts
    <2>4. spent'[n] - spent[n] \in 1..policy[n].cap
      BY <2>1, <2>2, <2>3
    <2> QED BY <2>1, <2>4
  <1>1. ASSUME NEW n \in Mandates, NEW t \in MandateTerms, RegisterMandate(n, t) PROVE FALSE
    BY <1>1 DEF RegisterMandate, IsFresh, UsesExtension, PolicyInv, BooksTypeOK
  <1>2. ASSUME NEW n \in Mandates, RevokeMandate(n) PROVE FALSE
    BY <1>2 DEF RevokeMandate
  <1>3. ASSUME NEW caller \in Agents \ {Extension}, NEW n \in Mandates,
               NEW amount \in PaymentAmounts, NEW k \in 0..MaxSeq,
               ExecutePayment(caller, n, amount, k)
        PROVE  FALSE
    BY <1>3, PaymentFacts DEF UsesExtension
  <1>4. ASSUME UNCHANGED mandateVars PROVE FALSE
    BY <1>4 DEF mandateVars
  <1>5. ~RegistryStep
    BY <1>1, <1>2, <1>3, <1>4 DEF RegistryStep, Pause, Unpause, TokenStep, Tick
  <1>6. ASSUME NEW n \in Mandates, NEW cap \in Caps, NEW notBefore \in StartTimes,
               InstallPolicy(n, cap, notBefore)
        PROVE  FALSE
    BY <1>4, <1>6 DEF InstallPolicy, registryVars
  <1>7. spent' # spent
    OBVIOUS
  <1>8. PICK r \in Requests : Execute(r)
    BY <1>4, <1>5, <1>6 DEF Next, vars, registryVars
  <1>9. /\ ExecutePayment(Extension, r.mandate, r.amount, r.expectedSeq)
        /\ r.mandate \in Mandates /\ r.amount \in PaymentAmounts
    BY <1>8 DEF Execute, RequestAdmitted, Requests
  <1>10. r.mandate = m
    BY <1>9, PaymentFacts
  <1> QED BY <1>8, <1>10

\* The policy is the only door to a mandate whose agent is the extension.
THEOREM OnlyDoor == Spec => PolicyIsTheOnlyDoor
  <1>1. PolicyInv /\ [Next]_vars => [PolicyStep]_vars
    BY PolicyStepHolds
  <1> QED BY <1>1, PolicyInvariant, PTL DEF Spec, PolicyIsTheOnlyDoor

LEMMA FinalStepHolds == PolicyInv /\ [Next]_vars => FinalStep
  <1> SUFFICES ASSUME PolicyInv, [Next]_vars, NEW m \in Mandates
               PROVE  /\ Installed(m) => policy'[m] = policy[m]
                      /\ status[m] = "Revoked" => status'[m] = "Revoked"
                      /\ status[m] \in {"Revoked", "Exhausted"} => spent'[m] = spent[m]
                      /\ Registered(m) => terms'[m] = terms[m] /\ seq'[m] >= seq[m]
    BY DEF FinalStep
  <1> DEFINE Goal == /\ status[m] = "Revoked" => status'[m] = "Revoked"
                     /\ status[m] \in {"Revoked", "Exhausted"} => spent'[m] = spent[m]
                     /\ Registered(m) => terms'[m] = terms[m] /\ seq'[m] >= seq[m]
  <1>1. /\ seq[m] \in Nat
        /\ status \in [Mandates -> {"None", "Active", "Revoked", "Exhausted"}]
        /\ spent \in [Mandates -> Nat] /\ seq \in [Mandates -> 0..MaxSeq]
        /\ terms \in [Mandates -> MandateTerms \union {NoTerms}]
        /\ policy \in [Mandates -> Policies \union {NoPolicy}]
    BY DEF PolicyInv, BooksTypeOK
  <1>2. ASSUME UNCHANGED mandateVars PROVE Goal
    BY <1>1, <1>2 DEF mandateVars
  <1>3. ASSUME NEW n \in Mandates, NEW t \in MandateTerms, RegisterMandate(n, t) PROVE Goal
    <2>1. CASE n = m
      <3>1. ~Registered(m)
        BY <1>3, <2>1 DEF RegisterMandate, IsFresh
      <3>2. status[m] \notin {"Revoked", "Exhausted"}
        BY <3>1 DEF PolicyInv, StatusTracksTerms, Registered
      <3> QED BY <3>1, <3>2
    <2>2. CASE n # m
      BY <1>1, <1>3, <2>2 DEF RegisterMandate
    <2> QED BY <2>1, <2>2
  <1>4. ASSUME NEW n \in Mandates, RevokeMandate(n) PROVE Goal
    BY <1>1, <1>4 DEF RevokeMandate
  <1>5. ASSUME NEW caller, NEW n \in Mandates, NEW amount \in PaymentAmounts,
               NEW k, ExecutePayment(caller, n, amount, k)
        PROVE  Goal
    <2>1. CASE n = m
      BY <1>1, <1>5, <2>1, PaymentFacts
    <2>2. CASE n # m
      BY <1>1, <1>5, <2>2, PaymentFacts
    <2> QED BY <2>1, <2>2
  <1>6. ASSUME NEW n \in Mandates, NEW cap \in Caps, NEW notBefore \in StartTimes,
               InstallPolicy(n, cap, notBefore)
        PROVE  Goal /\ (Installed(m) => policy'[m] = policy[m])
    BY <1>1, <1>2, <1>6 DEF InstallPolicy, NotYetInstalled, registryVars
  <1>7. ASSUME NEW r \in Requests, Execute(r) PROVE Goal /\ policy' = policy
    BY <1>5, <1>7 DEF Execute, RequestAdmitted, Requests
  <1>8. ASSUME RegistryStep PROVE Goal /\ policy' = policy
    BY <1>2, <1>3, <1>4, <1>5, <1>8 DEF RegistryStep, Pause, Unpause, TokenStep, Tick, policyVars
  <1>9. ASSUME UNCHANGED vars PROVE Goal /\ policy' = policy
    BY <1>2, <1>9 DEF vars, registryVars, policyVars
  <1> HIDE DEF Goal
  <1>10. Goal /\ (Installed(m) => policy'[m] = policy[m])
    BY <1>6, <1>7, <1>8, <1>9 DEF Next
  <1> QED BY <1>10 DEF Goal

\* Policies and terms are immutable, revoked and used up are final.
THEOREM FinalityIsKept == Spec => FinalityHolds
  <1>1. PolicyInv /\ [Next]_vars => [FinalStep]_vars
    BY FinalStepHolds
  <1> QED BY <1>1, PolicyInvariant, PTL DEF Spec, FinalityHolds

--------------------------------------------------------------------------------
\* The registry with the extension as an agent implements the mandate ledger.

\* A mandate that was never registered has spent nothing.
NothingFromNowhere == \A m \in Mandates : ~Registered(m) => spent[m] = 0

LEMMA NothingFromNowhereStep ==
  PolicyInv /\ NothingFromNowhere /\ [Next]_vars => NothingFromNowhere'
  <1> SUFFICES ASSUME PolicyInv, NothingFromNowhere, [Next]_vars, NEW n \in Mandates,
                      ~Registered(n)'
               PROVE  spent'[n] = 0
    BY DEF NothingFromNowhere
  <1>1. ASSUME terms' = terms, spent' = spent PROVE spent'[n] = 0
    BY <1>1 DEF NothingFromNowhere, Registered
  <1>2. ASSUME NEW m \in Mandates, NEW t \in MandateTerms, RegisterMandate(m, t)
        PROVE  spent'[n] = 0
    <2>1. /\ terms' = [terms EXCEPT ![m] = t] /\ spent' = [spent EXCEPT ![m] = 0]
          /\ terms \in [Mandates -> MandateTerms \union {NoTerms}]
          /\ spent \in [Mandates -> Nat]
      BY <1>2 DEF RegisterMandate, PolicyInv, BooksTypeOK
    <2>2. n # m => ~Registered(n)
      BY <2>1 DEF Registered
    <2> QED BY <2>1, <2>2 DEF NothingFromNowhere
  <1>3. ASSUME NEW caller, NEW m \in Mandates, NEW amount \in PaymentAmounts,
               NEW k, ExecutePayment(caller, m, amount, k)
        PROVE  spent'[n] = 0
    <2>1. /\ Registered(m) /\ terms' = terms
          /\ \A j \in Mandates \ {m} : spent'[j] = spent[j]
      BY <1>3, PaymentFacts
    <2> QED BY <2>1 DEF NothingFromNowhere, Registered
  <1>4. ASSUME NEW r \in Requests, Execute(r) PROVE spent'[n] = 0
    BY <1>3, <1>4 DEF Execute, Requests
  <1>5. ASSUME RegistryStep PROVE spent'[n] = 0
    BY <1>1, <1>2, <1>3, <1>5 DEF RegistryStep, RevokeMandate, Pause, Unpause, TokenStep,
       Tick, mandateVars
  <1> QED BY <1>1, <1>4, <1>5 DEF Next, InstallPolicy, vars, registryVars, mandateVars

\* What the token moves is what the ledger says a charge moves.
LEMMA TransferIsLedgerMove ==
  ASSUME NEW m \in Mandates, Registered(m), NEW amount, NEW d, d[m] = amount,
         NEW a, NEW u, NEW w
  PROVE  Flow(Transfer(m, amount), a, u, w) = Ledger!Moved({m}, d, a, u, w)
  <1> DEFINE batch == Transfer(m, amount)
             legs == {k \in DOMAIN batch : /\ batch[k].asset = a
                                           /\ batch[k].from = u
                                           /\ batch[k].to = w}
             G == [n \in Mandates |-> IF Registered(n) THEN terms[n] ELSE NoGrant]
             hit == {n \in {m} : G[n].asset = a /\ G[n].user = u /\ G[n].merchant = w}
  <1>1. Flow(batch, a, u, w) = SumOfAmounts(batch, legs)
    BY DEF Flow, SumOfAmounts
  <1>2. Ledger!Moved({m}, d, a, u, w) = Sum(d, hit)
    BY Zenon DEF Ledger!Moved, Ledger!MapThenSumSet, Ledger!MapThenFoldSet, Sum,
                 MapThenSumSet, MapThenFoldSet
  <1>3. legs = hit /\ \A k \in legs : batch[k].amount = d[k]
    BY DEF Transfer
  <1> HIDE DEF batch, legs, hit
  <1>4. SumOfAmounts(batch, legs) = Sum(d, legs)
    BY <1>3, AmountsAgree
  <1> QED BY <1>1, <1>2, <1>3, <1>4 DEF batch

LEMMA LedgerCharge ==
  ASSUME PolicyInv, NEW caller, NEW m \in Mandates, NEW amount \in PaymentAmounts,
         NEW expectedSeq, ExecutePayment(caller, m, amount, expectedSeq)
  PROVE  Ledger!Next
  <1> DEFINE d == [n \in Mandates |-> spent'[n] - spent[n]]
  <1>1. /\ Registered(m) /\ status[m] = "Active" /\ amount > 0 /\ amount \in Int
        /\ spent[m] + amount <= terms[m].maxAmount
        /\ spent' = [spent EXCEPT ![m] = spent[m] + amount]
        /\ spent'[m] = spent[m] + amount /\ spent[m] \in Int
        /\ status'[m] \in {"Active", "Exhausted"}
        /\ \A n \in Mandates \ {m} : status'[n] = status[n]
        /\ now' = now /\ terms' = terms
    BY PaymentFacts, MandateFacts
  <1>2. now < terms[m].expiry
    BY DEF ExecutePayment, PaymentAccepted, Check
  <1>3. d[m] = amount
    BY <1>1
  <1>4. terms[m] # NoGrant
    BY <1>1, MandateFacts, GrantConstants
  <1> HIDE DEF d
  <1>5. Ledger!Charge({m}, d)
    <2>1. Ledger!Chargeable(m)
      BY <1>1, <1>2, <1>4 DEF Ledger!Chargeable, Ledger!Granted
    <2>2. spent' = [n \in Mandates |-> IF n \in {m} THEN spent[n] + d[n] ELSE spent[n]]
      BY <1>1, <1>3 DEF PolicyInv, BooksTypeOK
    <2>3. drawn' = [a \in Assets |-> [u \in Users |-> [w \in Payees |->
                      drawn[a][u][w] + Ledger!Moved({m}, d, a, u, w)]]]
      <3>1. drawn' = [a \in Assets |-> [u \in Users |-> [w \in Payees |->
                        drawn[a][u][w] + Flow(Transfer(m, amount), a, u, w)]]]
        BY DEF ExecutePayment, Settle
      <3>2. \A a \in Assets, u \in Users, w \in Payees :
              drawn[a][u][w] + Ledger!Moved({m}, d, a, u, w) =
                drawn[a][u][w] + Flow(Transfer(m, amount), a, u, w)
        BY <1>1, <1>3, TransferIsLedgerMove
      <3> QED BY <3>1, <3>2, Zenon
    <2>4. \A n \in Mandates : (status[n] # "Revoked") = (status'[n] # "Revoked")
      BY <1>1
    <2>5. /\ [n \in Mandates |-> IF Registered(n)' THEN terms'[n] ELSE NoGrant] =
               [n \in Mandates |-> IF Registered(n) THEN terms[n] ELSE NoGrant]
          /\ [n \in Mandates |-> status'[n] # "Revoked"] =
               [n \in Mandates |-> status[n] # "Revoked"]
      BY <1>1, <2>4 DEF Registered
    <2>6. d[m] > 0 /\ spent[m] + d[m] <= terms[m].maxAmount
      BY <1>1, <1>3
    <2> QED BY <1>1, <2>1, <2>2, <2>3, <2>5, <2>6, Zenon DEF Ledger!Charge
  <1>6. {m} \in SUBSET Mandates
    OBVIOUS
  <1> QED BY <1>5, <1>6 DEF Ledger!Next, d

LEMMA LedgerGrant ==
  ASSUME PolicyInv, NothingFromNowhere, NEW m \in Mandates, NEW t \in MandateTerms,
         RegisterMandate(m, t)
  PROVE  Ledger!Next
  <1>1. /\ t.maxAmount > 0 /\ now < t.expiry /\ ~Registered(m) /\ t # NoTerms
        /\ terms' = [terms EXCEPT ![m] = t]
        /\ status' = [status EXCEPT ![m] = "Active"]
        /\ spent' = [spent EXCEPT ![m] = 0] /\ spent[m] = 0
        /\ spent \in [Mandates -> Nat]
        /\ terms \in [Mandates -> MandateTerms \union {NoTerms}]
        /\ status \in [Mandates -> {"None", "Active", "Revoked", "Exhausted"}]
        /\ status[m] = "None" /\ now' = now /\ drawn' = drawn
    BY SignedTerms DEF RegisterMandate, IsFresh, NothingFromNowhere, PolicyInv, BooksTypeOK,
       StatusTracksTerms, tokenVars
  <1>2. spent' = spent
    BY <1>1
  <1>3. [n \in Mandates |-> IF Registered(n)' THEN terms'[n] ELSE NoGrant] =
          [[n \in Mandates |-> IF Registered(n) THEN terms[n] ELSE NoGrant] EXCEPT ![m] = t]
    BY <1>1 DEF Registered
  <1>4. [n \in Mandates |-> status'[n] # "Revoked"] =
          [n \in Mandates |-> status[n] # "Revoked"]
    BY <1>1
  <1>5. Ledger!GrantMandate(m, t)
    BY <1>1, <1>2, <1>3, <1>4, Zenon DEF Ledger!GrantMandate, Ledger!Granted
  <1> QED BY <1>5 DEF Ledger!Next

LEMMA LedgerWithdraw ==
  ASSUME PolicyInv, NEW m \in Mandates, RevokeMandate(m)
  PROVE  Ledger!Next
  <1>1. /\ Registered(m) /\ UNCHANGED <<now, terms, spent, drawn>>
        /\ status' = [status EXCEPT ![m] = "Revoked"]
        /\ status \in [Mandates -> {"None", "Active", "Revoked", "Exhausted"}]
    BY DEF RevokeMandate, tokenVars, PolicyInv, BooksTypeOK
  <1>2. terms[m] # NoGrant
    BY <1>1, MandateFacts, GrantConstants
  <1>3. [n \in Mandates |-> IF Registered(n)' THEN terms'[n] ELSE NoGrant] =
          [n \in Mandates |-> IF Registered(n) THEN terms[n] ELSE NoGrant]
    BY <1>1 DEF Registered
  <1>4. [n \in Mandates |-> status'[n] # "Revoked"] =
          [[n \in Mandates |-> status[n] # "Revoked"] EXCEPT ![m] = FALSE]
    BY <1>1
  <1>5. Ledger!Withdraw(m)
    BY <1>1, <1>2, <1>3, <1>4, Zenon DEF Ledger!Withdraw, Ledger!Granted
  <1> QED BY <1>5 DEF Ledger!Next

LEMMA LedgerInit == Init => Ledger!Init /\ NothingFromNowhere
  BY DEF Init, RegistryInit, TokenInit, Ledger!Init, Registered, NothingFromNowhere

LEMMA LedgerStep ==
  PolicyInv /\ NothingFromNowhere /\ [Next]_vars => [Ledger!Next]_(Ledger!ledgerVars)
  <1> SUFFICES ASSUME PolicyInv, NothingFromNowhere, [Next]_vars
               PROVE  [Ledger!Next]_(Ledger!ledgerVars)
    OBVIOUS
  <1> DEFINE Still == UNCHANGED <<now, terms, status, spent, drawn>>
  <1>1. ASSUME Still PROVE UNCHANGED Ledger!ledgerVars
    BY <1>1 DEF Ledger!ledgerVars, Registered
  <1>2. ASSUME NEW m \in Mandates, NEW t \in MandateTerms, RegisterMandate(m, t)
        PROVE  Ledger!Next
    BY <1>2, LedgerGrant
  <1>3. ASSUME NEW m \in Mandates, RevokeMandate(m) PROVE Ledger!Next
    BY <1>3, LedgerWithdraw
  <1>4. ASSUME NEW caller, NEW m \in Mandates, NEW amount \in PaymentAmounts, NEW k,
               ExecutePayment(caller, m, amount, k)
        PROVE  Ledger!Next
    BY <1>4, LedgerCharge
  <1>5. ASSUME Pause \/ Unpause \/ TokenStep PROVE Still
    BY <1>5 DEF Pause, Unpause, TokenStep, Environment, Approve, MoveFunds, SetAuthorized,
       tokenVars, mandateVars
  <1>6. ASSUME Tick PROVE Ledger!Next
    BY <1>6 DEF Tick, Ledger!Next, Ledger!Pass, tokenVars, mandateVars, Registered
  <1>7. ASSUME UNCHANGED registryVars PROVE Still
    BY <1>7 DEF registryVars, tokenVars, mandateVars
  <1>8. ASSUME NEW r \in Requests, Execute(r) PROVE Ledger!Next
    BY <1>4, <1>8 DEF Execute, Requests
  <1> HIDE DEF Still
  <1>9. ASSUME RegistryStep PROVE [Ledger!Next]_(Ledger!ledgerVars)
    BY <1>1, <1>2, <1>3, <1>4, <1>5, <1>6, <1>9 DEF RegistryStep
  <1> QED BY <1>1, <1>7, <1>8, <1>9 DEF Next, InstallPolicy, vars

\* The policy only narrows the ledger of grants, charges and withdrawals.
THEOREM ImplementsLedger == Spec => ImplementsMandateLedger
  BY PolicyInvariant, LedgerInit, LedgerStep, NothingFromNowhereStep, PTL
     DEF Spec, ImplementsMandateLedger, Ledger!Spec

--------------------------------------------------------------------------------
\* The calls within a transaction.  A step takes a lock, or pushes a frame that
\* has none yet, or cuts the stack back to a frame whose locks are known: one
\* lemma for each.

\* A frame has its five fields.
FrameShape(f) ==
  f = [contract |-> f.contract, call |-> f.call, step |-> f.step, made |-> f.made,
       saved |-> f.saved]

IsStack ==
  /\ frames \in Seq({frames[i] : i \in DOMAIN frames})
  /\ \A i \in DOMAIN frames : FrameShape(frames[i])

Locks(stack, n) ==
  {stack[i].call.mandate : i \in {k \in 1..n : InFlight(stack[k])}}

\* The locks in the store are the requests in flight, and what a frame would
\* take back to are the locks of the frames below it.
LocksMatchFrames ==
  /\ executing = Locks(frames, Len(frames))
  /\ \A j \in DOMAIN frames : frames[j].saved.executing = Locks(frames, j - 1)

FramesInv == IsStack /\ LocksMatchFrames /\ OneInFlight

\* A sequence is one of its own elements.
LEMMA OfItsElements ==
  ASSUME NEW S, NEW s \in Seq(S)
  PROVE  s \in Seq({s[i] : i \in DOMAIN s})
  <1> DEFINE R == {s[i] : i \in DOMAIN s}
  <1>1. Len(s) \in Nat /\ DOMAIN s = 1..Len(s) /\ s = [i \in 1..Len(s) |-> s[i]]
    OBVIOUS
  <1>2. \A i \in 1..Len(s) : s[i] \in R
    BY <1>1
  <1> HIDE DEF R
  <1>3. s \in [1..Len(s) -> R]
    BY <1>1, <1>2
  <1>4. s \in Seq(R)
    BY <1>1, <1>3, SeqDef
  <1> QED BY <1>4 DEF R

LEMMA Replaced ==
  ASSUME NEW S, NEW s \in Seq(S), NEW n \in 1..Len(s), NEW e, NEW t,
         t = [s EXCEPT ![n] = e]
  PROVE  /\ t \in Seq(S \union {e}) /\ Len(t) = Len(s) /\ DOMAIN t = 1..Len(s)
         /\ t[n] = e /\ \A i \in 1..n - 1 : t[i] = s[i]
  <1>1. Len(s) \in Nat /\ s \in [1..Len(s) -> S]
    OBVIOUS
  <1>2. t \in [1..Len(s) -> S \union {e}]
    BY <1>1
  <1>3. t \in Seq(S \union {e}) /\ Len(t) = Len(s)
    BY <1>1, <1>2, SeqDef, LenProperties
  <1>4. \A i \in 1..n - 1 : i \in 1..Len(s) /\ i # n
    BY <1>1
  <1> QED BY <1>1, <1>2, <1>3, <1>4

LEMMA LastOrBefore ==
  ASSUME NEW n \in Nat
  PROVE  \A i \in 1..n : i = n \/ i \in 1..n - 1
  OBVIOUS

\* The frames below n are, to their callers, what they were.
FramesKept(n) ==
  \A i \in 1..n :
    /\ FrameShape(frames'[i])
    /\ frames'[i].contract = frames[i].contract
    /\ frames'[i].call = frames[i].call
    /\ frames'[i].saved = frames[i].saved
    /\ InFlight(frames'[i]) = InFlight(frames[i])

LEMMA KeptLocks ==
  ASSUME NEW n \in Nat, FramesKept(n), NEW k \in 0..n
  PROVE  Locks(frames', k) = Locks(frames, k)
  <1>1. \A i \in 1..k : i \in 1..n
    OBVIOUS
  <1>2. \A i \in 1..k : /\ frames'[i].call.mandate = frames[i].call.mandate
                        /\ InFlight(frames'[i]) = InFlight(frames[i])
    BY <1>1 DEF FramesKept
  <1>3. {i \in 1..k : InFlight(frames'[i])} = {i \in 1..k : InFlight(frames[i])}
    BY <1>2
  <1> QED BY <1>2, <1>3 DEF Locks

LEMMA JustOne ==
  ASSUME NEW n \in Nat
  PROVE  n + 1 \in n..n + 1 /\ \A j \in n + 1..n + 1 : j = n + 1
  OBVIOUS

LEMMA StackAgain ==
  ASSUME NEW S, frames' \in Seq(S), \A i \in 1..Len(frames') : FrameShape(frames'[i])
  PROVE  IsStack'
  <1>1. frames' \in Seq({frames'[i] : i \in DOMAIN frames'})
    BY OfItsElements
  <1>2. DOMAIN frames' = 1..Len(frames')
    OBVIOUS
  <1> QED BY <1>1, <1>2 DEF IsStack, FrameShape

\* Cutting the stack at k and taking the locks below it.
LEMMA CutKeepsInv ==
  ASSUME FramesInv, NEW k \in 0..Len(frames),
         frames' = SubSeq(frames, 1, k), executing' = Locks(frames, k)
  PROVE  FramesInv'
  <1> DEFINE S == {frames[i] : i \in DOMAIN frames}
  <1>1. /\ frames \in Seq(S) /\ Len(frames) \in Nat /\ DOMAIN frames = 1..Len(frames)
    BY DEF FramesInv, IsStack
  <1> HIDE DEF S
  <1>2. /\ frames' \in Seq(S) /\ Len(frames') = k /\ DOMAIN frames' = 1..k
        /\ \A i \in 1..k : frames'[i] = frames[i]
    <2>1. CASE k = 0
      BY <1>1, <2>1
    <2>2. CASE k > 0
      <3>1. /\ 1 \in 1..(Len(frames) + 1) /\ k \in 0..Len(frames)
        BY <1>1, <2>2
      <3>2. /\ SubSeq(frames, 1, k) \in Seq(S)
            /\ Len(SubSeq(frames, 1, k)) = k
            /\ \A i \in 1..k : SubSeq(frames, 1, k)[i] = frames[i]
        BY <1>1, <2>2
      <3> QED BY <3>2
    <2> QED BY <2>1, <2>2
  <1>3. FramesKept(k)
    BY <1>1, <1>2 DEF FramesKept, FramesInv, IsStack
  <1>4. IsStack'
    <2>1. frames' \in Seq(S) /\ \A i \in 1..Len(frames') : FrameShape(frames'[i])
      BY <1>2, <1>3 DEF FramesKept
    <2> QED BY <2>1, StackAgain
  <1>5. \A j \in 0..k : Locks(frames', j) = Locks(frames, j)
    BY <1>3, KeptLocks
  <1>6. LocksMatchFrames'
    <2>1. executing' = Locks(frames', Len(frames'))
      BY <1>2, <1>5
    <2>2. ASSUME NEW j \in 1..k
          PROVE  frames'[j].saved.executing = Locks(frames', j - 1)
      BY <1>1, <1>2, <1>5, <2>2 DEF FramesInv, LocksMatchFrames
    <2> QED BY <1>2, <2>1, <2>2 DEF LocksMatchFrames
  <1>7. OneInFlight'
    BY <1>1, <1>2 DEF FramesInv, OneInFlight
  <1> QED BY <1>4, <1>6, <1>7 DEF FramesInv

LEMMA StackFacts ==
  ASSUME FramesInv
  PROVE  /\ Len(frames) \in Nat /\ DOMAIN frames = 1..Len(frames)
         /\ frames \in Seq({frames[i] : i \in DOMAIN frames})
         /\ \A i \in 1..Len(frames) : FrameShape(frames[i])
  BY DEF FramesInv, IsStack

\* Frames that stay, with at most one pushed on them that holds no lock yet.
LEMMA PushKeepsInv ==
  ASSUME FramesInv, NEW S, frames' \in Seq(S), FramesKept(Len(frames)),
         executing' = executing,
         Len(frames') \in Len(frames)..Len(frames) + 1,
         \A j \in Len(frames) + 1..Len(frames') :
           /\ FrameShape(frames'[j])
           /\ frames'[j].step = "entered"
           /\ frames'[j].saved.executing = executing
  PROVE  FramesInv'
  <1> DEFINE n == Len(frames)
             k == Len(frames')
  <1>1. n \in Nat /\ k \in Nat /\ k \in {n, n + 1} /\ DOMAIN frames = 1..n
    BY StackFacts
  <1>2. DOMAIN frames' = 1..k
    OBVIOUS
  <1>3. \A j \in 0..n : Locks(frames', j) = Locks(frames, j)
    BY <1>1, KeptLocks
  <1>4. \A j \in 1..k : j \in 1..n \/ (j = n + 1 /\ j \in n + 1..k)
    BY <1>1
  <1>5. \A j \in n + 1..k : ~InFlight(frames'[j])
    BY DEF InFlight
  <1>6. IsStack'
    <2>1. ASSUME NEW j \in 1..k PROVE FrameShape(frames'[j])
      BY <1>4 DEF FramesKept
    <2> QED BY <2>1, StackAgain
  <1>7. Locks(frames', k) = Locks(frames, n)
    <2>1. {i \in 1..k : InFlight(frames'[i])} = {i \in 1..n : InFlight(frames'[i])}
      BY <1>1, <1>4, <1>5
    <2>2. Locks(frames', k) = Locks(frames', n)
      BY <2>1 DEF Locks
    <2> QED BY <1>1, <1>3, <2>2
  <1>8. LocksMatchFrames'
    <2>1. executing' = Locks(frames', Len(frames'))
      BY <1>7 DEF FramesInv, LocksMatchFrames
    <2>2. ASSUME NEW j \in 1..k
          PROVE  frames'[j].saved.executing = Locks(frames', j - 1)
      <3>1. CASE j \in 1..n
        <4>1. frames'[j].saved.executing = Locks(frames, j - 1)
          BY <1>1, <3>1 DEF FramesKept, FramesInv, LocksMatchFrames
        <4> QED BY <1>1, <1>3, <3>1, <4>1
      <3>2. CASE j = n + 1 /\ j \in n + 1..k
        <4>1. frames'[j].saved.executing = Locks(frames, n) /\ j - 1 = n
          BY <1>1, <3>2 DEF FramesInv, LocksMatchFrames
        <4> QED BY <1>1, <1>3, <4>1
      <3> QED BY <1>4, <3>1, <3>2
    <2> QED BY <1>2, <2>1, <2>2 DEF LocksMatchFrames
  <1>9. OneInFlight'
    <2> SUFFICES ASSUME NEW i \in 1..k, NEW j \in 1..k,
                        InFlight(frames'[i]), InFlight(frames'[j]),
                        frames'[i].call.mandate = frames'[j].call.mandate
                 PROVE  i = j
      BY <1>2 DEF OneInFlight
    <2>1. i \in 1..n /\ j \in 1..n
      BY <1>4, <1>5
    <2>2. /\ InFlight(frames[i]) /\ InFlight(frames[j])
          /\ frames[i].call.mandate = frames[j].call.mandate
      BY <2>1 DEF FramesKept
    <2> QED BY <1>1, <2>1, <2>2 DEF FramesInv, OneInFlight
  <1> QED BY <1>6, <1>8, <1>9 DEF FramesInv

\* The extension locks the mandate of the top frame's request.
LEMMA LockKeepsInv ==
  ASSUME FramesInv, ~AtRest, Top.contract = "extension", Top.step = "entered",
         Top.call.mandate \notin executing,
         NEW step, step # "entered", frames' = At(step),
         executing' = executing \union {Top.call.mandate}
  PROVE  FramesInv'
  <1> DEFINE n == Len(frames)
             S == {frames[i] : i \in DOMAIN frames}
             g == [frames[n] EXCEPT !.step = step]
  <1>1. n \in Nat /\ n >= 1 /\ DOMAIN frames = 1..n /\ frames \in Seq(S) /\ Top = frames[n]
    BY StackFacts DEF AtRest, Last, Top
  <1>2. /\ FrameShape(g) /\ g.contract = "extension" /\ g.call = Top.call
        /\ g.step = step /\ g.saved = frames[n].saved
    BY <1>1, StackFacts DEF FrameShape, Top
  <1> HIDE DEF S
  <1>3. frames' = [frames EXCEPT ![n] = g]
    BY DEF At
  <1> HIDE DEF g
  <1>4. /\ frames' \in Seq(S \union {g}) /\ Len(frames') = n /\ DOMAIN frames' = 1..n
        /\ frames'[n] = g /\ \A i \in 1..n - 1 : frames'[i] = frames[i]
    <2>1. n \in 1..Len(frames) /\ frames \in Seq(S) /\ frames' = [frames EXCEPT ![n] = g]
      BY <1>1, <1>3
    <2>2. /\ frames' \in Seq(S \union {g}) /\ Len(frames') = Len(frames)
          /\ DOMAIN frames' = 1..Len(frames) /\ frames'[n] = g
          /\ \A i \in 1..n - 1 : frames'[i] = frames[i]
      BY <2>1, Replaced
    <2> QED BY <2>2
  <1>5. InFlight(g) /\ ~InFlight(frames[n])
    BY <1>1, <1>2 DEF InFlight
  <1>6. FramesKept(n - 1)
    BY <1>1, <1>4, StackFacts DEF FramesKept
  <1>7. \A j \in 0..n - 1 : Locks(frames', j) = Locks(frames, j)
    BY <1>1, <1>6, KeptLocks
  <1>8. IsStack'
    <2>1. ASSUME NEW j \in 1..n PROVE FrameShape(frames'[j])
      BY <1>1, <1>2, <1>4, StackFacts
    <2> QED BY <1>4, <2>1, StackAgain
  <1>9. LocksMatchFrames'
    <2>1. executing = Locks(frames, n - 1)
      <3>1. {k \in 1..n : InFlight(frames[k])} = {k \in 1..n - 1 : InFlight(frames[k])}
        BY <1>1, <1>5
      <3> QED BY <3>1 DEF FramesInv, LocksMatchFrames, Locks
    <2>2. Locks(frames', n) = Locks(frames', n - 1) \union {g.call.mandate}
      <3>1. {k \in 1..n : InFlight(frames'[k])}
              = {k \in 1..n - 1 : InFlight(frames'[k])} \union {n}
        BY <1>1, <1>4, <1>5
      <3> QED BY <1>4, <3>1 DEF Locks
    <2>3. executing' = Locks(frames', Len(frames'))
      BY <1>1, <1>2, <1>4, <1>7, <2>1, <2>2
    <2>4. ASSUME NEW j \in 1..n
          PROVE  frames'[j].saved.executing = Locks(frames', j - 1)
      <3>1. frames'[j].saved = frames[j].saved
        BY <1>1, <1>2, <1>4
      <3>2. frames[j].saved.executing = Locks(frames, j - 1)
        BY <1>1 DEF FramesInv, LocksMatchFrames
      <3> QED BY <1>1, <1>7, <3>1, <3>2
    <2> QED BY <1>4, <2>3, <2>4 DEF LocksMatchFrames
  <1>10. OneInFlight'
    <2>1. ASSUME NEW i \in 1..n - 1, InFlight(frames'[i])
          PROVE  frames'[i].call.mandate # g.call.mandate
      <3>1. InFlight(frames[i]) /\ i \in 1..n /\ frames'[i] = frames[i]
        BY <1>1, <1>4, <2>1
      <3>2. frames[i].call.mandate \in executing
        BY <3>1 DEF FramesInv, LocksMatchFrames, Locks
      <3> QED BY <1>2, <3>1, <3>2
    <2>2. ASSUME NEW i \in 1..n - 1, NEW j \in 1..n - 1,
                 InFlight(frames'[i]), InFlight(frames'[j]),
                 frames'[i].call.mandate = frames'[j].call.mandate
          PROVE  i = j
      BY <1>1, <1>4, <2>2 DEF FramesInv, OneInFlight
    <2> SUFFICES ASSUME NEW i \in 1..n, NEW j \in 1..n,
                        InFlight(frames'[i]), InFlight(frames'[j]),
                        frames'[i].call.mandate = frames'[j].call.mandate
                 PROVE  i = j
      BY <1>4 DEF OneInFlight
    <2>3. /\ i = n \/ i \in 1..n - 1
          /\ j = n \/ j \in 1..n - 1
      BY <1>1, LastOrBefore
    <2> QED BY <1>4, <2>1, <2>2, <2>3
  <1> QED BY <1>8, <1>9, <1>10 DEF FramesInv

\* The top frame fails: what is left is locked as it was when the last frame
\* taken back was entered.
LEMMA UnwindKeepsInv ==
  ASSUME FramesInv, ~AtRest, Unwind
  PROVE  FramesInv'
  <1>1. PICK kept \in 0..Len(frames) - 1 :
          /\ frames' = SubSeq(frames, 1, kept)
          /\ executing' = frames[kept + 1].saved.executing
    BY DEF Unwind, Rollback
  <1>2. /\ kept \in 0..Len(frames) /\ kept + 1 \in DOMAIN frames /\ kept + 1 - 1 = kept
    BY StackFacts
  <1>3. executing' = Locks(frames, kept)
    BY <1>1, <1>2 DEF FramesInv, LocksMatchFrames
  <1> QED BY <1>1, <1>2, <1>3, CutKeepsInv

LEMMA TopFacts ==
  ASSUME FramesInv, ~AtRest
  PROVE  /\ Len(frames) \in Nat /\ Len(frames) >= 1
         /\ Top = frames[Len(frames)] /\ FrameShape(Top)
  BY StackFacts DEF AtRest, Top, Last

\* The top frame returns; if it held a lock, it has let it go.
LEMMA PopKeepsInv ==
  ASSUME FramesInv, ~AtRest, frames' = Front(frames),
         executing' = IF InFlight(Top) THEN executing \ {Top.call.mandate} ELSE executing
  PROVE  FramesInv'
  <1> DEFINE n == Len(frames)
  <1>1. /\ n \in Nat /\ n >= 1 /\ DOMAIN frames = 1..n /\ Top = frames[n]
        /\ n - 1 \in 0..n
    BY TopFacts, StackFacts
  <1>2. frames' = SubSeq(frames, 1, n - 1)
    BY DEF Front
  <1>3. executing = Locks(frames, n)
    BY DEF FramesInv, LocksMatchFrames
  <1>4. executing' = Locks(frames, n - 1)
    <2>1. CASE InFlight(Top)
      <3>1. {k \in 1..n : InFlight(frames[k])}
              = {k \in 1..n - 1 : InFlight(frames[k])} \union {n}
        BY <1>1, <2>1
      <3>2. Locks(frames, n) = Locks(frames, n - 1) \union {Top.call.mandate}
        BY <1>1, <3>1 DEF Locks
      <3>3. Top.call.mandate \notin Locks(frames, n - 1)
        BY <1>1, <2>1 DEF Locks, FramesInv, OneInFlight
      <3> QED BY <1>3, <2>1, <3>2, <3>3
    <2>2. CASE ~InFlight(Top)
      <3>1. {k \in 1..n : InFlight(frames[k])} = {k \in 1..n - 1 : InFlight(frames[k])}
        BY <1>1, <2>2
      <3> QED BY <1>3, <2>2, <3>1 DEF Locks
    <2> QED BY <2>1, <2>2
  <1> QED BY <1>1, <1>2, <1>4, CutKeepsInv

\* The top frame moves on without taking or leaving a lock, and may call.
LEMMA MoveOnKeepsInv ==
  ASSUME FramesInv, ~AtRest, executing' = executing,
         NEW g, FrameShape(g), g.contract = Top.contract, g.call = Top.call,
         g.saved = Top.saved, InFlight(g) = InFlight(Top),
         NEW f, FrameShape(f), f.step = "entered", f.saved.executing = executing,
         \/ frames' = [frames EXCEPT ![Len(frames)] = g]
         \/ frames' = Append([frames EXCEPT ![Len(frames)] = g], f)
  PROVE  FramesInv'
  <1> DEFINE n == Len(frames)
             S == {frames[i] : i \in DOMAIN frames} \union {g, f}
             fs == [frames EXCEPT ![n] = g]
  <1>1. /\ n \in Nat /\ n >= 1 /\ DOMAIN frames = 1..n /\ Top = frames[n]
        /\ frames \in Seq(S)
    BY TopFacts, StackFacts
  <1>2. f \in S /\ g \in S
    OBVIOUS
  <1> HIDE DEF S
  <1>3. /\ fs \in Seq(S) /\ Len(fs) = n
        /\ fs[n] = g /\ \A i \in 1..n - 1 : fs[i] = frames[i]
    <2>1. n \in 1..Len(frames) /\ S \union {g} = S /\ frames \in Seq(S)
      BY <1>1, <1>2
    <2>2. fs = [frames EXCEPT ![n] = g]
      OBVIOUS
    <2> HIDE DEF fs
    <2>3. /\ fs \in Seq(S \union {g}) /\ Len(fs) = Len(frames) /\ fs[n] = g
          /\ \A i \in 1..n - 1 : fs[i] = frames[i]
      BY <2>1, <2>2, Replaced
    <2> QED BY <2>1, <2>3
  <1> HIDE DEF fs
  <1>4. \A i \in 1..n : i = n \/ (i \in 1..n - 1 /\ fs[i] = frames[i])
    BY <1>1, <1>3, LastOrBefore
  <1>5. \A i \in 1..n : /\ FrameShape(fs[i]) /\ fs[i].contract = frames[i].contract
                        /\ fs[i].call = frames[i].call /\ fs[i].saved = frames[i].saved
                        /\ InFlight(fs[i]) = InFlight(frames[i])
    BY <1>1, <1>3, <1>4, StackFacts
  <1>6. CASE frames' = fs
    <2>1. frames' \in Seq(S) /\ Len(frames') = n /\ FramesKept(n)
      BY <1>3, <1>5, <1>6 DEF FramesKept
    <2>2. /\ Len(frames') \in n..n + 1 /\ \A j \in n + 1..Len(frames') : FALSE
      BY <1>1, <2>1
    <2> QED BY <2>1, <2>2, PushKeepsInv
  <1>7. CASE frames' = Append(fs, f)
    <2>1. /\ frames' \in Seq(S) /\ Len(frames') = n + 1 /\ frames'[n + 1] = f
          /\ \A i \in 1..n : frames'[i] = fs[i]
      <3>1. fs \in Seq(S) /\ f \in S
        BY <1>2, <1>3
      <3>2. /\ Append(fs, f) \in Seq(S) /\ Len(Append(fs, f)) = Len(fs) + 1
            /\ \A i \in 1..Len(fs) : Append(fs, f)[i] = fs[i]
            /\ Append(fs, f)[Len(fs) + 1] = f
        BY <3>1, AppendProperties
      <3> QED BY <1>3, <1>7, <3>2
    <2>2. FramesKept(n)
      BY <1>5, <2>1 DEF FramesKept
    <2>3. /\ n + 1 \in n..n + 1 /\ \A j \in n + 1..n + 1 : j = n + 1
      BY <1>1, JustOne
    <2> QED BY <2>1, <2>2, <2>3, PushKeepsInv
  <1> QED BY <1>6, <1>7 DEF fs

LEMMA HandleKeepsInv ==
  ASSUME FramesInv, ~AtRest, Handle
  PROVE  FramesInv'
  <1> DEFINE n == Len(frames)
             next == IF Top.contract = "registry" /\ Top.call.op = "revoke"
                     THEN "waiting" ELSE "calling"
             g == [Top EXCEPT !.step = next]
             f == Frame("none", Top.call)
  <1>0. next # "entered"
    OBVIOUS
  <1> HIDE DEF next
  <1>1. CASE ~Accepts(Top)
    BY <1>1, UnwindKeepsInv DEF Handle
  <1>2. CASE Accepts(Top) /\ Top.contract = "registry"
    <2>1. frames' = At(next) /\ executing' = executing
      BY <1>2 DEF Handle, Writes, next
    <2>2. /\ FrameShape(g) /\ g.contract = Top.contract /\ g.call = Top.call
          /\ g.saved = Top.saved /\ InFlight(g) = InFlight(Top)
      BY <1>2, TopFacts DEF FrameShape, InFlight
    <2>3. frames' = [frames EXCEPT ![Len(frames)] = g]
      BY <2>1, TopFacts DEF At
    <2>4. FrameShape(f) /\ f.step = "entered" /\ f.saved.executing = executing
      BY DEF Frame, FrameShape, Store
    <2> HIDE DEF g, f
    <2> QED BY <2>1, <2>2, <2>3, <2>4, MoveOnKeepsInv
  <1>3. CASE Accepts(Top) /\ Top.contract = "extension"
    <2>1. /\ Top.step = "entered" /\ Top.call.mandate \notin executing
          /\ frames' = At(next) /\ executing' = executing \union {Top.call.mandate}
      BY <1>3 DEF Handle, Accepts, Writes, ExtensionWrites, next
    <2> QED BY <1>0, <1>3, <2>1, LockKeepsInv
  <1> QED BY <1>1, <1>2, <1>3 DEF Handle

LEMMA InvokeKeepsInv ==
  ASSUME FramesInv, ~AtRest, Invoke
  PROVE  FramesInv'
  <1> DEFINE g == [Top EXCEPT !.step = "waiting"]
  <1>1. CASE ~Admits(Callee(Top).contract)
    BY <1>1, UnwindKeepsInv DEF Invoke
  <1>2. CASE Admits(Callee(Top).contract)
    <2>1. /\ frames' = Append(At("waiting"), Callee(Top)) /\ executing' = executing
          /\ Top.step = "calling"
      BY <1>2 DEF Invoke, storeVars
    <2>2. /\ FrameShape(g) /\ g.contract = Top.contract /\ g.call = Top.call
          /\ g.saved = Top.saved /\ InFlight(g) = InFlight(Top)
      BY <2>1, TopFacts DEF FrameShape, InFlight
    <2>3. /\ FrameShape(Callee(Top)) /\ Callee(Top).step = "entered"
          /\ Callee(Top).saved.executing = executing
      BY DEF Callee, Frame, FrameShape, Store
    <2>4. frames' = Append([frames EXCEPT ![Len(frames)] = g], Callee(Top))
      BY <2>1, TopFacts DEF At
    <2> HIDE DEF g
    <2> QED BY <2>1, <2>2, <2>3, <2>4, MoveOnKeepsInv
  <1> QED BY <1>1, <1>2

LEMMA ReturnKeepsInv ==
  ASSUME FramesInv, ~AtRest, Return
  PROVE  FramesInv'
  <1>1. /\ frames' = Front(frames) /\ Top.step = "waiting" /\ Writes(Top, "after")
    BY DEF Return
  <1>2. executing' = IF InFlight(Top) THEN executing \ {Top.call.mandate} ELSE executing
    BY <1>1 DEF Writes, ExtensionWrites, InFlight
  <1> QED BY <1>1, <1>2, PopKeepsInv

LEMMA LeaveKeepsInv ==
  ASSUME FramesInv, ~AtRest, MoveAndReturn \/ Finish
  PROVE  FramesInv'
  <1>1. frames' = Front(frames) /\ executing' = executing /\ Top.contract # "extension"
    BY DEF MoveAndReturn, Finish, storeVars
  <1> QED BY <1>1, PopKeepsInv DEF InFlight

LEMMA CallOutKeepsInv ==
  ASSUME FramesInv, ~AtRest, CallOut
  PROVE  FramesInv'
  <1> DEFINE g == [Top EXCEPT !.made = @ + 1]
  <1>1. PICK c \in OutsideCalls :
          /\ frames' = Append([frames EXCEPT ![Len(frames)].made = @ + 1], Frame(c[1], c[2]))
          /\ executing' = executing
    BY DEF CallOut, storeVars
  <1> DEFINE f == Frame(c[1], c[2])
  <1>2. /\ FrameShape(g) /\ g.contract = Top.contract /\ g.call = Top.call
        /\ g.saved = Top.saved /\ InFlight(g) = InFlight(Top)
    BY TopFacts DEF FrameShape, InFlight
  <1>3. FrameShape(f) /\ f.step = "entered" /\ f.saved.executing = executing
    BY DEF Frame, FrameShape, Store
  <1>4. frames' = Append([frames EXCEPT ![Len(frames)] = g], f)
    BY <1>1, TopFacts
  <1> HIDE DEF g, f
  <1> QED BY <1>1, <1>2, <1>3, <1>4, MoveOnKeepsInv

LEMMA BeginKeepsInv ==
  ASSUME FramesInv, Begin
  PROVE  FramesInv'
  <1>1. PICK contract, call : frames' = <<Frame(contract, call)>>
    BY DEF Begin
  <1> DEFINE f == Frame(contract, call)
  <1>2. /\ FrameShape(f) /\ f.step = "entered" /\ f.saved.executing = executing
    BY DEF Frame, FrameShape, Store
  <1>3. frames = << >> /\ executing' = executing
    BY DEF Begin, AtRest, storeVars
  <1> HIDE DEF f
  <1>4. frames' = <<f>>
    BY <1>1 DEF f
  <1>5. /\ frames' \in Seq({f}) /\ Len(frames') = 1 /\ frames'[1] = f /\ Len(frames) = 0
    BY <1>3, <1>4
  <1>6. FramesKept(Len(frames))
    BY <1>5 DEF FramesKept
  <1>7. \A j \in 0 + 1..1 : j = 1
    OBVIOUS
  <1> QED BY <1>2, <1>3, <1>5, <1>6, <1>7, PushKeepsInv

LEMMA FramesInvInit == FramesInit => FramesInv
  <1> SUFFICES ASSUME FramesInit PROVE FramesInv
    OBVIOUS
  <1>1. frames = << >> /\ executing = {} /\ Len(frames) = 0 /\ DOMAIN frames = {}
    BY DEF FramesInit
  <1>2. Locks(frames, Len(frames)) = {}
    BY <1>1 DEF Locks
  <1> QED BY <1>1, <1>2 DEF FramesInv, IsStack, LocksMatchFrames, OneInFlight

LEMMA FramesInvStep == FramesInv /\ [FramesNext]_<<vars, frameVars>> => FramesInv'
  <1> SUFFICES ASSUME FramesInv, [FramesNext]_<<vars, frameVars>> PROVE FramesInv'
    OBVIOUS
  <1>1. CASE InTransaction
    BY <1>1, UnwindKeepsInv, HandleKeepsInv, InvokeKeepsInv, ReturnKeepsInv, LeaveKeepsInv,
       CallOutKeepsInv DEF InTransaction, Fail
  <1>2. CASE UNCHANGED frameVars
    BY <1>2 DEF frameVars, FramesInv, IsStack, LocksMatchFrames, Locks, OneInFlight,
                FrameShape, InFlight
  <1> QED BY <1>1, <1>2, BeginKeepsInv DEF FramesNext, WithoutCalls

\* The locks kept are the requests in flight, at any depth of calls.
THEOREM FramesInvariant == FramesSpec => []FramesInv
  BY FramesInvInit, FramesInvStep, PTL DEF FramesSpec

\* A mandate has one request in flight, whether the host refuses re-entry or not.
THEOREM OneAtATime == FramesSpec => []OneInFlight
  <1>1. FramesInv => OneInFlight
    BY DEF FramesInv
  <1> QED BY <1>1, FramesInvariant, PTL

--------------------------------------------------------------------------------
\* The payments within a transaction.  A store is sound when it is as PolicyInv
\* has it but for one nonce consumed ahead of its payment, and so is every store
\* a failing call would take back to.

\* What is known of the call a frame serves.
CallIsChecked(inForce, f) ==
  /\ f.contract = "extension" =>
       /\ f.call.mandate \in Mandates
       /\ f.call.amount \in PaymentAmounts /\ f.call.nonce \in Nonces
       /\ InFlight(f) => /\ inForce[f.call.mandate] # NoPolicy
                         /\ f.call.amount <= inForce[f.call.mandate].cap
  /\ f.contract = "registry" =>
       /\ f.call.op \in {"pay", "revoke"} /\ f.call.mandate \in Mandates
       /\ f.call.op = "pay" => f.call.amount \in PaymentAmounts

Under(stack, i, contract) == i > 1 /\ stack[i - 1].contract = contract

\* What is known of a frame from the one below it, and from being below one.
\* The extension's payments, and no others, have the extension as the caller.
CallIsNested(stack, i) ==
  /\ Under(stack, i, "extension") =>
       LET r == stack[i - 1].call
       IN  /\ stack[i].contract = "registry"
           /\ stack[i].call = PayCall(Extension, r.mandate, r.amount, r.expectedSeq)
  /\ /\ stack[i].contract = "registry" /\ stack[i].call.op = "pay"
     /\ stack[i].call.caller = Extension
     => Under(stack, i, "extension")
  /\ i < Len(stack) /\ stack[i].contract \in {"extension", "registry"} =>
       stack[i].step = "waiting"

\* The mandate whose nonce was consumed and whose payment was not booked when
\* frame n was pushed.
UnpaidBelow(stack, n) ==
  IF Under(stack, n, "extension") THEN {stack[n - 1].call.mandate} ELSE {}

\* And now that frame n is the top one.
Unpaid(stack, n) ==
  IF n > 0 /\ stack[n].contract = "extension" /\ stack[n].step = "calling"
  THEN {stack[n].call.mandate}
  ELSE IF n > 0 /\ stack[n].step = "entered" THEN UnpaidBelow(stack, n) ELSE {}

\* The books as PolicyInv has them, but for nonces consumed ahead of payment:
\* of a store s, under the terms signed and the policies in force.
BooksSound(signed, inForce, s, unpaid) ==
  /\ s.spent \in [Mandates -> Nat] /\ s.seq \in [Mandates -> 0..MaxSeq]
  /\ s.status \in [Mandates -> {"None", "Active", "Revoked", "Exhausted"}]
  /\ s.consumed \subseteq Policies \X Nonces /\ IsFiniteSet(s.consumed)
  /\ \A c \in s.consumed : /\ inForce[c[1].mandate] # NoPolicy
                          /\ c[1] = inForce[c[1].mandate]
  /\ \A m \in Mandates :
       /\ signed[m] # NoTerms <=> s.status[m] # "None"
       /\ signed[m] # NoTerms => s.spent[m] <= signed[m].maxAmount
       /\ inForce[m] # NoPolicy => s.spent[m] <= s.seq[m] * inForce[m].cap
       /\ signed[m] # NoTerms /\ signed[m].agent = Extension =>
            /\ inForce[m] = NoPolicy => s.spent[m] = 0
            /\ Cardinality({c \in s.consumed : c[1].mandate = m})
                 = s.seq[m] + (IF m \in unpaid THEN 1 ELSE 0)

\* What a transaction with calls does not change.
GroundInv ==
  /\ now \in 0..MaxTime /\ paused \in BOOLEAN
  /\ terms \in [Mandates -> MandateTerms \union {NoTerms}]
  /\ policy \in [Mandates -> Policies \union {NoPolicy}]
  /\ BindingStaysTrue

StackInv ==
  \A i \in DOMAIN frames : CallIsChecked(policy, frames[i]) /\ CallIsNested(frames, i)

\* Whatever is taken back to has sound books.
StoresInv ==
  /\ BooksSound(terms, policy, Store, Unpaid(frames, Len(frames)))
  /\ \A i \in DOMAIN frames :
       BooksSound(terms, policy, frames[i].saved, UnpaidBelow(frames, i))

CallsInv == FramesInv /\ GroundInv /\ StackInv /\ StoresInv

StoreFields == /\ Store.spent = spent /\ Store.seq = seq /\ Store.status = status
               /\ Store.consumed = consumed /\ Store.executing = executing

LEMMA StoreHas == StoreFields /\ StoreFields'
  BY DEF StoreFields, Store

\* At rest, the books are as the extension's atomic steps leave them.
LEMMA RestIsPolicyInv ==
  PolicyInv <=> GroundInv /\ BooksSound(terms, policy, Store, {})
  <1>1. ASSUME PolicyInv PROVE GroundInv
    BY <1>1 DEF PolicyInv, BooksTypeOK, GroundInv
  <1>2. ASSUME PolicyInv PROVE BooksSound(terms, policy, Store, {})
    <2> SUFFICES ASSUME NEW m \in Mandates
                 PROVE  /\ terms[m] # NoTerms <=> status[m] # "None"
                        /\ terms[m] # NoTerms => spent[m] <= terms[m].maxAmount
                        /\ policy[m] # NoPolicy => spent[m] <= seq[m] * policy[m].cap
                        /\ terms[m] # NoTerms /\ terms[m].agent = Extension =>
                             /\ policy[m] = NoPolicy => spent[m] = 0
                             /\ Cardinality({c \in consumed : c[1].mandate = m}) = seq[m] + 0
      BY <1>2, StoreHas DEF StoreFields, BooksSound, PolicyInv, BooksTypeOK, NoncesAreInForce,
                            Installed
    <2>1. seq[m] \in Nat
      BY <1>2, MandateFacts
    <2>2. UsesExtension(m) => Cardinality({c \in consumed : c[1].mandate = m}) = seq[m] + 0
      BY <1>2, <2>1 DEF PolicyInv, NoncesMatchPayments, NoncesOf
    <2>3. /\ Registered(m) <=> status[m] # "None"
          /\ Registered(m) => spent[m] <= terms[m].maxAmount
          /\ Installed(m) => spent[m] <= seq[m] * policy[m].cap
          /\ UsesExtension(m) /\ ~Installed(m) => spent[m] = 0
      BY <1>2 DEF PolicyInv, StatusTracksTerms, SpendWithinCaps
    <2> QED BY <2>2, <2>3 DEF UsesExtension, Registered, Installed
  <1>3. ASSUME GroundInv, BooksSound(terms, policy, Store, {}) PROVE PolicyInv
    <2>1. BooksTypeOK /\ NoncesAreInForce /\ BindingStaysTrue
      BY <1>3, StoreHas DEF GroundInv, BooksSound, StoreFields, BooksTypeOK, NoncesAreInForce,
                            Installed
    <2>2. StatusTracksTerms /\ SpendWithinCaps
      BY <1>3, StoreHas DEF BooksSound, StoreFields, StatusTracksTerms, SpendWithinCaps,
                            UsesExtension, Registered, Installed
    <2>3. NoncesMatchPayments
      <3> SUFFICES ASSUME NEW m \in Mandates, UsesExtension(m)
                   PROVE  Cardinality(NoncesOf(m)) = seq[m]
        BY DEF NoncesMatchPayments
      <3>1. seq[m] \in Nat
        BY <2>1, RegistryConstants DEF BooksTypeOK
      <3>2. Cardinality({c \in consumed : c[1].mandate = m}) = seq[m] + 0
        BY <1>3, StoreHas DEF BooksSound, StoreFields, UsesExtension, Registered
      <3> QED BY <3>1, <3>2 DEF NoncesOf
    <2> QED BY <2>1, <2>2, <2>3 DEF PolicyInv
  <1> QED BY <1>1, <1>2, <1>3

\* The facts about one mandate that the calls' steps rest on.
LEMMA GroundFacts ==
  ASSUME GroundInv, NEW m \in Mandates
  PROVE  /\ Registered(m) => terms[m].maxAmount \in Int
         /\ Installed(m) => /\ policy[m] \in Policies /\ policy[m].mandate = m
                            /\ policy[m].cap \in Nat /\ UsesExtension(m)
  <1>1. terms[m] \in MandateTerms \union {NoTerms} /\ policy[m] \in Policies \union {NoPolicy}
    BY DEF GroundInv
  <1>2. Registered(m) => terms[m].maxAmount \in Int
    BY <1>1, SignedTerms DEF Registered
  <1> QED BY <1>1, <1>2 DEF GroundInv, BindingStaysTrue, Installed, UsesExtension

\* A payment is booked: the extension's, whose nonce was consumed before, or
\* one by an agent of another kind.
LEMMA BookingIsSound ==
  ASSUME GroundInv, NEW unpaid, BooksSound(terms, policy, Store, unpaid),
         NEW caller, NEW m \in Mandates, NEW amount \in PaymentAmounts, NEW n,
         PaymentAccepted(caller, m, amount, n), BookPayment(m, amount), consumed' = consumed,
         UsesExtension(m) => unpaid = {m} /\ Installed(m) /\ amount <= policy[m].cap,
         ~UsesExtension(m) => unpaid = {}
  PROVE  BooksSound(terms, policy, Store', {})
  <1>1. /\ spent \in [Mandates -> Nat] /\ seq \in [Mandates -> 0..MaxSeq]
        /\ status \in [Mandates -> {"None", "Active", "Revoked", "Exhausted"}]
        /\ MaxSeq \in Nat /\ amount \in Int
    BY StoreHas, RegistryConstants DEF BooksSound, StoreFields
  <1>2. /\ amount > 0 /\ status[m] = "Active" /\ Registered(m) /\ seq[m] < MaxSeq
        /\ spent[m] + amount <= terms[m].maxAmount
    BY DEF PaymentAccepted, Check, SequenceLeft
  <1>3. /\ spent' = [spent EXCEPT ![m] = spent[m] + amount]
        /\ seq' = [seq EXCEPT ![m] = seq[m] + 1]
        /\ status' = [status EXCEPT ![m] = StatusAfter(m, spent[m] + amount)]
        /\ StatusAfter(m, spent[m] + amount) \in {"Active", "Exhausted"}
    BY <1>2 DEF BookPayment, StatusAfter
  <1>4. /\ spent'[m] = spent[m] + amount /\ seq'[m] = seq[m] + 1
        /\ status'[m] \in {"Active", "Exhausted"}
        /\ \A k \in Mandates \ {m} :
             spent'[k] = spent[k] /\ seq'[k] = seq[k] /\ status'[k] = status[k]
    BY <1>1, <1>3
  <1>5. /\ spent' \in [Mandates -> Nat] /\ seq' \in [Mandates -> 0..MaxSeq]
        /\ status' \in [Mandates -> {"None", "Active", "Revoked", "Exhausted"}]
    <2>1. spent[m] + amount \in Nat /\ seq[m] + 1 \in 0..MaxSeq
      BY <1>1, <1>2
    <2> QED BY <1>1, <1>3, <2>1
  <1> DEFINE nonces(k) == Cardinality({c \in consumed : c[1].mandate = k})
             Good(k) ==
               /\ terms[k] # NoTerms <=> status'[k] # "None"
               /\ terms[k] # NoTerms => spent'[k] <= terms[k].maxAmount
               /\ policy[k] # NoPolicy => spent'[k] <= seq'[k] * policy[k].cap
               /\ terms[k] # NoTerms /\ terms[k].agent = Extension =>
                    /\ policy[k] = NoPolicy => spent'[k] = 0
                    /\ nonces(k) = seq'[k] + 0
  <1>6. \A k \in Mandates :
          /\ terms[k] # NoTerms <=> status[k] # "None"
          /\ terms[k] # NoTerms => spent[k] <= terms[k].maxAmount
          /\ policy[k] # NoPolicy => spent[k] <= seq[k] * policy[k].cap
          /\ terms[k] # NoTerms /\ terms[k].agent = Extension =>
               /\ policy[k] = NoPolicy => spent[k] = 0
               /\ nonces(k) = seq[k] + (IF k \in unpaid THEN 1 ELSE 0)
    BY StoreHas DEF BooksSound, StoreFields
  <1> HIDE DEF nonces
  <1>7. Good(m)
    <2>1. policy[m] # NoPolicy => spent'[m] <= seq'[m] * policy[m].cap
      <3> SUFFICES ASSUME Installed(m) PROVE spent'[m] <= seq'[m] * policy[m].cap
        BY DEF Installed
      <3>1. /\ policy[m].cap \in Nat /\ amount <= policy[m].cap /\ amount \in Nat
            /\ spent[m] \in Nat /\ seq[m] \in Nat
        BY <1>1, <1>2, GroundFacts
      <3>2. spent[m] <= seq[m] * policy[m].cap
        BY <1>6 DEF Installed
      <3> QED BY <1>4, <3>1, <3>2, OneMoreCap
    <2>2. UsesExtension(m) => policy[m] # NoPolicy /\ nonces(m) = seq'[m] + 0
      BY <1>1, <1>4, <1>6 DEF UsesExtension, Registered, Installed
    <2> QED BY <1>2, <1>4, <2>1, <2>2 DEF UsesExtension, Registered
  <1>8. ASSUME NEW k \in Mandates \ {m} PROVE Good(k)
    <2>1. k \notin unpaid
      OBVIOUS
    <2> QED BY <1>1, <1>4, <1>6, <2>1
  <1> HIDE DEF Good
  <1>9. \A k \in Mandates : Good(k)
    BY <1>7, <1>8
  <1> QED BY <1>5, <1>9, StoreHas DEF BooksSound, StoreFields, Good, nonces

\* A revocation is booked.
LEMMA RevokingIsSound ==
  ASSUME NEW unpaid, BooksSound(terms, policy, Store, unpaid), NEW m \in Mandates,
         Registered(m), status' = [status EXCEPT ![m] = "Revoked"],
         UNCHANGED <<spent, seq, consumed>>
  PROVE  BooksSound(terms, policy, Store', unpaid)
  <1>1. status \in [Mandates -> {"None", "Active", "Revoked", "Exhausted"}]
    BY StoreHas DEF BooksSound, StoreFields
  <1>2. /\ status' \in [Mandates -> {"None", "Active", "Revoked", "Exhausted"}]
        /\ \A k \in Mandates : status'[k] # "None" <=> status[k] # "None" \/ k = m
    BY <1>1
  <1> QED BY <1>2, StoreHas DEF BooksSound, StoreFields, Registered

\* The extension consumes the nonce of a request, ahead of its payment.
LEMMA ConsumingIsSound ==
  ASSUME GroundInv, BooksSound(terms, policy, Store, {}), NEW r, r.mandate \in Mandates,
         r.nonce \in Nonces, RequestAdmitted(r),
         consumed' = consumed \union {<<r.policyHash, r.nonce>>},
         UNCHANGED <<spent, seq, status>>
  PROVE  BooksSound(terms, policy, Store', {r.mandate})
  <1> DEFINE m == r.mandate
             entry == <<policy[m], r.nonce>>
             nonces(k) == {c \in consumed : c[1].mandate = k}
  <1>1. /\ Installed(m) /\ r.policyHash = policy[m]
        /\ consumed' = consumed \union {entry} /\ entry \notin consumed
    BY DEF RequestAdmitted, WithinPolicy, NonceIsFresh
  <1>2. policy[m] \in Policies /\ policy[m].mandate = m
    BY <1>1, GroundFacts
  <1>3. /\ consumed \subseteq Policies \X Nonces /\ IsFiniteSet(consumed)
        /\ seq \in [Mandates -> 0..MaxSeq]
    BY StoreHas DEF BooksSound, StoreFields
  <1>4. entry \in Policies \X Nonces /\ entry[1] = policy[m]
    BY <1>2
  <1>5. /\ consumed' \subseteq Policies \X Nonces /\ IsFiniteSet(consumed')
        /\ \A c \in consumed' : policy[c[1].mandate] # NoPolicy /\ c[1] = policy[c[1].mandate]
    <2>1. IsFiniteSet(consumed')
      BY <1>1, <1>3, FS_AddElement
    <2>2. \A c \in consumed : policy[c[1].mandate] # NoPolicy /\ c[1] = policy[c[1].mandate]
      BY StoreHas DEF BooksSound, StoreFields
    <2> HIDE DEF entry
    <2> QED BY <1>1, <1>2, <1>3, <1>4, <2>1, <2>2 DEF Installed
  <1>6. /\ {c \in consumed' : c[1].mandate = m} = nonces(m) \union {entry}
        /\ \A k \in Mandates \ {m} : {c \in consumed' : c[1].mandate = k} = nonces(k)
    <2> HIDE DEF entry
    <2> QED BY <1>1, <1>2, <1>4
  <1>7. Cardinality({c \in consumed' : c[1].mandate = m}) = Cardinality(nonces(m)) + 1
    <2>1. IsFiniteSet(nonces(m)) /\ entry \notin nonces(m)
      BY <1>1, <1>3, FS_Subset
    <2> HIDE DEF entry, nonces
    <2> QED BY <1>6, <2>1, FS_AddElement
  <1>8. \A k \in Mandates :
          /\ terms[k] # NoTerms <=> status[k] # "None"
          /\ terms[k] # NoTerms => spent[k] <= terms[k].maxAmount
          /\ policy[k] # NoPolicy => spent[k] <= seq[k] * policy[k].cap
          /\ terms[k] # NoTerms /\ terms[k].agent = Extension =>
               /\ policy[k] = NoPolicy => spent[k] = 0
               /\ Cardinality(nonces(k)) = seq[k] + 0
    BY StoreHas DEF BooksSound, StoreFields
  <1> HIDE DEF nonces, entry
  <1>9. ASSUME NEW k \in Mandates, terms[k] # NoTerms /\ terms[k].agent = Extension
        PROVE  Cardinality({c \in consumed' : c[1].mandate = k})
                 = seq[k] + (IF k \in {m} THEN 1 ELSE 0)
    <2>1. seq[k] \in Nat /\ Cardinality(nonces(k)) = seq[k] + 0
      BY <1>3, <1>8, <1>9, RegistryConstants
    <2>2. CASE k = m
      BY <1>7, <2>1, <2>2
    <2>3. CASE k # m
      BY <1>6, <2>1, <2>3
    <2> QED BY <2>2, <2>3
  <1> QED BY <1>3, <1>5, <1>8, <1>9, StoreHas DEF BooksSound, StoreFields

\* A store taken back to, by field.
LEMMA TakingBackIsSound ==
  ASSUME NEW s, NEW unpaid, BooksSound(terms, policy, s, unpaid), Rollback(s)
  PROVE  BooksSound(terms, policy, Store', unpaid)
  BY StoreHas DEF BooksSound, StoreFields, Rollback

\* Books that stay.
LEMMA SameIsSound ==
  ASSUME NEW unpaid, BooksSound(terms, policy, Store, unpaid), UNCHANGED <<bookVars, consumed>>
  PROVE  BooksSound(terms, policy, Store', unpaid)
  BY StoreHas DEF BooksSound, StoreFields, bookVars

groundVars == <<now, paused, terms, policy>>

LEMMA GroundStays ==
  ASSUME GroundInv, UNCHANGED groundVars
  PROVE  GroundInv'
  BY DEF GroundInv, groundVars, BindingStaysTrue, Installed, UsesExtension, Registered

\* Frames are taken off, and the books are sound with nothing unpaid.
LEMMA CutIsSound ==
  ASSUME CallsInv, NEW k \in 0..Len(frames) - 1, frames' = SubSeq(frames, 1, k),
         UNCHANGED groundVars, BooksSound(terms, policy, Store', {})
  PROVE  StackInv' /\ StoresInv'
  <1> DEFINE n == Len(frames)
  <1>1. n \in Nat /\ DOMAIN frames = 1..n /\ frames \in Seq({frames[i] : i \in DOMAIN frames})
    BY StackFacts DEF CallsInv
  <1>2. /\ Len(frames') = k /\ DOMAIN frames' = 1..k
        /\ \A i \in 1..k : frames'[i] = frames[i] /\ i \in 1..n /\ i < n
    BY <1>1
  <1>3. \A i \in 1..k : /\ CallIsChecked(policy, frames[i]) /\ CallIsNested(frames, i)
                        /\ BooksSound(terms, policy, frames[i].saved, UnpaidBelow(frames, i))
    BY <1>1, <1>2 DEF CallsInv, StackInv, StoresInv
  <1>4. \A i \in 1..k : i > 1 => i - 1 \in 1..k
    OBVIOUS
  <1>5. \A i \in 1..k : /\ CallIsNested(frames', i)
                        /\ UnpaidBelow(frames', i) = UnpaidBelow(frames, i)
    BY <1>1, <1>2, <1>3, <1>4 DEF CallIsNested, UnpaidBelow, Under
  <1>6. StackInv'
    BY <1>2, <1>3, <1>5 DEF StackInv, groundVars
  <1>7. Unpaid(frames', k) = {}
    <2>1. CASE k = 0
      BY <2>1 DEF Unpaid
    <2>2. CASE k > 0
      <3>1. k \in 1..k /\ k < n
        BY <1>2, <2>2
      <3>2. frames[k].contract \in {"extension", "registry"} => frames[k].step = "waiting"
        BY <1>3, <3>1 DEF CallIsNested
      <3>3. Under(frames, k, "extension") => frames[k].contract = "registry"
        BY <1>3, <3>1 DEF CallIsNested
      <3>4. frames'[k] = frames[k] /\ UnpaidBelow(frames', k) = UnpaidBelow(frames, k)
        BY <1>2, <1>5, <3>1
      <3> QED BY <3>2, <3>3, <3>4 DEF Unpaid, UnpaidBelow
    <2> QED BY <2>1, <2>2
  <1>8. StoresInv'
    BY <1>2, <1>3, <1>5, <1>7 DEF StoresInv, groundVars
  <1> QED BY <1>6, <1>8

\* The top frame moves on, having written.
LEMMA MoveIsSound ==
  ASSUME CallsInv, ~AtRest, UNCHANGED groundVars,
         NEW step \in {"calling", "waiting"}, frames' = At(step),
         CallIsChecked(policy, [Top EXCEPT !.step = step]),
         BooksSound(terms, policy, Store',
                    IF Top.contract = "extension" /\ step = "calling"
                    THEN {Top.call.mandate} ELSE {})
  PROVE  StackInv' /\ StoresInv'
  <1> DEFINE n == Len(frames)
             g == [Top EXCEPT !.step = step]
  <1>1. /\ n \in Nat /\ n >= 1 /\ DOMAIN frames = 1..n /\ Top = frames[n]
        /\ FrameShape(Top) /\ frames \in Seq({frames[i] : i \in DOMAIN frames})
    BY StackFacts, TopFacts DEF CallsInv
  <1>2. /\ g.contract = Top.contract /\ g.call = Top.call /\ g.saved = Top.saved
        /\ g.step = step
    BY <1>1 DEF FrameShape
  <1>3. frames' = [frames EXCEPT ![Len(frames)] = g]
    BY <1>1 DEF At
  <1>4. CallIsChecked(policy, g)
    OBVIOUS
  <1> HIDE DEF g
  <1>5. /\ Len(frames') = n /\ DOMAIN frames' = 1..n /\ frames'[n] = g
        /\ \A i \in 1..n - 1 : frames'[i] = frames[i]
    BY <1>1, <1>3
  <1>6. /\ n \in 1..n
        /\ \A i \in 1..n : /\ i = n \/ (i \in 1..n - 1 /\ i < n)
                           /\ i > 1 => i - 1 \in 1..n - 1 /\ i - 1 \in 1..n
    BY <1>1, LastOrBefore
  <1>7. \A i \in 1..n : /\ CallIsChecked(policy, frames[i]) /\ CallIsNested(frames, i)
                        /\ BooksSound(terms, policy, frames[i].saved, UnpaidBelow(frames, i))
    BY <1>1 DEF CallsInv, StackInv, StoresInv
  <1>8. \A i \in 1..n : /\ frames'[i].contract = frames[i].contract
                        /\ frames'[i].call = frames[i].call
                        /\ frames'[i].saved = frames[i].saved
    BY <1>1, <1>2, <1>5, <1>6
  <1>9. \A i \in 1..n : \A c : Under(frames', i, c) = Under(frames, i, c)
    BY <1>6, <1>8 DEF Under
  <1>10. \A i \in 1..n : UnpaidBelow(frames', i) = UnpaidBelow(frames, i)
    BY <1>6, <1>8, <1>9 DEF UnpaidBelow, Under
  <1>11. ASSUME NEW i \in 1..n PROVE CallIsNested(frames', i)
    <2>1. Under(frames', i, "extension") =>
            /\ frames'[i].contract = "registry"
            /\ frames'[i].call =
                 PayCall(Extension, frames'[i - 1].call.mandate, frames'[i - 1].call.amount,
                         frames'[i - 1].call.expectedSeq)
      BY <1>6, <1>7, <1>8, <1>9 DEF CallIsNested, Under
    <2>2. i < n => frames'[i] = frames[i]
      BY <1>5, <1>6
    <2> QED BY <1>5, <1>7, <1>8, <1>9, <2>1, <2>2 DEF CallIsNested
  <1>12. StackInv'
    <2>1. \A i \in 1..n : CallIsChecked(policy, frames'[i])
      BY <1>4, <1>5, <1>6, <1>7
    <2> QED BY <1>5, <1>11, <2>1 DEF StackInv, groundVars
  <1>13. Unpaid(frames', n)
           = IF Top.contract = "extension" /\ step = "calling" THEN {Top.call.mandate} ELSE {}
    <2>1. /\ n > 0 /\ frames'[n].contract = Top.contract /\ frames'[n].call = Top.call
          /\ frames'[n].step = step /\ step # "entered"
      BY <1>1, <1>2, <1>5
    <2> HIDE DEF n
    <2> QED BY <2>1 DEF Unpaid
  <1>14. StoresInv'
    BY <1>5, <1>7, <1>8, <1>10, <1>13 DEF StoresInv, groundVars
  <1> QED BY <1>12, <1>14

LEMMA Positions ==
  ASSUME NEW n \in Nat
  PROVE  /\ \A i \in 1..n + 1 : i = n + 1 \/ i \in 1..n
         /\ \A i \in 1..n : /\ n > 0 /\ (i < n \/ i = n)
                           /\ i > 1 => i - 1 \in 1..n /\ i - 1 < n
  OBVIOUS

\* A frame is pushed on what is left as it was, but for a step of the top frame.
FramePushed(n, f) ==
  /\ Len(frames') = n + 1 /\ DOMAIN frames' = 1..n + 1 /\ frames'[n + 1] = f
  /\ \A i \in 1..n : /\ frames'[i].contract = frames[i].contract
                     /\ frames'[i].call = frames[i].call
                     /\ frames'[i].saved = frames[i].saved
                     /\ i < n => frames'[i] = frames[i]
  /\ n > 0 => /\ CallIsChecked(policy, frames'[n])
              /\ frames[n].contract \in {"extension", "registry"} =>
                   frames'[n].step = "waiting"

LEMMA PushIsSound ==
  ASSUME CallsInv, UNCHANGED groundVars, UNCHANGED <<bookVars, consumed>>,
         NEW n, n = Len(frames), NEW f, FramePushed(n, f), f.step = "entered", f.saved = Store,
         CallIsChecked(policy, f), CallIsNested(frames', n + 1),
         BooksSound(terms, policy, Store, UnpaidBelow(frames', n + 1))
  PROVE  StackInv' /\ StoresInv'
  <1>1. n \in Nat /\ DOMAIN frames = 1..n
    BY StackFacts DEF CallsInv
  <1>2. /\ \A i \in 1..n + 1 : i = n + 1 \/ i \in 1..n
        /\ \A i \in 1..n : /\ n > 0 /\ (i < n \/ i = n)
                          /\ i > 1 => i - 1 \in 1..n /\ i - 1 < n
    BY <1>1, Positions
  <1>3. \A i \in 1..n : /\ CallIsChecked(policy, frames[i]) /\ CallIsNested(frames, i)
                        /\ BooksSound(terms, policy, frames[i].saved, UnpaidBelow(frames, i))
    BY <1>1 DEF CallsInv, StackInv, StoresInv
  <1>4. \A i \in 1..n : \A c : Under(frames', i, c) = Under(frames, i, c)
    BY <1>2 DEF Under, FramePushed
  <1>5. \A i \in 1..n : UnpaidBelow(frames', i) = UnpaidBelow(frames, i)
    <2> SUFFICES ASSUME NEW i \in 1..n, Under(frames, i, "extension")
                 PROVE  frames'[i - 1].call.mandate = frames[i - 1].call.mandate
      BY <1>4 DEF UnpaidBelow
    <2>1. i > 1
      BY DEF Under
    <2>2. i - 1 \in 1..n
      BY <1>2, <2>1
    <2> QED BY <2>2 DEF FramePushed
  <1>6. ASSUME NEW i \in 1..n PROVE CallIsNested(frames', i)
    <2>1. Under(frames', i, "extension") =>
            /\ frames'[i].contract = "registry"
            /\ frames'[i].call =
                 PayCall(Extension, frames'[i - 1].call.mandate, frames'[i - 1].call.amount,
                         frames'[i - 1].call.expectedSeq)
      BY <1>2, <1>3, <1>4 DEF CallIsNested, Under, FramePushed
    <2>2. frames'[i].contract \in {"extension", "registry"} => frames'[i].step = "waiting"
      <3>1. CASE i < n
        BY <1>1, <1>3, <3>1 DEF CallIsNested, FramePushed
      <3>2. CASE i = n
        BY <1>2, <3>2 DEF FramePushed
      <3> QED BY <1>2, <3>1, <3>2
    <2>3. frames'[i].contract = frames[i].contract /\ frames'[i].call = frames[i].call
      BY DEF FramePushed
    <2> QED BY <1>3, <1>4, <2>1, <2>2, <2>3 DEF CallIsNested
  <1>7. StackInv'
    <2>1. ASSUME NEW i \in 1..n PROVE CallIsChecked(policy, frames'[i])
      BY <1>2, <1>3 DEF FramePushed
    <2> QED BY <1>2, <1>6, <2>1 DEF StackInv, groundVars, FramePushed
  <1>8. Unpaid(frames', n + 1) = UnpaidBelow(frames', n + 1)
    BY <1>1 DEF Unpaid, FramePushed
  <1>9. BooksSound(terms, policy, Store', UnpaidBelow(frames', n + 1))
    BY SameIsSound
  <1>10. StoresInv'
    <2>1. ASSUME NEW i \in 1..n
          PROVE  BooksSound(terms, policy, frames'[i].saved, UnpaidBelow(frames', i))
      BY <1>3, <1>5 DEF FramePushed
    <2>2. BooksSound(terms, policy, frames'[n + 1].saved, UnpaidBelow(frames', n + 1))
      BY DEF FramePushed
    <2> QED BY <1>2, <1>8, <1>9, <2>1, <2>2 DEF StoresInv, groundVars, FramePushed
  <1> QED BY <1>7, <1>10

LEMMA TopOfStack ==
  ASSUME CallsInv, ~AtRest
  PROVE  LET n == Len(frames)
         IN  /\ n \in Nat /\ n >= 1 /\ n \in DOMAIN frames /\ DOMAIN frames = 1..n
             /\ Top = frames[n] /\ FrameShape(Top)
             /\ CallIsChecked(policy, Top) /\ CallIsNested(frames, n)
             /\ BooksSound(terms, policy, Store, Unpaid(frames, n))
  <1>1. /\ Len(frames) \in Nat /\ Len(frames) >= 1 /\ DOMAIN frames = 1..Len(frames)
        /\ Top = frames[Len(frames)] /\ FrameShape(Top)
    BY TopFacts, StackFacts DEF CallsInv
  <1>2. Len(frames) \in DOMAIN frames
    BY <1>1
  <1> QED BY <1>1, <1>2 DEF CallsInv, StackInv, StoresInv

LEMMA UnwindIsSound ==
  ASSUME CallsInv, ~AtRest, UNCHANGED groundVars, Unwind
  PROVE  StackInv' /\ StoresInv'
  <1>1. PICK kept \in 0..Len(frames) - 1 :
          /\ kept > 0 => Catches(frames[kept])
          /\ frames' = SubSeq(frames, 1, kept)
          /\ Rollback(frames[kept + 1].saved)
    BY DEF Unwind
  <1>2. kept + 1 \in DOMAIN frames /\ (kept + 1 > 1 => kept > 0) /\ kept + 1 - 1 = kept
    BY TopOfStack
  <1>3. UnpaidBelow(frames, kept + 1) = {}
    BY <1>1, <1>2 DEF UnpaidBelow, Under, Catches, Untrusted
  <1>4. BooksSound(terms, policy, frames[kept + 1].saved, {})
    BY <1>2, <1>3 DEF CallsInv, StoresInv
  <1>5. BooksSound(terms, policy, Store', {})
    BY <1>1, <1>4, TakingBackIsSound
  <1> QED BY <1>1, <1>5, CutIsSound

LEMMA HandleIsSound ==
  ASSUME CallsInv, ~AtRest, UNCHANGED groundVars, Handle
  PROVE  StackInv' /\ StoresInv'
  <1> DEFINE n == Len(frames)
             m == Top.call.mandate
             below == UnpaidBelow(frames, n)
  <1>1. CASE ~Accepts(Top)
    BY <1>1, UnwindIsSound DEF Handle
  <1> SUFFICES ASSUME Accepts(Top)
               PROVE  StackInv' /\ StoresInv'
    BY <1>1
  <1>2. /\ n \in Nat /\ n >= 1 /\ DOMAIN frames = 1..n /\ Top = frames[n] /\ FrameShape(Top)
        /\ CallIsChecked(policy, Top) /\ CallIsNested(frames, n)
        /\ BooksSound(terms, policy, Store, Unpaid(frames, n))
    BY TopOfStack
  <1>3. GroundInv /\ Top.step = "entered"
    BY DEF Handle, CallsInv
  <1>4. BooksSound(terms, policy, Store, below)
    BY <1>2, <1>3 DEF Unpaid
  <1>5. CASE Top.contract = "extension"
    <2>1. /\ frames' = At("calling") /\ UNCHANGED <<spent, seq, status>>
          /\ consumed' = consumed \union {<<Top.call.policyHash, Top.call.nonce>>}
          /\ RequestAdmitted(Top.call)
      BY <1>5 DEF Handle, Accepts, Writes, ExtensionWrites, bookVars
    <2>2. below = {}
      BY <1>2, <1>5 DEF CallIsNested, UnpaidBelow
    <2>3. m \in Mandates /\ Top.call.nonce \in Nonces
      BY <1>2, <1>5 DEF CallIsChecked
    <2>4. BooksSound(terms, policy, Store', {m})
      BY <1>3, <1>4, <2>1, <2>2, <2>3, ConsumingIsSound
    <2>5. policy[m] # NoPolicy /\ Top.call.amount <= policy[m].cap
      BY <2>1 DEF RequestAdmitted, WithinPolicy, Installed
    <2>6. CallIsChecked(policy, [Top EXCEPT !.step = "calling"])
      BY <1>2, <1>5, <2>5 DEF CallIsChecked, FrameShape
    <2> QED BY <1>5, <2>1, <2>4, <2>6, MoveIsSound
  <1>6. CASE Top.contract = "registry" /\ Top.call.op = "pay"
    <2>1. /\ frames' = At("calling") /\ consumed' = consumed
          /\ BookPayment(m, Top.call.amount)
          /\ PaymentAccepted(Top.call.caller, m, Top.call.amount, Top.call.expectedSeq)
      BY <1>6 DEF Handle, Accepts, Writes, RegistryWrites
    <2>2. m \in Mandates /\ Top.call.amount \in PaymentAmounts
      BY <1>2, <1>6 DEF CallIsChecked
    <2>3. Registered(m) /\ Top.call.caller = terms[m].agent
      BY <2>1 DEF PaymentAccepted, MayCall
    <2>4. ASSUME UsesExtension(m)
          PROVE  below = {m} /\ Installed(m) /\ Top.call.amount <= policy[m].cap
      <3> DEFINE r == frames[n - 1].call
      <3>1. Under(frames, n, "extension")
        BY <1>2, <1>6, <2>3, <2>4 DEF CallIsNested, UsesExtension
      <3>2. n - 1 \in 1..n /\ n - 1 < n /\ frames[n - 1].contract = "extension"
        BY <1>2, <3>1 DEF Under
      <3>3. r.mandate = m /\ r.amount = Top.call.amount
        BY <1>2, <3>1 DEF CallIsNested, PayCall
      <3>4. InFlight(frames[n - 1]) /\ CallIsChecked(policy, frames[n - 1])
        BY <1>2, <3>2 DEF CallsInv, StackInv, CallIsNested, InFlight
      <3>5. policy[m] # NoPolicy /\ Top.call.amount <= policy[m].cap
        BY <3>2, <3>3, <3>4 DEF CallIsChecked
      <3> QED BY <3>1, <3>3, <3>5 DEF UnpaidBelow, Installed
    <2>5. ASSUME ~UsesExtension(m) PROVE below = {}
      <3>1. Top.call.caller # Extension
        BY <2>3, <2>5 DEF UsesExtension
      <3>2. ~Under(frames, n, "extension")
        BY <1>2, <3>1 DEF CallIsNested, PayCall
      <3> QED BY <3>2 DEF UnpaidBelow
    <2>6. BooksSound(terms, policy, Store', {})
      BY <1>3, <1>4, <2>1, <2>2, <2>4, <2>5, BookingIsSound
    <2>7. CallIsChecked(policy, [Top EXCEPT !.step = "calling"])
      BY <1>2, <1>6 DEF CallIsChecked, FrameShape
    <2> QED BY <1>6, <2>1, <2>6, <2>7, MoveIsSound
  <1>7. CASE Top.contract = "registry" /\ Top.call.op = "revoke"
    <2>1. /\ frames' = At("waiting") /\ UNCHANGED <<spent, seq, consumed>>
          /\ status' = [status EXCEPT ![m] = "Revoked"] /\ Registered(m)
      BY <1>7 DEF Handle, Accepts, Writes, RegistryWrites
    <2>2. m \in Mandates
      BY <1>2, <1>7 DEF CallIsChecked
    <2>3. below = {}
      BY <1>2, <1>7 DEF CallIsNested, UnpaidBelow, PayCall
    <2>4. BooksSound(terms, policy, Store', {})
      BY <1>4, <2>1, <2>2, <2>3, RevokingIsSound
    <2>5. CallIsChecked(policy, [Top EXCEPT !.step = "waiting"])
      BY <1>2, <1>7 DEF CallIsChecked, FrameShape
    <2> QED BY <1>7, <2>1, <2>4, <2>5, MoveIsSound
  <1> QED BY <1>2, <1>5, <1>6, <1>7 DEF Handle, CallIsChecked

\* Nothing is unpaid when a frame of another kind is the top one, or one that
\* waits.
LEMMA NothingUnpaid ==
  ASSUME CallsInv, ~AtRest, Top.contract \in Untrusted \/ Top.step = "waiting"
  PROVE  BooksSound(terms, policy, Store, {})
  <1> DEFINE n == Len(frames)
  <1>1. /\ Top = frames[n] /\ CallIsNested(frames, n)
        /\ BooksSound(terms, policy, Store, Unpaid(frames, n))
    BY TopOfStack
  <1>2. CASE Top.step = "waiting"
    BY <1>1, <1>2 DEF Unpaid
  <1>3. CASE Top.contract \in Untrusted
    <2>1. ~Under(frames, n, "extension")
      BY <1>1, <1>3 DEF CallIsNested, Untrusted
    <2> QED BY <1>1, <1>3, <2>1 DEF Unpaid, UnpaidBelow, Untrusted
  <1> QED BY <1>2, <1>3

LEMMA LeavingIsSound ==
  ASSUME CallsInv, ~AtRest, UNCHANGED groundVars, Return \/ MoveAndReturn \/ Finish
  PROVE  StackInv' /\ StoresInv'
  <1>1. frames' = SubSeq(frames, 1, Len(frames) - 1)
    BY DEF Return, MoveAndReturn, Finish, Front
  <1>2. UNCHANGED <<bookVars, consumed>>
    BY DEF Return, MoveAndReturn, Finish, storeVars, Writes, RegistryWrites, ExtensionWrites
  <1>3. BooksSound(terms, policy, Store, {})
    BY NothingUnpaid DEF Return, MoveAndReturn, Finish, Untrusted
  <1>4. BooksSound(terms, policy, Store', {})
    BY <1>2, <1>3, SameIsSound
  <1>5. Len(frames) - 1 \in 0..Len(frames) - 1
    BY TopOfStack
  <1> QED BY <1>1, <1>4, <1>5, CutIsSound

\* The top frame calls f.
LEMMA CallingIsPushing ==
  ASSUME CallsInv, ~AtRest, NEW g, g.contract = Top.contract, g.call = Top.call,
         g.saved = Top.saved, CallIsChecked(policy, g),
         Top.contract \in {"extension", "registry"} => g.step = "waiting",
         NEW f, frames' = Append([frames EXCEPT ![Len(frames)] = g], f)
  PROVE  FramePushed(Len(frames), f) /\ frames'[Len(frames)] = g
  <1> DEFINE n == Len(frames)
             S == {frames[i] : i \in DOMAIN frames} \union {g, f}
             fs == [frames EXCEPT ![n] = g]
  <1>1. /\ n \in Nat /\ n \in 1..n /\ n > 0 /\ Top = frames[n] /\ frames \in Seq(S)
    BY TopOfStack, StackFacts DEF CallsInv
  <1>2. f \in S /\ g \in S
    OBVIOUS
  <1> HIDE DEF S
  <1>3. /\ fs \in Seq(S) /\ Len(fs) = n
        /\ fs[n] = g /\ \A i \in 1..n - 1 : fs[i] = frames[i]
    <2>1. n \in 1..Len(frames) /\ S \union {g} = S /\ frames \in Seq(S)
      BY <1>1, <1>2
    <2>2. fs = [frames EXCEPT ![n] = g]
      OBVIOUS
    <2> HIDE DEF fs
    <2>3. /\ fs \in Seq(S \union {g}) /\ Len(fs) = Len(frames) /\ fs[n] = g
          /\ \A i \in 1..n - 1 : fs[i] = frames[i]
      BY <2>1, <2>2, Replaced
    <2> QED BY <2>1, <2>3
  <1>4. frames' = Append(fs, f)
    OBVIOUS
  <1> HIDE DEF fs
  <1>5. /\ Len(frames') = n + 1 /\ DOMAIN frames' = 1..n + 1 /\ frames'[n + 1] = f
        /\ \A i \in 1..n : frames'[i] = fs[i]
    <2>1. fs \in Seq(S) /\ f \in S
      BY <1>2, <1>3
    <2>2. /\ Append(fs, f) \in Seq(S) /\ Len(Append(fs, f)) = Len(fs) + 1
          /\ \A i \in 1..Len(fs) : Append(fs, f)[i] = fs[i]
          /\ Append(fs, f)[Len(fs) + 1] = f
      BY <2>1, AppendProperties
    <2> QED BY <1>3, <1>4, <2>2
  <1>6. ASSUME NEW i \in 1..n
        PROVE  /\ frames'[i].contract = frames[i].contract
               /\ frames'[i].call = frames[i].call
               /\ frames'[i].saved = frames[i].saved
               /\ i < n => frames'[i] = frames[i]
    <2>1. i = n \/ i \in 1..n - 1
      BY <1>1, LastOrBefore
    <2>2. i = n => ~(i < n)
      BY <1>1
    <2> QED BY <1>1, <1>3, <1>5, <2>1, <2>2
  <1>7. frames'[n] = g
    BY <1>1, <1>3, <1>5
  <1> HIDE DEF n
  <1> QED BY <1>1, <1>5, <1>6, <1>7 DEF FramePushed, n

LEMMA InvokeIsSound ==
  ASSUME CallsInv, ~AtRest, UNCHANGED groundVars, Invoke
  PROVE  StackInv' /\ StoresInv'
  <1> DEFINE n == Len(frames)
             f == Callee(Top)
             g == [Top EXCEPT !.step = "waiting"]
  <1>1. CASE ~Admits(Callee(Top).contract)
    BY <1>1, UnwindIsSound DEF Invoke
  <1> SUFFICES ASSUME Admits(Callee(Top).contract)
               PROVE  StackInv' /\ StoresInv'
    BY <1>1
  <1>2. /\ frames' = Append(At("waiting"), f) /\ UNCHANGED <<bookVars, consumed>>
        /\ Top.step = "calling"
    BY DEF Invoke, storeVars
  <1>3. /\ n \in Nat /\ n >= 1 /\ Top = frames[n] /\ FrameShape(Top)
        /\ CallIsChecked(policy, Top) /\ BooksSound(terms, policy, Store, Unpaid(frames, n))
    BY TopOfStack
  <1>4. /\ g.contract = Top.contract /\ g.call = Top.call /\ g.saved = Top.saved
        /\ g.step = "waiting"
    BY <1>3 DEF FrameShape
  <1>5. CallIsChecked(policy, g)
    BY <1>2, <1>3, <1>4 DEF CallIsChecked, InFlight
  <1>6. frames' = Append([frames EXCEPT ![Len(frames)] = g], f)
    BY <1>2, <1>3 DEF At
  <1> HIDE DEF g
  <1>7. FramePushed(Len(frames), f)
    BY <1>4, <1>5, <1>6, CallingIsPushing
  <1>8. /\ f.step = "entered" /\ f.saved = Store
        /\ Top.contract = "extension" =>
             /\ f.contract = "registry" /\ f.call.op = "pay"
             /\ f.call = PayCall(Extension, Top.call.mandate, Top.call.amount,
                                 Top.call.expectedSeq)
             /\ f.call.mandate = Top.call.mandate /\ f.call.amount = Top.call.amount
        /\ Top.contract # "extension" => f.contract = "token"
    BY DEF Callee, Frame, PayCall
  <1>9. CallIsChecked(policy, f)
    BY <1>3, <1>8 DEF CallIsChecked
  <1>10. /\ frames'[n].contract = Top.contract /\ frames'[n].call = Top.call
         /\ frames'[n + 1] = f /\ Len(frames') = n + 1 /\ n + 1 - 1 = n /\ n + 1 > 1
         /\ ~(n + 1 < n + 1)
    <2>1. n \in 1..n /\ n + 1 - 1 = n /\ n + 1 > 1 /\ ~(n + 1 < n + 1)
      BY <1>3
    <2> QED BY <1>3, <1>7, <2>1 DEF FramePushed
  <1> HIDE DEF f
  <1>11. Under(frames', n + 1, "extension") <=> Top.contract = "extension"
    BY <1>10 DEF Under
  <1>12. CallIsNested(frames', n + 1)
    BY <1>8, <1>10, <1>11 DEF CallIsNested
  <1>13. UnpaidBelow(frames', n + 1) = Unpaid(frames, n)
    <2> DEFINE due == IF Top.contract = "extension" THEN {Top.call.mandate} ELSE {}
    <2>1. n > 0 /\ frames[n].step = "calling"
      BY <1>2, <1>3
    <2>2. UnpaidBelow(frames', n + 1) = due
      <3>1. frames'[n + 1 - 1].call.mandate = Top.call.mandate
        BY <1>10
      <3>2. Under(frames', n + 1, "extension") <=> Top.contract = "extension"
        BY <1>11
      <3> HIDE DEF due
      <3>3. CASE Top.contract = "extension"
        <4>1. UnpaidBelow(frames', n + 1) = {frames'[n + 1 - 1].call.mandate}
          BY <3>2, <3>3 DEF UnpaidBelow
        <4> QED BY <3>1, <3>3, <4>1 DEF due
      <3>4. CASE Top.contract # "extension"
        BY <3>2, <3>4 DEF UnpaidBelow, due
      <3> QED BY <3>3, <3>4
    <2>3. Unpaid(frames, n) = due
      BY <1>3, <2>1 DEF Unpaid
    <2> QED BY <2>2, <2>3
  <1> QED BY <1>2, <1>3, <1>7, <1>8, <1>9, <1>12, <1>13, PushIsSound

\* What an outsider can call, and with what.
LEMMA OutsideFacts ==
  ASSUME NEW c \in OutsideCalls
  PROVE  LET f == Frame(c[1], c[2])
         IN  /\ CallIsChecked(policy, f) /\ f.step = "entered" /\ f.saved = Store
             /\ ~(/\ f.contract = "registry" /\ f.call.op = "pay"
                  /\ f.call.caller = Extension)
  <1> DEFINE f == Frame(c[1], c[2])
  <1>1. /\ f.contract = c[1] /\ f.call = c[2] /\ f.step = "entered" /\ f.saved = Store
    BY DEF Frame
  <1> HIDE DEF f
  <1>2. CASE c \in {"extension"} \X Requests
    <2>1. /\ c[1] = "extension" /\ c[2].mandate \in Mandates /\ c[2].amount \in PaymentAmounts
          /\ c[2].nonce \in Nonces
      BY <1>2 DEF Requests
    <2> QED BY <1>1, <2>1 DEF CallIsChecked, InFlight, f
  <1>3. ASSUME NEW caller \in Agents \ {Extension}, NEW m \in Mandates,
               NEW amount \in PaymentAmounts, NEW k \in 0..MaxSeq,
               c = <<"registry", PayCall(caller, m, amount, k)>>
        PROVE  /\ CallIsChecked(policy, f) /\ f.call.caller # Extension
    <2>1. /\ c[1] = "registry" /\ c[2].op = "pay" /\ c[2].caller = caller
          /\ c[2].mandate = m /\ c[2].amount = amount
      BY <1>3 DEF PayCall
    <2> QED BY <1>1, <2>1 DEF CallIsChecked
  <1>4. ASSUME NEW m \in Mandates, c = <<"registry", [op |-> "revoke", mandate |-> m]>>
        PROVE  CallIsChecked(policy, f) /\ f.call.op # "pay"
    <2>1. c[1] = "registry" /\ c[2].op = "revoke" /\ c[2].mandate = m
      BY <1>4
    <2> QED BY <1>1, <2>1 DEF CallIsChecked
  <1>5. c \in {"extension"} \X Requests => f.contract # "registry"
    BY <1>1
  <1> QED BY <1>1, <1>2, <1>3, <1>4, <1>5 DEF OutsideCalls, f

LEMMA CallOutIsSound ==
  ASSUME CallsInv, ~AtRest, UNCHANGED groundVars, CallOut
  PROVE  StackInv' /\ StoresInv'
  <1> DEFINE n == Len(frames)
             g == [Top EXCEPT !.made = @ + 1]
  <1>1. PICK c \in OutsideCalls :
          frames' = Append([frames EXCEPT ![Len(frames)].made = @ + 1], Frame(c[1], c[2]))
    BY DEF CallOut
  <1> DEFINE f == Frame(c[1], c[2])
  <1>2. Top.contract \in Untrusted /\ UNCHANGED <<bookVars, consumed>>
    BY DEF CallOut, storeVars
  <1>3. n \in Nat /\ n >= 1 /\ Top = frames[n] /\ FrameShape(Top) /\ CallIsChecked(policy, Top)
    BY TopOfStack
  <1>4. g.contract = Top.contract /\ g.call = Top.call /\ g.saved = Top.saved
    BY <1>3 DEF FrameShape
  <1>5. CallIsChecked(policy, g)
    BY <1>2, <1>4 DEF CallIsChecked, Untrusted
  <1>6. frames' = Append([frames EXCEPT ![Len(frames)] = g], f)
    BY <1>1, <1>3
  <1>7. /\ CallIsChecked(policy, f) /\ f.step = "entered" /\ f.saved = Store
        /\ ~(/\ f.contract = "registry" /\ f.call.op = "pay" /\ f.call.caller = Extension)
    BY OutsideFacts
  <1> HIDE DEF g, f
  <1>8. FramePushed(Len(frames), f)
    BY <1>2, <1>4, <1>5, <1>6, CallingIsPushing DEF Untrusted
  <1>9. /\ frames'[n].contract = Top.contract /\ frames'[n + 1] = f /\ Len(frames') = n + 1
        /\ n + 1 - 1 = n /\ ~(n + 1 < n + 1)
    <2>1. n \in 1..n /\ n + 1 - 1 = n /\ ~(n + 1 < n + 1)
      BY <1>3
    <2> QED BY <1>3, <1>8, <2>1 DEF FramePushed
  <1>10. ~Under(frames', n + 1, "extension")
    BY <1>2, <1>9 DEF Under, Untrusted
  <1>11. CallIsNested(frames', n + 1) /\ UnpaidBelow(frames', n + 1) = {}
    BY <1>7, <1>9, <1>10 DEF CallIsNested, UnpaidBelow
  <1> QED BY <1>2, <1>7, <1>8, <1>11, NothingUnpaid, PushIsSound

LEMMA BeginIsSound ==
  ASSUME CallsInv, UNCHANGED groundVars, Begin
  PROVE  StackInv' /\ StoresInv'
  <1>1. PICK f : /\ frames' = <<f>> /\ f.step = "entered" /\ f.saved = Store
                 /\ CallIsChecked(policy, f)
                 /\ ~(/\ f.contract = "registry" /\ f.call.op = "pay"
                      /\ f.call.caller = Extension)
    <2>1. CASE \E c \in OutsideCalls : frames' = <<Frame(c[1], c[2])>>
      BY <2>1, OutsideFacts
    <2>2. CASE frames' = <<Frame("agent", [op |-> "drive"])>>
      BY <2>2 DEF Frame, CallIsChecked
    <2> QED BY <2>1, <2>2 DEF Begin
  <1>2. /\ Len(frames) = 0 /\ UNCHANGED <<bookVars, consumed>>
        /\ BooksSound(terms, policy, Store, Unpaid(frames, 0))
    BY DEF Begin, AtRest, storeVars, CallsInv, StoresInv
  <1>3. FramePushed(0, f)
    BY <1>1 DEF FramePushed
  <1>4. Unpaid(frames, 0) = {} /\ UnpaidBelow(frames', 0 + 1) = {}
    BY DEF Unpaid, UnpaidBelow, Under
  <1>5. frames'[0 + 1] = f /\ Len(frames') = 1
    BY <1>1
  <1>6. CallIsNested(frames', 0 + 1)
    BY <1>1, <1>5 DEF CallIsNested, Under
  <1> QED BY <1>1, <1>2, <1>3, <1>4, <1>6, PushIsSound

LEMMA CallsInvInit == FramesInit => CallsInv
  <1> SUFFICES ASSUME FramesInit PROVE CallsInv
    OBVIOUS
  <1>1. PolicyInv /\ FramesInv
    BY PolicyInit, FramesInvInit DEF FramesInit
  <1>2. frames = << >>
    BY DEF FramesInit
  <1>3. Unpaid(frames, Len(frames)) = {}
    BY <1>2 DEF Unpaid
  <1> QED BY <1>1, <1>2, <1>3, RestIsPolicyInv DEF CallsInv, StackInv, StoresInv

\* A transaction that makes no call.
LEMMA WithoutCallsIsSound ==
  ASSUME CallsInv, WithoutCalls
  PROVE  GroundInv' /\ StackInv' /\ StoresInv'
  <1>1. frames = << >> /\ frames' = frames
    BY DEF WithoutCalls, AtRest, frameVars
  <1>2. Unpaid(frames, Len(frames)) = {} /\ Unpaid(frames', Len(frames')) = {}
    BY <1>1 DEF Unpaid
  <1>3. PolicyInv
    BY <1>2, RestIsPolicyInv DEF CallsInv, StoresInv
  <1>4. Next
    BY DEF WithoutCalls, Next, RegistryStep
  <1>5. PolicyInv'
    BY <1>3, <1>4, PolicyInvStep
  <1>6. (PolicyInv <=> GroundInv /\ BooksSound(terms, policy, Store, {}))'
    BY RestIsPolicyInv, PTL
  <1>7. DOMAIN frames' = {}
    BY <1>1
  <1>8. StackInv'
    BY <1>7 DEF StackInv
  <1>9. BooksSound(terms', policy', Store', Unpaid(frames', Len(frames')))
    BY <1>2, <1>5, <1>6
  <1>10. StoresInv'
    BY <1>7, <1>9 DEF StoresInv
  <1> QED BY <1>5, <1>6, <1>8, <1>10

LEMMA CallsInvStep == CallsInv /\ [FramesNext]_<<vars, frameVars>> => CallsInv'
  <1> SUFFICES ASSUME CallsInv, [FramesNext]_<<vars, frameVars>> PROVE CallsInv'
    OBVIOUS
  <1>1. FramesInv'
    BY FramesInvStep DEF CallsInv
  <1>2. CASE InTransaction /\ UNCHANGED groundVars
    <2>1. StackInv' /\ StoresInv'
      BY <1>2, UnwindIsSound, HandleIsSound, InvokeIsSound, LeavingIsSound, CallOutIsSound
         DEF InTransaction, Fail
    <2> QED BY <1>1, <1>2, <2>1, GroundStays DEF CallsInv
  <1>3. CASE Begin /\ UNCHANGED groundVars
    BY <1>1, <1>3, BeginIsSound, GroundStays DEF CallsInv
  <1>4. CASE WithoutCalls
    BY <1>1, <1>4, WithoutCallsIsSound DEF CallsInv
  <1>5. CASE UNCHANGED <<vars, frameVars>>
    <2>1. /\ UNCHANGED groundVars /\ frames' = frames /\ Store' = Store
      BY <1>5 DEF vars, frameVars, registryVars, mandateVars, policyVars, tokenVars, groundVars,
                  Store
    <2>2. StackInv' /\ StoresInv'
      BY <2>1 DEF CallsInv, StackInv, StoresInv, groundVars
    <2> QED BY <1>1, <2>1, <2>2, GroundStays DEF CallsInv
  <1> QED BY <1>2, <1>3, <1>4, <1>5 DEF FramesNext, groundVars

LEMMA SameCount == \A S : Atomic!Cardinality(S) = Cardinality(S)
  BY DEF Atomic!Cardinality, Cardinality

LEMMA CommittedIsSound == CallsInv => PaymentsSurviveReentry
  <1> SUFFICES ASSUME CallsInv PROVE PaymentsSurviveReentry
    OBVIOUS
  <1>1. BooksSound(terms, policy, Committed, {}) /\ Committed.executing = {}
    <2>1. CASE AtRest
      <3>1. Len(frames) = 0
        BY <2>1 DEF AtRest
      <3>2. Unpaid(frames, Len(frames)) = {} /\ Locks(frames, Len(frames)) = {}
        BY <3>1 DEF Unpaid, Locks
      <3> QED BY <2>1, <3>2, StoreHas DEF Committed, CallsInv, StoresInv, FramesInv,
                 LocksMatchFrames, StoreFields
    <2>2. CASE ~AtRest
      <3>1. 1 \in DOMAIN frames
        BY <2>2, TopOfStack
      <3>2. UnpaidBelow(frames, 1) = {} /\ Locks(frames, 1 - 1) = {}
        BY DEF UnpaidBelow, Under, Locks
      <3> QED BY <2>2, <3>1, <3>2 DEF Committed, CallsInv, StoresInv, FramesInv,
                 LocksMatchFrames
    <2> QED BY <2>1, <2>2
  <1>2. Atomic!NoncesMatchPayments
    <2> SUFFICES ASSUME NEW m \in Mandates, Atomic!UsesExtension(m)
                 PROVE  Cardinality(Atomic!NoncesOf(m)) = Committed.seq[m]
      BY SameCount DEF Atomic!NoncesMatchPayments
    <2>1. Committed.seq[m] \in Nat
      BY <1>1, RegistryConstants DEF BooksSound
    <2>2. Cardinality({c \in Committed.consumed : c[1].mandate = m}) = Committed.seq[m] + 0
      BY <1>1 DEF BooksSound, Atomic!UsesExtension, Atomic!Registered
    <2> QED BY <2>1, <2>2 DEF Atomic!NoncesOf
  <1>3. Atomic!SpendWithinCaps
    BY <1>1 DEF BooksSound, Atomic!SpendWithinCaps, Atomic!UsesExtension, Atomic!Registered,
                Atomic!Installed
  <1> QED BY <1>1, <1>2, <1>3 DEF PaymentsSurviveReentry

\* Every store, the current one and those that may be taken back to, is sound.
THEOREM CallsInvariant == FramesSpec => []CallsInv
  BY CallsInvInit, CallsInvStep, PTL DEF FramesSpec

\* Whether or not the host admits re-entry, what a transaction leaves has no lock,
\* a nonce for every payment of the extension's, and spending within caps and
\* budgets: for any depth, any number of calls, and any token.
THEOREM ReentryIsHarmless == FramesSpec => []PaymentsSurviveReentry
  BY CallsInvariant, CommittedIsSound, PTL

--------------------------------------------------------------------------------
\* The books and the tokens within a transaction.  A registry frame that has
\* booked its payment, and whose token has not moved it, is ahead of the token by
\* just that.  What each frame found and what the frame above it found differ by
\* it and by nothing else; so the first frame and the end of the transaction do not
\* differ.

Naming(signed, a, u, w) ==
  {m \in Mandates : /\ signed[m] # NoTerms
                    /\ signed[m].asset = a /\ signed[m].user = u
                    /\ signed[m].merchant = w}

\* How far the books of a store are ahead of its tokens.
Ahead(signed, s, a, u, w) == Sum(s.spent, Naming(signed, a, u, w)) - s.drawn[a][u][w]

Balanced(signed, s) ==
  \A a \in Assets, u \in Users, w \in Payees : Ahead(signed, s, a, u, w) = 0

\* What a payment adds to the books of these parties.
PartOf(signed, call, a, u, w) ==
  IF call.mandate \in Naming(signed, a, u, w) THEN call.amount ELSE 0

Paying(f) == f.contract = "registry" /\ f.call.op = "pay"

\* The books of store t are ahead by what those of s are, and the payment when due.
Differ(signed, s, t, call, due) ==
  \A a \in Assets, u \in Users, w \in Payees :
    Ahead(signed, t, a, u, w) =
      IF due THEN Ahead(signed, s, a, u, w) + PartOf(signed, call, a, u, w)
             ELSE Ahead(signed, s, a, u, w)

\* The store the frame above i found, or now if there is none.
FoundAbove(stack, top, i) == IF i = Len(stack) THEN top ELSE stack[i + 1].saved

Linked(signed, stack, top, i) ==
  Differ(signed, stack[i].saved, FoundAbove(stack, top, i), stack[i].call,
         Paying(stack[i]) /\ (i = Len(stack) => stack[i].step = "calling"))

\* How far a frame of each kind can be.
StageIsRight(signed, f) ==
  /\ f.step # "entered" => f.contract \in {"extension", "registry"}
  /\ f.contract = "registry" /\ f.step = "calling" => f.call.op = "pay"
  /\ Paying(f) /\ f.step # "entered" => signed[f.call.mandate] # NoTerms

\* A token is called by a registry, and for the payment it has booked.
TokenIsNested(stack, i) ==
  /\ stack[i].contract = "token" <=> Under(stack, i, "registry")
  /\ Under(stack, i, "registry") =>
       stack[i - 1].call.op = "pay" /\ stack[i].call = stack[i - 1].call

DrawnTyped(s) == s.drawn \in [Assets -> [Users -> [Payees -> Int]]]

ChainInv ==
  /\ DrawnTyped(Store)
  /\ Balanced(terms, Committed)
  /\ \A i \in DOMAIN frames :
       /\ StageIsRight(terms, frames[i])
       /\ TokenIsNested(frames, i)
       /\ DrawnTyped(frames[i].saved)
       /\ Linked(terms, frames, Store, i)

LEMMA NamingFinite ==
  ASSUME NEW signed, NEW a, NEW u, NEW w
  PROVE  /\ IsFiniteSet(Naming(signed, a, u, w))
         /\ Naming(signed, a, u, w) \subseteq Mandates
  BY RegistryConstants, FS_Subset DEF Naming

\* What a store is ahead by is a number.
LEMMA AheadIsInt ==
  ASSUME NEW signed, NEW s, s.spent \in [Mandates -> Nat], DrawnTyped(s),
         NEW a \in Assets, NEW u \in Users, NEW w \in Payees
  PROVE  /\ Sum(s.spent, Naming(signed, a, u, w)) \in Int /\ s.drawn[a][u][w] \in Int
         /\ Ahead(signed, s, a, u, w) \in Int
  <1> DEFINE S == Naming(signed, a, u, w)
  <1>1. IsFiniteSet(S) /\ \A k \in S : s.spent[k] \in Int
    BY NamingFinite
  <1> HIDE DEF S
  <1>2. Sum(s.spent, S) \in Int
    BY <1>1, SumPick
  <1>3. s.drawn[a][u][w] \in Int
    BY DEF DrawnTyped
  <1> QED BY <1>2, <1>3 DEF Ahead, S

\* Equal books and equal tokens are equally far apart.
LEMMA AheadAlike ==
  ASSUME NEW signed, NEW s, NEW t, t.spent = s.spent, t.drawn = s.drawn
  PROVE  \A a, u, w : Ahead(signed, t, a, u, w) = Ahead(signed, s, a, u, w)
  BY DEF Ahead

LEMMA StoreHasTokens ==
  /\ Store.spent = spent /\ Store.drawn = drawn
  /\ Store'.spent = spent' /\ Store'.drawn = drawn'
  BY DEF Store

\* Positions below the top one.
LEMMA Below ==
  ASSUME NEW n \in Nat, n >= 1
  PROVE  /\ n - 1 \in 0..n - 1
         /\ n - 1 > 0 => n # 1
         /\ n - 1 = 0 => n = 1
         /\ n # 1 => n - 1 \in 1..n /\ n - 1 # n /\ n - 1 < n /\ (n - 1) + 1 = n
         /\ \A k \in 0..n - 1 : /\ k + 1 \in 1..n
                                /\ k > 0 => k \in 1..n /\ k # n
  OBVIOUS

LEMMA CutStack ==
  ASSUME CallsInv, NEW k \in 0..Len(frames) - 1, frames' = SubSeq(frames, 1, k)
  PROVE  LET n == Len(frames)
         IN  /\ n \in Nat /\ DOMAIN frames = 1..n /\ n >= 1
             /\ Len(frames') = k /\ DOMAIN frames' = 1..k
             /\ \A i \in 1..k : /\ frames'[i] = frames[i] /\ i \in 1..n /\ i < n
                                /\ i > 1 => i - 1 \in 1..k
                                /\ i # k => i + 1 \in 1..k
  <1>1. /\ Len(frames) \in Nat /\ DOMAIN frames = 1..Len(frames)
        /\ frames \in Seq({frames[i] : i \in DOMAIN frames})
    BY StackFacts DEF CallsInv
  <1>2. /\ Len(frames') = k /\ DOMAIN frames' = 1..k
        /\ \A i \in 1..k : frames'[i] = frames[i]
    BY <1>1
  <1>3. \A i \in 1..k : /\ i \in 1..Len(frames) /\ i < Len(frames)
                        /\ i > 1 => i - 1 \in 1..k
                        /\ i # k => i + 1 \in 1..k
    BY <1>1
  <1>4. Len(frames) >= 1
    BY <1>1
  <1> QED BY <1>1, <1>2, <1>3, <1>4

LEMMA EmptyOrNot ==
  ASSUME CallsInv
  PROVE  /\ AtRest <=> Len(frames) = 0
         /\ ~AtRest => 1 \in DOMAIN frames
  BY StackFacts DEF CallsInv, AtRest

\* Frames are taken off, and what is left is the new top frame's own.
LEMMA CutKeepsChain ==
  ASSUME CallsInv, ChainInv, UNCHANGED groundVars,
         NEW k \in 0..Len(frames) - 1, frames' = SubSeq(frames, 1, k),
         DrawnTyped(Store'),
         k = 0 => Balanced(terms, Store'),
         k > 0 => Differ(terms, frames[k].saved, Store', frames[k].call, FALSE)
  PROVE  ChainInv'
  <1> DEFINE n == Len(frames)
  <1>1. /\ n \in Nat /\ DOMAIN frames = 1..n /\ n >= 1
        /\ Len(frames') = k /\ DOMAIN frames' = 1..k
        /\ \A i \in 1..k : /\ frames'[i] = frames[i] /\ i \in 1..n /\ i < n
                           /\ i > 1 => i - 1 \in 1..k
                           /\ i # k => i + 1 \in 1..k
    BY CutStack
  <1>2. terms' = terms
    BY DEF groundVars
  <1>3. ~AtRest
    BY <1>1, EmptyOrNot
  <1>4. Balanced(terms, Committed')
    <2>1. CASE k = 0
      <3>1. frames' = << >>
        BY <1>1, <2>1
      <3> QED BY <2>1, <3>1 DEF Committed, AtRest
    <2>2. CASE k > 0
      <3>1. 1 \in 1..k /\ frames' # << >>
        BY <1>1, <2>2
      <3>2. frames'[1].saved = frames[1].saved
        BY <1>1, <3>1
      <3>3. Committed' = Committed
        BY <1>3, <3>1, <3>2 DEF Committed, AtRest
      <3> QED BY <3>3 DEF ChainInv
    <2> QED BY <2>1, <2>2
  <1>5. ASSUME NEW i \in 1..k
        PROVE  /\ StageIsRight(terms, frames'[i]) /\ TokenIsNested(frames', i)
               /\ DrawnTyped(frames'[i].saved)
    <2>1. /\ StageIsRight(terms, frames[i]) /\ TokenIsNested(frames, i)
          /\ DrawnTyped(frames[i].saved)
      BY <1>1 DEF ChainInv
    <2>2. TokenIsNested(frames', i)
      BY <1>1, <2>1 DEF TokenIsNested, Under
    <2> QED BY <1>1, <2>1, <2>2
  <1>6. ASSUME NEW i \in 1..k PROVE Linked(terms, frames', Store', i)
    <2>1. Linked(terms, frames, Store, i) /\ frames'[i] = frames[i]
      BY <1>1 DEF ChainInv
    <2>2. CASE i # k
      <3>1. /\ frames'[i + 1] = frames[i + 1] /\ i # Len(frames) /\ i # Len(frames')
        BY <1>1, <2>2
      <3>2. FoundAbove(frames', Store', i) = FoundAbove(frames, Store, i)
        BY <3>1 DEF FoundAbove
      <3> QED BY <2>1, <3>1, <3>2 DEF Linked
    <2>3. CASE i = k
      <3>1. k > 0 /\ FoundAbove(frames', Store', i) = Store'
        BY <1>1, <2>3 DEF FoundAbove
      <3>2. Paying(frames[i]) => frames[i].step # "calling"
        BY <1>1 DEF CallsInv, StackInv, CallIsNested, Paying
      <3>3. ~(Paying(frames'[i]) /\ (i = Len(frames') => frames'[i].step = "calling"))
        BY <1>1, <2>1, <2>3, <3>2
      <3> QED BY <2>1, <2>3, <3>1, <3>3 DEF Linked, Differ
    <2> QED BY <2>2, <2>3
  <1> QED BY <1>1, <1>2, <1>4, <1>5, <1>6 DEF ChainInv

\* A failing call takes the books back together with the tokens.
LEMMA UnwindKeepsChain ==
  ASSUME CallsInv, ChainInv, ~AtRest, UNCHANGED groundVars, Unwind
  PROVE  ChainInv'
  <1>1. PICK kept \in 0..Len(frames) - 1 :
          /\ kept > 0 => Catches(frames[kept])
          /\ frames' = SubSeq(frames, 1, kept)
          /\ Rollback(frames[kept + 1].saved)
    BY DEF Unwind
  <1> DEFINE s == frames[kept + 1].saved
  <1>2. /\ kept + 1 \in DOMAIN frames
        /\ kept > 0 => kept \in DOMAIN frames /\ kept # Len(frames)
    <2> DEFINE n == Len(frames)
    <2>1. n \in Nat /\ n >= 1 /\ DOMAIN frames = 1..n
      BY TopOfStack
    <2> HIDE DEF n
    <2>2. kept + 1 \in 1..n /\ (kept > 0 => kept \in 1..n /\ kept # n)
      <3>1. kept \in 0..n - 1
        BY DEF n
      <3> QED BY <2>1, <3>1, Below
    <2> QED BY <2>1, <2>2 DEF n
  <1>3. Store'.spent = s.spent /\ Store'.drawn = s.drawn
    BY <1>1, StoreHasTokens DEF Rollback
  <1>4. DrawnTyped(s)
    BY <1>2 DEF ChainInv
  <1> HIDE DEF s
  <1>5. DrawnTyped(Store') /\ \A a, u, w : Ahead(terms, Store', a, u, w) = Ahead(terms, s, a, u, w)
    BY <1>3, <1>4, AheadAlike DEF DrawnTyped
  <1>6. kept = 0 => Balanced(terms, Store')
    <2>1. kept = 0 => s = Committed
      BY DEF Committed, s
    <2> QED BY <1>5, <2>1 DEF ChainInv, Balanced
  <1>7. ASSUME kept > 0
        PROVE  Differ(terms, frames[kept].saved, Store', frames[kept].call, FALSE)
    <2>1. Linked(terms, frames, Store, kept) /\ FoundAbove(frames, Store, kept) = s
      BY <1>2, <1>7 DEF ChainInv, FoundAbove, s
    <2>2. ~Paying(frames[kept])
      BY <1>1, <1>7 DEF Paying, Catches, Untrusted
    <2> QED BY <1>5, <2>1, <2>2 DEF Linked, Differ
  <1> QED BY <1>1, <1>5, <1>6, <1>7, CutKeepsChain

\* A transfer moves its amount between the parties of its mandate.
LEMMA TransferFlow ==
  ASSUME NEW m \in Mandates, terms[m] # NoTerms, NEW amount \in Int,
         NEW a, NEW u, NEW w
  PROVE  Flow(Transfer(m, amount), a, u, w) =
           IF m \in Naming(terms, a, u, w) THEN amount ELSE 0
  <1> DEFINE batch == Transfer(m, amount)
             legs == {k \in DOMAIN batch : /\ batch[k].asset = a
                                           /\ batch[k].from = u
                                           /\ batch[k].to = w}
             d == [k \in {m} |-> amount]
  <1>1. Flow(batch, a, u, w) = SumOfAmounts(batch, legs)
    BY DEF Flow, SumOfAmounts
  <1>2. legs = (IF m \in Naming(terms, a, u, w) THEN {m} ELSE {})
    BY DEF Transfer, Naming
  <1>3. \A k \in legs : batch[k].amount = d[k]
    BY DEF Transfer
  <1>4. d[m] = amount
    OBVIOUS
  <1> HIDE DEF batch, legs, d
  <1>5. SumOfAmounts(batch, legs) = Sum(d, legs)
    BY <1>3, AmountsAgree
  <1>6. Sum(d, {m}) = amount /\ Sum(d, {}) = 0
    BY <1>4, SumOfOne, SumOfNone
  <1> QED BY <1>1, <1>2, <1>5, <1>6 DEF batch

\* What is known of the top frame and of the one below it.
LEMMA TopOfChain ==
  ASSUME CallsInv, ChainInv, ~AtRest
  PROVE  LET n == Len(frames)
         IN  /\ StageIsRight(terms, Top) /\ TokenIsNested(frames, n)
             /\ spent \in [Mandates -> Nat]
             /\ frames[n].saved.spent \in [Mandates -> Nat]
             /\ DrawnTyped(Store) /\ DrawnTyped(frames[n].saved)
             /\ Differ(terms, frames[n].saved, Store, Top.call,
                       Paying(Top) /\ Top.step = "calling")
             /\ n = 1 => Balanced(terms, frames[1].saved)
             /\ n # 1 => /\ n - 1 \in DOMAIN frames
                         /\ frames[n - 1].saved.spent \in [Mandates -> Nat]
                         /\ DrawnTyped(frames[n - 1].saved)
                         /\ StageIsRight(terms, frames[n - 1])
                         /\ CallIsChecked(policy, frames[n - 1])
                         /\ frames[n - 1].contract \in {"extension", "registry"} =>
                              frames[n - 1].step = "waiting"
                         /\ Differ(terms, frames[n - 1].saved, frames[n].saved,
                                   frames[n - 1].call, Paying(frames[n - 1]))
  <1> DEFINE n == Len(frames)
  <1>1. /\ n \in Nat /\ n >= 1 /\ n \in DOMAIN frames /\ DOMAIN frames = 1..n
        /\ Top = frames[n]
    BY TopOfStack
  <1>2. ASSUME NEW i \in DOMAIN frames
        PROVE  /\ StageIsRight(terms, frames[i]) /\ TokenIsNested(frames, i)
               /\ DrawnTyped(frames[i].saved) /\ Linked(terms, frames, Store, i)
               /\ CallIsChecked(policy, frames[i]) /\ CallIsNested(frames, i)
               /\ frames[i].saved.spent \in [Mandates -> Nat]
    BY DEF ChainInv, CallsInv, StackInv, StoresInv, BooksSound
  <1>3. spent \in [Mandates -> Nat] /\ DrawnTyped(Store)
    BY StoreHasTokens DEF ChainInv, CallsInv, StoresInv, BooksSound
  <1>4. Differ(terms, frames[n].saved, Store, Top.call, Paying(Top) /\ Top.step = "calling")
    BY <1>1, <1>2 DEF Linked, FoundAbove
  <1>5. n = 1 => Balanced(terms, frames[1].saved)
    BY DEF ChainInv, Committed
  <1>6. ASSUME n # 1
        PROVE  /\ n - 1 \in DOMAIN frames
               /\ frames[n - 1].contract \in {"extension", "registry"} =>
                    frames[n - 1].step = "waiting"
               /\ Differ(terms, frames[n - 1].saved, frames[n].saved,
                         frames[n - 1].call, Paying(frames[n - 1]))
    <2>1. /\ n - 1 \in DOMAIN frames /\ n - 1 # n /\ n - 1 < n /\ (n - 1) + 1 = n
      <3> HIDE DEF n
      <3> QED BY <1>1, <1>6, Below
    <2>2. Linked(terms, frames, Store, n - 1) /\ CallIsNested(frames, n - 1)
      BY <1>2, <2>1
    <2>3. FoundAbove(frames, Store, n - 1) = frames[n].saved
      BY <2>1 DEF FoundAbove
    <2>4. frames[n - 1].contract \in {"extension", "registry"} =>
            frames[n - 1].step = "waiting"
      BY <2>1, <2>2 DEF CallIsNested
    <2>5. Differ(terms, frames[n - 1].saved, frames[n].saved,
                 frames[n - 1].call, Paying(frames[n - 1]))
      BY <2>1, <2>2, <2>3 DEF Linked, Differ
    <2> QED BY <2>1, <2>4, <2>5
  <1> QED BY <1>1, <1>2, <1>3, <1>4, <1>5, <1>6

\* The top frame answers: a registry or an extension that has waited, an agent,
\* or a token, which moves what the registry below it had booked.
LEMMA LeavingKeepsChain ==
  ASSUME CallsInv, ChainInv, ~AtRest, UNCHANGED groundVars,
         Return \/ MoveAndReturn \/ Finish
  PROVE  ChainInv'
  <1> DEFINE n == Len(frames)
             s == frames[n].saved
             r == frames[n - 1]
  <1>1. /\ frames' = SubSeq(frames, 1, n - 1) /\ n \in Nat /\ n >= 1
        /\ n - 1 \in 0..n - 1 /\ Top = frames[n]
        /\ n - 1 > 0 => n # 1
        /\ n - 1 = 0 => n = 1
    <2>1. n \in Nat /\ n >= 1 /\ Top = frames[n]
      BY TopOfStack
    <2>2. frames' = SubSeq(frames, 1, n - 1)
      BY DEF Return, MoveAndReturn, Finish, Front
    <2> HIDE DEF n
    <2> QED BY <2>1, <2>2, Below
  <1>2. /\ StageIsRight(terms, Top) /\ TokenIsNested(frames, n)
        /\ spent \in [Mandates -> Nat] /\ s.spent \in [Mandates -> Nat]
        /\ DrawnTyped(Store) /\ DrawnTyped(s)
        /\ Differ(terms, s, Store, Top.call, Paying(Top) /\ Top.step = "calling")
        /\ n = 1 => Balanced(terms, s)
        /\ n # 1 => /\ r.saved.spent \in [Mandates -> Nat] /\ DrawnTyped(r.saved)
                    /\ StageIsRight(terms, r) /\ CallIsChecked(policy, r)
                    /\ r.contract \in {"extension", "registry"} => r.step = "waiting"
                    /\ Differ(terms, r.saved, s, r.call, Paying(r))
    BY TopOfChain
  <1>3. ASSUME NEW a \in Assets, NEW u \in Users, NEW w \in Payees
        PROVE  /\ Ahead(terms, s, a, u, w) \in Int /\ Ahead(terms, Store, a, u, w) \in Int
               /\ n # 1 => Ahead(terms, r.saved, a, u, w) \in Int
    BY <1>2, StoreHasTokens, AheadIsInt
  <1>4. spent' = spent
    BY DEF Return, MoveAndReturn, Finish, storeVars, bookVars, Writes, RegistryWrites,
           ExtensionWrites
  <1> HIDE DEF s, r
  <1>5. CASE Return \/ Finish
    <2>1. drawn' = drawn
      BY <1>5 DEF Return, Finish, storeVars, Writes
    <2>2. Top.contract # "token" /\ ~(Paying(Top) /\ Top.step = "calling")
      BY <1>2, <1>5 DEF Return, Finish, StageIsRight, Paying
    <2>3. \A a, u, w : Ahead(terms, Store', a, u, w) = Ahead(terms, Store, a, u, w)
      BY <1>4, <2>1, StoreHasTokens, AheadAlike
    <2>4. \A a \in Assets, u \in Users, w \in Payees :
            Ahead(terms, Store', a, u, w) = Ahead(terms, s, a, u, w)
      BY <1>2, <1>3, <2>2, <2>3 DEF Differ
    <2>5. DrawnTyped(Store')
      BY <1>2, <2>1, StoreHasTokens DEF DrawnTyped
    <2>6. n = 1 => Balanced(terms, Store')
      BY <1>2, <2>4 DEF Balanced
    <2>7. ASSUME n # 1 PROVE Differ(terms, r.saved, Store', r.call, FALSE)
      <3>1. ~Under(frames, n, "registry")
        BY <1>1, <1>2, <2>2 DEF TokenIsNested
      <3>2. ~Paying(r)
        <4> HIDE DEF n
        <4>1. n > 1
          BY <1>1, <2>7
        <4> QED BY <3>1, <4>1 DEF Under, Paying, r
      <3>3. Differ(terms, r.saved, s, r.call, Paying(r))
        BY <1>2, <2>7
      <3> QED BY <2>4, <3>2, <3>3 DEF Differ
    <2>8. /\ n - 1 = 0 => Balanced(terms, Store')
          /\ n - 1 > 0 => Differ(terms, frames[n - 1].saved, Store',
                                 frames[n - 1].call, FALSE)
      BY <1>1, <2>6, <2>7, Zenon DEF r
    <2> QED BY <1>1, <2>5, <2>8, CutKeepsChain, Zenon
  <1>6. CASE MoveAndReturn
    <2> DEFINE m == Top.call.mandate
               amount == Top.call.amount
    <2>1. Top.contract = "token" /\ ~Paying(Top)
      BY <1>6 DEF MoveAndReturn, Paying
    <2>2. /\ n # 1 /\ r.contract = "registry" /\ r.call.op = "pay" /\ Top.call = r.call
          /\ Paying(r) /\ r.step = "waiting"
      BY <1>1, <1>2, <2>1 DEF TokenIsNested, Under, r, Paying
    <2>3. m \in Mandates /\ amount \in Int /\ terms[m] # NoTerms
      BY <1>2, <2>2, RegistryConstants DEF CallIsChecked, StageIsRight
    <2>4. drawn' = [a \in Assets |-> [u \in Users |-> [w \in Payees |->
                      drawn[a][u][w] + Flow(Transfer(m, amount), a, u, w)]]]
      BY <1>6 DEF MoveAndReturn, Settle
    <2> HIDE DEF m, amount
    <2>5. ASSUME NEW a \in Assets, NEW u \in Users, NEW w \in Payees
          PROVE  /\ drawn'[a][u][w] \in Int
                 /\ Ahead(terms, Store', a, u, w) = Ahead(terms, r.saved, a, u, w)
      <3> DEFINE S == Naming(terms, a, u, w)
                 part == IF m \in S THEN amount ELSE 0
      <3>1. drawn'[a][u][w] = drawn[a][u][w] + part /\ part \in Int
        BY <2>3, <2>4, TransferFlow
      <3>2. /\ Ahead(terms, Store, a, u, w) = Ahead(terms, s, a, u, w)
            /\ Ahead(terms, s, a, u, w) = Ahead(terms, r.saved, a, u, w) + part
        BY <1>2, <2>1, <2>2 DEF Differ, PartOf, m, amount
      <3>3. Sum(spent, S) \in Int /\ drawn[a][u][w] \in Int
        BY <1>2, StoreHasTokens, AheadIsInt
      <3> HIDE DEF S, part
      <3>4. /\ Ahead(terms, Store, a, u, w) = Sum(spent, S) - drawn[a][u][w]
            /\ Ahead(terms, Store', a, u, w) = Sum(spent, S) - drawn'[a][u][w]
        BY <1>4, StoreHasTokens DEF Ahead, S
      <3>5. Ahead(terms, r.saved, a, u, w) \in Int
        BY <1>3, <2>2
      <3> DEFINE x == Sum(spent, S)
                 y == drawn[a][u][w]
                 z == drawn'[a][u][w]
                 b == Ahead(terms, r.saved, a, u, w)
                 c == Ahead(terms, Store', a, u, w)
      <3>6. /\ z = y + part /\ part \in Int /\ x \in Int /\ y \in Int /\ b \in Int
            /\ x - y = b + part /\ c = x - z
        BY <3>1, <3>2, <3>3, <3>4, <3>5
      <3> HIDE DEF x, y, z, b, c
      <3>7. z \in Int /\ c = b
        BY <3>6
      <3> QED BY <3>7 DEF z, b, c
    <2>6. DrawnTyped(Store')
      BY <2>4, <2>5, StoreHasTokens DEF DrawnTyped
    <2>7. Differ(terms, r.saved, Store', r.call, FALSE)
      BY <2>5 DEF Differ
    <2>8. /\ n - 1 = 0 => Balanced(terms, Store')
          /\ n - 1 > 0 => Differ(terms, frames[n - 1].saved, Store',
                                 frames[n - 1].call, FALSE)
      BY <1>1, <2>2, <2>7, Zenon DEF r
    <2> QED BY <1>1, <2>6, <2>8, CutKeepsChain, Zenon
  <1> QED BY <1>5, <1>6

\* The top frame moves on, and its books are ahead by its payment if it booked one.
LEMMA MoveKeepsChain ==
  ASSUME CallsInv, ChainInv, ~AtRest, UNCHANGED groundVars, Top.step = "entered",
         NEW step \in {"calling", "waiting"}, frames' = At(step),
         DrawnTyped(Store'),
         StageIsRight(terms, [Top EXCEPT !.step = step]),
         Differ(terms, Store, Store', Top.call, Paying(Top) /\ step = "calling")
  PROVE  ChainInv'
  <1> DEFINE n == Len(frames)
             g == [Top EXCEPT !.step = step]
  <1>1. /\ n \in Nat /\ n >= 1 /\ n \in DOMAIN frames /\ DOMAIN frames = 1..n
        /\ Top = frames[n] /\ FrameShape(Top)
    BY TopOfStack
  <1>2. /\ g.contract = Top.contract /\ g.call = Top.call /\ g.saved = Top.saved
        /\ g.step = step
    BY <1>1 DEF FrameShape
  <1>3. frames' = [frames EXCEPT ![Len(frames)] = g]
    BY <1>1 DEF At
  <1>4. StageIsRight(terms, g)
    OBVIOUS
  <1> HIDE DEF g
  <1>5. /\ Len(frames') = n /\ DOMAIN frames' = 1..n /\ frames'[n] = g
        /\ \A i \in 1..n - 1 : frames'[i] = frames[i]
    BY <1>1, <1>3, StackFacts DEF CallsInv
  <1> HIDE DEF n
  <1>6. \A i \in 1..n : /\ i = n \/ (i \in 1..n - 1 /\ i # n /\ i + 1 \in 1..n)
                        /\ i > 1 => i - 1 \in 1..n
    BY <1>1
  <1>7. \A i \in 1..n : /\ frames'[i].contract = frames[i].contract
                        /\ frames'[i].call = frames[i].call
                        /\ frames'[i].saved = frames[i].saved
    BY <1>1, <1>2, <1>5, <1>6
  <1>8. terms' = terms
    BY DEF groundVars
  <1>9. Balanced(terms, Committed')
    <2>1. /\ 1 \in 1..n /\ ~AtRest /\ frames' # << >>
      BY <1>1, <1>5
    <2>2. Committed' = Committed
      BY <1>7, <2>1 DEF Committed, AtRest
    <2> QED BY <2>2 DEF ChainInv
  <1>10. ASSUME NEW i \in 1..n
         PROVE  /\ StageIsRight(terms, frames[i]) /\ TokenIsNested(frames, i)
                /\ DrawnTyped(frames[i].saved) /\ Linked(terms, frames, Store, i)
    BY <1>1 DEF ChainInv
  <1>11. ASSUME NEW i \in 1..n
         PROVE  /\ StageIsRight(terms, frames'[i]) /\ TokenIsNested(frames', i)
                /\ DrawnTyped(frames'[i].saved)
    <2>1. StageIsRight(terms, frames'[i])
      BY <1>4, <1>5, <1>6, <1>10
    <2>2. TokenIsNested(frames', i)
      BY <1>6, <1>7, <1>10 DEF TokenIsNested, Under
    <2> QED BY <1>7, <1>10, <2>1, <2>2
  <1>12. ASSUME NEW i \in 1..n PROVE Linked(terms, frames', Store', i)
    <2>1. CASE i = n
      <3>1. /\ FoundAbove(frames', Store', i) = Store' /\ FoundAbove(frames, Store, i) = Store
            /\ i = Len(frames) /\ i = Len(frames')
        BY <1>5, <2>1 DEF FoundAbove, n
      <3>2. Differ(terms, frames[i].saved, Store, frames[i].call, FALSE)
        BY <1>1, <1>10, <2>1, <3>1 DEF Linked, Differ
      <3>3. Differ(terms, frames'[i].saved, Store', frames'[i].call,
                   Paying(Top) /\ step = "calling")
        BY <1>1, <1>7, <2>1, <3>2 DEF Differ
      <3>4. Paying(frames'[i]) <=> Paying(Top)
        BY <1>1, <1>7, <2>1 DEF Paying
      <3>5. frames'[i].step = step
        BY <1>2, <1>5, <2>1
      <3> QED BY <3>1, <3>3, <3>4, <3>5 DEF Linked, Differ
    <2>2. CASE i # n
      <3>1. i \in 1..n - 1 /\ i + 1 \in 1..n
        BY <1>6, <2>2
      <3>2. frames'[i] = frames[i] /\ frames'[i + 1].saved = frames[i + 1].saved
        BY <1>5, <1>7, <3>1
      <3>3. i # Len(frames) /\ i # Len(frames')
        BY <1>5, <2>2 DEF n
      <3>4. FoundAbove(frames', Store', i) = FoundAbove(frames, Store, i)
        BY <3>2, <3>3 DEF FoundAbove
      <3> QED BY <1>10, <3>2, <3>3, <3>4 DEF Linked
    <2> QED BY <2>1, <2>2
  <1> QED BY <1>5, <1>8, <1>9, <1>11, <1>12 DEF ChainInv

\* A payment that is booked puts the books ahead by its amount.
LEMMA BookingPutsAhead ==
  ASSUME NEW m \in Mandates, NEW amount \in Int, BookPayment(m, amount), drawn' = drawn,
         spent \in [Mandates -> Nat], DrawnTyped(Store),
         NEW call, call.mandate = m, call.amount = amount
  PROVE  Differ(terms, Store, Store', call, TRUE)
  <1> SUFFICES ASSUME NEW a \in Assets, NEW u \in Users, NEW w \in Payees
               PROVE  Ahead(terms, Store', a, u, w) =
                        Ahead(terms, Store, a, u, w) + PartOf(terms, call, a, u, w)
    BY DEF Differ
  <1> DEFINE S == Naming(terms, a, u, w)
  <1>1. IsFiniteSet(S) /\ S \subseteq Mandates
    BY NamingFinite
  <1>2. Sum(spent, S) \in Int /\ drawn[a][u][w] \in Int
    BY StoreHasTokens, AheadIsInt
  <1> HIDE DEF S
  <1>3. /\ \A k \in S : spent[k] \in Int
        /\ \A k \in S \ {m} : spent'[k] = spent[k]
        /\ m \in S => spent'[m] = spent[m] + amount
    BY <1>1 DEF BookPayment
  <1>4. Sum(spent', S) = Sum(spent, S) + (IF m \in S THEN amount ELSE 0)
    BY <1>1, <1>3, SumOneChanges
  <1>5. /\ Ahead(terms, Store, a, u, w) = Sum(spent, S) - drawn[a][u][w]
        /\ Ahead(terms, Store', a, u, w) = Sum(spent', S) - drawn[a][u][w]
        /\ PartOf(terms, call, a, u, w) = IF m \in S THEN amount ELSE 0
    BY StoreHasTokens DEF Ahead, PartOf, S
  <1> QED BY <1>2, <1>4, <1>5

LEMMA HandleKeepsChain ==
  ASSUME CallsInv, ChainInv, ~AtRest, UNCHANGED groundVars, Handle
  PROVE  ChainInv'
  <1>1. CASE ~Accepts(Top)
    BY <1>1, UnwindKeepsChain DEF Handle
  <1>2. CASE Accepts(Top)
    <2> DEFINE step == IF Top.contract = "registry" /\ Top.call.op = "revoke"
                       THEN "waiting" ELSE "calling"
               g == [Top EXCEPT !.step = step]
    <2>1. /\ Top.contract \in {"extension", "registry"} /\ Top.step = "entered"
          /\ frames' = At(step) /\ Writes(Top, "before") /\ step \in {"calling", "waiting"}
      BY <1>2 DEF Handle
    <2>2. /\ CallIsChecked(policy, Top) /\ FrameShape(Top) /\ spent \in [Mandates -> Nat]
          /\ DrawnTyped(Store)
      BY TopOfStack, TopOfChain
    <2>3. drawn' = drawn
      BY <2>1 DEF Writes
    <2>4. DrawnTyped(Store')
      BY <2>2, <2>3, StoreHasTokens DEF DrawnTyped
    <2>5. g.contract = Top.contract /\ g.call = Top.call /\ g.step = step
      BY <2>2 DEF FrameShape
    <2>6. Top.contract = "registry" => Top.call.op \in {"pay", "revoke"}
      BY <2>2 DEF CallIsChecked
    <2>7. Paying(Top) => terms[Top.call.mandate] # NoTerms
      BY <1>2 DEF Accepts, Paying, PaymentAccepted, Registered
    <2> HIDE DEF g
    <2>8. StageIsRight(terms, g)
      BY <2>1, <2>5, <2>6, <2>7 DEF StageIsRight, Paying
    <2>9. Differ(terms, Store, Store', Top.call, Paying(Top) /\ step = "calling")
      <3>1. CASE Paying(Top)
        <4>1. /\ BookPayment(Top.call.mandate, Top.call.amount) /\ step = "calling"
              /\ Top.call.mandate \in Mandates /\ Top.call.amount \in Int
          BY <2>1, <2>2, <3>1, RegistryConstants
             DEF Paying, Writes, RegistryWrites, CallIsChecked
        <4>2. Differ(terms, Store, Store', Top.call, TRUE)
          BY <2>2, <2>3, <4>1, BookingPutsAhead
        <4> QED BY <3>1, <4>1, <4>2 DEF Differ
      <3>2. CASE ~Paying(Top)
        <4>1. spent' = spent
          BY <2>1, <3>2 DEF Paying, Writes, RegistryWrites, bookVars
        <4>2. \A a, u, w : Ahead(terms, Store', a, u, w) = Ahead(terms, Store, a, u, w)
          BY <2>3, <4>1, StoreHasTokens, AheadAlike
        <4> QED BY <3>2, <4>2 DEF Differ
      <3> QED BY <3>1, <3>2
    <2> HIDE DEF step
    <2> QED BY <2>1, <2>4, <2>8, <2>9, MoveKeepsChain DEF g
  <1> QED BY <1>1, <1>2

\* A frame is pushed: it found the store as it is, ahead by the payment of the
\* registry that calls it if there is one.
LEMMA PushKeepsChain ==
  ASSUME CallsInv, ChainInv, UNCHANGED groundVars, spent' = spent, drawn' = drawn,
         NEW n, n = Len(frames), NEW f, FramePushed(n, f), f.step = "entered", f.saved = Store,
         n > 0 => /\ StageIsRight(terms, frames'[n])
                  /\ Paying(frames[n]) => frames[n].step = "calling",
         TokenIsNested(frames', n + 1)
  PROVE  ChainInv'
  <1>1. n \in Nat /\ DOMAIN frames = 1..n
    BY StackFacts DEF CallsInv
  <1>2. /\ \A i \in 1..n + 1 : i = n + 1 \/ i \in 1..n
        /\ \A i \in 1..n : /\ n > 0 /\ (i < n \/ i = n)
                          /\ i > 1 => i - 1 \in 1..n /\ i - 1 < n
        /\ \A i \in 1..n : i # n + 1 /\ (i # n => i + 1 \in 1..n)
        /\ 1 \in 1..n + 1
    <2>1. \A i \in 1..n : i # n + 1 /\ (i # n => i + 1 \in 1..n)
      BY <1>1
    <2>2. 1 \in 1..n + 1
      BY <1>1
    <2> QED BY <1>1, <2>1, <2>2, Positions
  <1>3. terms' = terms
    BY DEF groundVars
  <1>4. ASSUME NEW i \in 1..n
        PROVE  /\ StageIsRight(terms, frames[i]) /\ TokenIsNested(frames, i)
               /\ DrawnTyped(frames[i].saved) /\ Linked(terms, frames, Store, i)
    BY <1>1 DEF ChainInv
  <1>5. /\ DrawnTyped(Store) /\ DrawnTyped(Store')
        /\ \A a, u, w : Ahead(terms, Store', a, u, w) = Ahead(terms, Store, a, u, w)
    BY StoreHasTokens, AheadAlike DEF ChainInv, DrawnTyped
  <1>6. Balanced(terms, Committed')
    <2>1. frames' # << >>
      BY <1>2 DEF FramePushed
    <2>2. CASE n = 0
      <3>1. frames'[1] = f
        BY <2>2 DEF FramePushed
      <3>2. Committed' = Store /\ Committed = Store
        BY <2>1, <2>2, <3>1, EmptyOrNot DEF Committed, AtRest
      <3> QED BY <3>2 DEF ChainInv
    <2>3. CASE n # 0
      <3>1. 1 \in 1..n /\ ~AtRest
        BY <1>1, <2>3, EmptyOrNot
      <3>2. Committed' = Committed
        BY <2>1, <3>1 DEF Committed, AtRest, FramePushed
      <3> QED BY <3>2 DEF ChainInv
    <2> QED BY <2>2, <2>3
  <1>7. ASSUME NEW i \in 1..n + 1
        PROVE  /\ StageIsRight(terms, frames'[i]) /\ TokenIsNested(frames', i)
               /\ DrawnTyped(frames'[i].saved)
    <2>1. CASE i = n + 1
      <3>1. frames'[i] = f
        BY <2>1 DEF FramePushed
      <3> QED BY <1>5, <2>1, <3>1 DEF StageIsRight
    <2>2. CASE i \in 1..n
      <3>1. StageIsRight(terms, frames'[i])
        BY <1>2, <1>4, <2>2 DEF FramePushed
      <3>2. TokenIsNested(frames', i)
        BY <1>2, <1>4, <2>2 DEF TokenIsNested, Under, FramePushed
      <3> QED BY <1>4, <2>2, <3>1, <3>2 DEF FramePushed
    <2> QED BY <1>2, <2>1, <2>2
  <1>8. ASSUME NEW i \in 1..n + 1 PROVE Linked(terms, frames', Store', i)
    <2>1. CASE i = n + 1
      <3>1. frames'[i] = f /\ FoundAbove(frames', Store', i) = Store'
        BY <2>1 DEF FramePushed, FoundAbove
      <3>2. ~(Paying(f) /\ (i = Len(frames') => f.step = "calling"))
        BY <2>1 DEF FramePushed
      <3> QED BY <1>5, <3>1, <3>2 DEF Linked, Differ
    <2>2. CASE i \in 1..n
      <3>1. i # Len(frames') /\ FoundAbove(frames', Store', i) = frames'[i + 1].saved
        BY <1>2, <2>2 DEF FramePushed, FoundAbove
      <3>2. /\ frames'[i].contract = frames[i].contract /\ frames'[i].call = frames[i].call
            /\ frames'[i].saved = frames[i].saved /\ (Paying(frames'[i]) <=> Paying(frames[i]))
        BY <2>2 DEF FramePushed, Paying
      <3>3. frames'[i + 1].saved = FoundAbove(frames, Store, i)
        <4>1. CASE i = n
          BY <4>1 DEF FramePushed, FoundAbove
        <4>2. CASE i # n
          <5>1. i + 1 \in 1..n
            BY <1>2, <2>2, <4>2
          <5> QED BY <4>2, <5>1 DEF FramePushed, FoundAbove
        <4> QED BY <4>1, <4>2
      <3>4. Paying(frames[i]) => (i = Len(frames) => frames[i].step = "calling")
        BY <1>2, <2>2
      <3>5. Differ(terms, frames[i].saved, frames'[i + 1].saved, frames[i].call,
                   Paying(frames[i]))
        BY <1>4, <2>2, <3>3, <3>4 DEF Linked, Differ
      <3> QED BY <3>1, <3>2, <3>5 DEF Linked, Differ
    <2> QED BY <1>2, <2>1, <2>2
  <1> QED BY <1>3, <1>5, <1>6, <1>7, <1>8 DEF ChainInv, FramePushed

\* The first frame of a transaction, and a call by a token or an agent.
LEMMA OutsideContracts ==
  ASSUME NEW c \in OutsideCalls
  PROVE  LET f == Frame(c[1], c[2])
         IN  f.contract # "token" /\ f.step = "entered" /\ f.saved = Store
  BY DEF OutsideCalls, Frame

LEMMA BeginKeepsChain ==
  ASSUME CallsInv, ChainInv, UNCHANGED groundVars, Begin
  PROVE  ChainInv'
  <1>1. PICK f : /\ frames' = <<f>> /\ f.step = "entered" /\ f.saved = Store
                 /\ f.contract # "token"
    <2>1. CASE \E c \in OutsideCalls : frames' = <<Frame(c[1], c[2])>>
      BY <2>1, OutsideContracts
    <2>2. CASE frames' = <<Frame("agent", [op |-> "drive"])>>
      BY <2>2 DEF Frame
    <2> QED BY <2>1, <2>2 DEF Begin
  <1>2. Len(frames) = 0 /\ spent' = spent /\ drawn' = drawn
    BY DEF Begin, AtRest, storeVars, bookVars
  <1>3. FramePushed(0, f)
    BY <1>1 DEF FramePushed
  <1>4. frames'[0 + 1] = f
    BY <1>1
  <1>5. TokenIsNested(frames', 0 + 1)
    BY <1>1, <1>4 DEF TokenIsNested, Under
  <1> QED BY <1>1, <1>2, <1>3, <1>5, PushKeepsChain

LEMMA CallOutKeepsChain ==
  ASSUME CallsInv, ChainInv, ~AtRest, UNCHANGED groundVars, CallOut
  PROVE  ChainInv'
  <1> DEFINE n == Len(frames)
             g == [Top EXCEPT !.made = @ + 1]
  <1>1. PICK c \in OutsideCalls :
          frames' = Append([frames EXCEPT ![Len(frames)].made = @ + 1], Frame(c[1], c[2]))
    BY DEF CallOut
  <1> DEFINE f == Frame(c[1], c[2])
  <1>2. /\ Top.contract \in Untrusted /\ spent' = spent /\ drawn' = drawn
    BY DEF CallOut, storeVars, bookVars
  <1>3. /\ n \in Nat /\ n >= 1 /\ Top = frames[n] /\ FrameShape(Top)
        /\ CallIsChecked(policy, Top) /\ StageIsRight(terms, Top)
    BY TopOfStack, TopOfChain
  <1>4. /\ g.contract = Top.contract /\ g.call = Top.call /\ g.saved = Top.saved
        /\ g.step = Top.step
    BY <1>3 DEF FrameShape
  <1>5. CallIsChecked(policy, g) /\ StageIsRight(terms, g) /\ ~Paying(Top)
    BY <1>2, <1>3, <1>4 DEF CallIsChecked, StageIsRight, Paying, Untrusted
  <1>6. frames' = Append([frames EXCEPT ![Len(frames)] = g], f)
    BY <1>1, <1>3
  <1>7. f.step = "entered" /\ f.saved = Store /\ f.contract # "token"
    BY OutsideContracts
  <1> HIDE DEF g, f
  <1>8. FramePushed(Len(frames), f) /\ frames'[Len(frames)] = g
    BY <1>2, <1>4, <1>5, <1>6, CallingIsPushing DEF Untrusted
  <1>9. TokenIsNested(frames', n + 1)
    <2>1. frames'[n + 1] = f /\ n + 1 - 1 = n
      BY <1>3, <1>8 DEF FramePushed
    <2>2. ~Under(frames', n + 1, "registry")
      BY <1>2, <1>4, <1>8, <2>1 DEF Under, Untrusted
    <2> QED BY <1>7, <2>1, <2>2 DEF TokenIsNested
  <1> QED BY <1>2, <1>3, <1>5, <1>7, <1>8, <1>9, PushKeepsChain

\* The extension calls the registry, or the registry, its payment booked, the token.
LEMMA InvokeKeepsChain ==
  ASSUME CallsInv, ChainInv, ~AtRest, UNCHANGED groundVars, Invoke
  PROVE  ChainInv'
  <1> DEFINE n == Len(frames)
             f == Callee(Top)
             g == [Top EXCEPT !.step = "waiting"]
  <1>1. CASE ~Admits(Callee(Top).contract)
    BY <1>1, UnwindKeepsChain DEF Invoke
  <1> SUFFICES ASSUME Admits(Callee(Top).contract)
               PROVE  ChainInv'
    BY <1>1
  <1>2. /\ frames' = Append(At("waiting"), f) /\ spent' = spent /\ drawn' = drawn
        /\ Top.step = "calling"
    BY DEF Invoke, storeVars, bookVars
  <1>3. /\ n \in Nat /\ n >= 1 /\ Top = frames[n] /\ FrameShape(Top)
        /\ CallIsChecked(policy, Top) /\ StageIsRight(terms, Top)
    BY TopOfStack, TopOfChain
  <1>4. /\ g.contract = Top.contract /\ g.call = Top.call /\ g.saved = Top.saved
        /\ g.step = "waiting"
    BY <1>3 DEF FrameShape
  <1>5. CallIsChecked(policy, g) /\ StageIsRight(terms, g)
    BY <1>2, <1>3, <1>4 DEF CallIsChecked, InFlight, StageIsRight, Paying
  <1>6. frames' = Append([frames EXCEPT ![Len(frames)] = g], f)
    BY <1>2, <1>3 DEF At
  <1>7. /\ f.step = "entered" /\ f.saved = Store
        /\ Top.contract = "extension" => f.contract = "registry"
        /\ Top.contract # "extension" => f.contract = "token" /\ f.call = Top.call
    BY DEF Callee, Frame
  <1>8. /\ Top.contract \in {"extension", "registry"}
        /\ Top.contract = "registry" => Top.call.op = "pay"
    BY <1>2, <1>3 DEF StageIsRight
  <1> HIDE DEF g, f
  <1>9. FramePushed(Len(frames), f) /\ frames'[Len(frames)] = g
    BY <1>4, <1>5, <1>6, CallingIsPushing
  <1>10. TokenIsNested(frames', n + 1)
    <2>1. frames'[n + 1] = f /\ n + 1 - 1 = n /\ n + 1 > 1
      BY <1>3, <1>9 DEF FramePushed
    <2>2. Under(frames', n + 1, "registry") <=> Top.contract = "registry"
      BY <1>4, <1>9, <2>1 DEF Under
    <2> QED BY <1>4, <1>7, <1>8, <1>9, <2>1, <2>2 DEF TokenIsNested
  <1> QED BY <1>2, <1>3, <1>5, <1>7, <1>9, <1>10, PushKeepsChain

LEMMA ChainInit == FramesInit => ChainInv
  <1> SUFFICES ASSUME FramesInit PROVE ChainInv
    OBVIOUS
  <1>1. frames = << >> /\ Committed = Store
    BY DEF FramesInit, Committed, AtRest
  <1>2. /\ spent = [m \in Mandates |-> 0]
        /\ drawn = [a \in Assets |-> [u \in Users |-> [w \in Payees |-> 0]]]
    BY DEF FramesInit, Init, RegistryInit, TokenInit
  <1>3. DrawnTyped(Store)
    BY <1>2, StoreHasTokens DEF DrawnTyped
  <1>4. ASSUME NEW a \in Assets, NEW u \in Users, NEW w \in Payees
        PROVE  Ahead(terms, Store, a, u, w) = 0
    <2> DEFINE S == Naming(terms, a, u, w)
    <2>1. IsFiniteSet(S) /\ \A k \in S : spent[k] = 0
      BY <1>2, NamingFinite
    <2>2. drawn[a][u][w] = 0
      BY <1>2
    <2> HIDE DEF S
    <2>3. Sum(spent, S) = 0
      BY <2>1, SumOfZeros
    <2>4. Ahead(terms, Store, a, u, w) = Sum(spent, S) - drawn[a][u][w]
      BY StoreHasTokens DEF Ahead, S
    <2> QED BY <2>2, <2>3, <2>4
  <1> QED BY <1>1, <1>3, <1>4 DEF ChainInv, Balanced

\* A new mandate has spent nothing, whoever its parties are.
LEMMA RegistrationKeepsBalance ==
  ASSUME CallsInv, Balanced(terms, Store), NEW m \in Mandates, NEW t \in MandateTerms,
         RegisterMandate(m, t)
  PROVE  Balanced(terms', Store')
  <1>1. /\ terms \in [Mandates -> MandateTerms \union {NoTerms}]
        /\ spent \in [Mandates -> Nat]
    BY StoreHasTokens DEF CallsInv, GroundInv, StoresInv, BooksSound
  <1>2. /\ terms[m] = NoTerms /\ terms' = [terms EXCEPT ![m] = t]
        /\ spent' = [spent EXCEPT ![m] = 0] /\ drawn' = drawn
    BY DEF RegisterMandate, IsFresh, Registered, tokenVars
  <1> SUFFICES ASSUME NEW a \in Assets, NEW u \in Users, NEW w \in Payees
               PROVE  Ahead(terms', Store', a, u, w) = 0
    BY DEF Balanced
  <1> DEFINE S == Naming(terms, a, u, w)
             T == Naming(terms', a, u, w)
  <1>3. S \subseteq T /\ T \ S \subseteq {m} /\ m \notin S /\ T \subseteq Mandates
    BY <1>1, <1>2 DEF Naming
  <1>4. IsFiniteSet(T)
    BY NamingFinite
  <1>5. Sum(spent, S) - drawn[a][u][w] = 0
    BY StoreHasTokens DEF Balanced, Ahead
  <1> HIDE DEF S, T
  <1>6. /\ \A k \in T : spent'[k] \in Int
        /\ \A k \in T \ S : spent'[k] = 0
        /\ \A k \in S : spent'[k] = spent[k]
    BY <1>1, <1>2, <1>3
  <1>7. Sum(spent', T) = Sum(spent', S)
    BY <1>3, <1>4, <1>6, SumDropsZeros
  <1>8. Sum(spent', S) = Sum(spent, S)
    BY <1>6, SumAgree
  <1>9. Ahead(terms', Store', a, u, w) = Sum(spent', T) - drawn[a][u][w]
    BY <1>2, StoreHasTokens DEF Ahead, T
  <1> QED BY <1>5, <1>7, <1>8, <1>9

LEMMA WithoutCallsKeepsChain ==
  ASSUME CallsInv, ChainInv, WithoutCalls
  PROVE  ChainInv'
  <1>1. frames = << >> /\ frames' = frames
    BY DEF WithoutCalls, AtRest, frameVars
  <1>2. Committed = Store /\ Committed' = Store'
    BY <1>1 DEF Committed, AtRest
  <1>3. Balanced(terms, Store) /\ DrawnTyped(Store)
    BY <1>2 DEF ChainInv
  <1>4. drawn' = drawn
    BY DEF WithoutCalls, RegisterMandate, Pause, Unpause, TokenStep, Tick, InstallPolicy,
           Environment, Approve, MoveFunds, SetAuthorized, tokenVars, registryVars
  <1>5. DrawnTyped(Store')
    BY <1>3, <1>4, StoreHasTokens DEF DrawnTyped
  <1>6. Balanced(terms', Store')
    <2>1. CASE \E m \in Mandates, t \in MandateTerms : RegisterMandate(m, t)
      BY <1>3, <2>1, RegistrationKeepsBalance
    <2>2. CASE UNCHANGED <<terms, spent>>
      BY <1>3, <1>4, <2>2, StoreHasTokens, AheadAlike DEF Balanced
    <2> QED BY <2>1, <2>2 DEF WithoutCalls, Pause, Unpause, TokenStep, Tick, InstallPolicy,
                             mandateVars, registryVars
  <1> QED BY <1>1, <1>2, <1>5, <1>6 DEF ChainInv

LEMMA ChainStep == CallsInv /\ ChainInv /\ [FramesNext]_<<vars, frameVars>> => ChainInv'
  <1> SUFFICES ASSUME CallsInv, ChainInv, [FramesNext]_<<vars, frameVars>> PROVE ChainInv'
    OBVIOUS
  <1>1. CASE InTransaction /\ UNCHANGED groundVars
    BY <1>1, UnwindKeepsChain, HandleKeepsChain, InvokeKeepsChain, LeavingKeepsChain,
       CallOutKeepsChain DEF InTransaction, Fail
  <1>2. CASE Begin /\ UNCHANGED groundVars
    BY <1>2, BeginKeepsChain
  <1>3. CASE WithoutCalls
    BY <1>3, WithoutCallsKeepsChain
  <1>4. CASE UNCHANGED <<vars, frameVars>>
    <2>1. /\ terms' = terms /\ frames' = frames /\ Store' = Store /\ Committed' = Committed
      BY <1>4 DEF vars, frameVars, registryVars, mandateVars, policyVars, tokenVars, Store,
                  Committed, AtRest
    <2> QED BY <2>1 DEF ChainInv
  <1> QED BY <1>1, <1>2, <1>3, <1>4 DEF FramesNext, groundVars

LEMMA CommittedIsBalanced == CallsInv /\ ChainInv => BooksSurviveReentry
  <1> SUFFICES ASSUME CallsInv, ChainInv PROVE BooksSurviveReentry
    OBVIOUS
  <1>1. PaymentsSurviveReentry
    BY CommittedIsSound
  <1>2. Committed.spent \in [Mandates -> Nat] /\ DrawnTyped(Committed)
    <2>1. CASE AtRest
      BY <2>1 DEF Committed, CallsInv, StoresInv, BooksSound, ChainInv
    <2>2. CASE ~AtRest
      <3>1. 1 \in DOMAIN frames
        BY <2>2, EmptyOrNot
      <3> QED BY <2>2, <3>1 DEF Committed, CallsInv, StoresInv, BooksSound, ChainInv
    <2> QED BY <2>1, <2>2
  <1>3. ASSUME NEW a \in Assets, NEW u \in Users, NEW w \in Payees
        PROVE  Committed.drawn[a][u][w] = Sum(Committed.spent, Naming(terms, a, u, w))
    <2>1. Ahead(terms, Committed, a, u, w) = 0
      BY DEF ChainInv, Balanced
    <2>2. /\ Sum(Committed.spent, Naming(terms, a, u, w)) \in Int
          /\ Committed.drawn[a][u][w] \in Int
      BY <1>2, AheadIsInt
    <2> QED BY <2>1, <2>2 DEF Ahead
  <1>4. \A a, u, w : {m \in Mandates : /\ Registered(m)
                                       /\ terms[m].asset = a /\ terms[m].user = u
                                       /\ terms[m].merchant = w} = Naming(terms, a, u, w)
    BY DEF Naming, Registered
  <1>5. ASSUME NEW a \in Assets, NEW u \in Users, NEW w \in Payees
        PROVE  Committed.drawn[a][u][w] =
                 MapThenSumSet(LAMBDA m : Committed.spent[m],
                   {m \in Mandates : /\ Registered(m)
                                     /\ terms[m].asset = a /\ terms[m].user = u
                                     /\ terms[m].merchant = w})
    <2> DEFINE Named == {m \in Mandates : /\ Registered(m)
                                          /\ terms[m].asset = a /\ terms[m].user = u
                                          /\ terms[m].merchant = w}
    <2>1. MapThenSumSet(LAMBDA m : Committed.spent[m], Named) = Sum(Committed.spent, Named)
      BY Zenon DEF Sum, MapThenSumSet, MapThenFoldSet
    <2>2. Named = Naming(terms, a, u, w)
      BY <1>4
    <2> HIDE DEF Named
    <2>3. Committed.drawn[a][u][w] = MapThenSumSet(LAMBDA m : Committed.spent[m], Named)
      BY <1>3, <2>1, <2>2, Zenon
    <2> QED BY <2>3, Zenon DEF Named
  <1> QED BY <1>1, <1>5, Zenon DEF BooksSurviveReentry

\* Whether or not the host admits re-entry, the books of every transaction that
\* ends agree with what the tokens moved, whatever failed and was caught in it.
THEOREM BooksSurvive == FramesSpec => []BooksSurviveReentry
  BY CallsInvariant, ChainInit, ChainStep, CommittedIsBalanced, PTL DEF FramesSpec

--------------------------------------------------------------------------------
\* A transaction as one step.  On a host that refuses re-entry only six stacks
\* occur but those an agent contract drives, and on each of them the store is the
\* committed one with a known part of the transaction's effect applied.

\* What the first call asks of the registry.
Asked ==
  IF frames[1].contract = "extension"
  THEN PayCall(Extension, frames[1].call.mandate, frames[1].call.amount,
               frames[1].call.expectedSeq)
  ELSE frames[1].call

\* The first call is one an outsider can make.
IsOpenCall ==
  /\ frames[1].contract = "extension" => frames[1].call \in Requests
  /\ frames[1].contract = "registry" /\ frames[1].call.op = "pay" =>
       /\ frames[1].call.caller \in Agents \ {Extension}
       /\ frames[1].call.mandate \in Mandates
       /\ frames[1].call.amount \in PaymentAmounts
       /\ frames[1].call.expectedSeq \in 0..MaxSeq

\* A contract is on the stack once, an agent contract below all others.
OnStackOnce ==
  /\ \A i, j \in DOMAIN frames : frames[i].contract = frames[j].contract => i = j
  /\ \A i \in DOMAIN frames :
       /\ frames[i].contract \in {"extension", "registry", "token", "agent"}
       /\ frames[i].contract = "agent" => i = 1

\* The extension, when the token calls it, has written nothing.
CalledBack ==
  Len(frames) = 3 /\ frames[3].contract = "extension" =>
    frames[3].step = "entered" /\ frames[3].saved = Store

\* How far the registry has come, whether the extension called it or not.
RegistryIsAt ==
  IF frames[1].contract = "registry" THEN frames[1].step
  ELSE IF Len(frames) > 1 THEN frames[2].step
  ELSE IF frames[1].step = "waiting" THEN "waiting" ELSE "entered"

HasConsumed == frames[1].contract = "extension" /\ frames[1].step # "entered"
HasBooked == RegistryIsAt # "entered"
HasMoved == /\ RegistryIsAt = "waiting" /\ Asked.op = "pay"
            /\ \A i \in DOMAIN frames : frames[i].contract # "token"

\* What the atomic steps test of the committed store, and what they make of it.
IsConsumed ==
  /\ Atomic!RequestAdmitted(frames[1].call)
  /\ consumed = Committed.consumed
                  \union {<<frames[1].call.policyHash, frames[1].call.nonce>>}

IsPaid(c) ==
  /\ Atomic!PaymentAccepted(c.caller, c.mandate, c.amount, c.expectedSeq)
  /\ spent = [Committed.spent EXCEPT ![c.mandate] = @ + c.amount]
  /\ seq = [Committed.seq EXCEPT ![c.mandate] = @ + 1]
  /\ status = [Committed.status EXCEPT
                 ![c.mandate] = Atomic!StatusAfter(c.mandate,
                                  Committed.spent[c.mandate] + c.amount)]

IsBooked ==
  IF Asked.op = "pay" THEN IsPaid(Asked)
  ELSE /\ Registered(Asked.mandate)
       /\ status = [Committed.status EXCEPT ![Asked.mandate] = "Revoked"]
       /\ spent = Committed.spent /\ seq = Committed.seq

Batch == Transfer(Asked.mandate, Asked.amount)

IsMoved ==
  /\ Atomic!CanSettle(Batch)
  /\ allowance = [a \in Assets |-> [u \in Users |->
                    Committed.allowance[a][u] - Due(Batch, a, u)]]
  /\ balance = [a \in Assets |-> [u \in Users |->
                    Committed.balance[a][u] - Due(Batch, a, u)]]
  /\ drawn = [a \in Assets |-> [u \in Users |-> [w \in Payees |->
                    Committed.drawn[a][u][w] + Flow(Batch, a, u, w)]]]

SameBooks ==
  spent = Committed.spent /\ seq = Committed.seq /\ status = Committed.status
SameTokens ==
  /\ allowance = Committed.allowance /\ balance = Committed.balance
  /\ drawn = Committed.drawn

SoFar ==
  /\ IsOpenCall /\ CalledBack
  /\ IF HasConsumed THEN IsConsumed ELSE consumed = Committed.consumed
  /\ IF HasBooked THEN IsBooked ELSE SameBooks
  /\ IF HasMoved THEN IsMoved ELSE SameTokens

StepsInv == hostRefuses => OnStackOnce /\ (~AtRest /\ ~Driven => SoFar)

LEMMA SameDue ==
  /\ \A batch, a, u : Atomic!Due(batch, a, u) = Due(batch, a, u)
  /\ \A batch, a, u, w : Atomic!Flow(batch, a, u, w) = Flow(batch, a, u, w)
  /\ \A m, amount : Atomic!Transfer(m, amount) = Transfer(m, amount)
  <1>1. \A batch, a, u : Atomic!Due(batch, a, u) = Due(batch, a, u)
    BY Zenon DEF Atomic!Due, Due, Atomic!MapThenSumSet, Atomic!MapThenFoldSet, MapThenSumSet,
                 MapThenFoldSet
  <1>2. \A batch, a, u, w : Atomic!Flow(batch, a, u, w) = Flow(batch, a, u, w)
    BY Zenon DEF Atomic!Flow, Flow, Atomic!MapThenSumSet, Atomic!MapThenFoldSet,
                 MapThenSumSet, MapThenFoldSet
  <1>3. \A m, amount : Atomic!Transfer(m, amount) = Transfer(m, amount)
    BY DEF Atomic!Transfer, Transfer
  <1> QED BY <1>1, <1>2, <1>3

\* The first frame stays, and so what the transaction is compared with.
FirstStays ==
  /\ ~AtRest /\ ~AtRest'
  /\ frames'[1].contract = frames[1].contract /\ frames'[1].call = frames[1].call
  /\ frames'[1].saved = frames[1].saved
  /\ UNCHANGED <<groundVars, authorized>>

LEMMA ComparedWithTheSame ==
  ASSUME FirstStays
  PROVE  /\ Committed' = Committed /\ Asked' = Asked /\ (IsOpenCall' <=> IsOpenCall)
         /\ Batch' = Batch /\ (Driven' <=> Driven)
         /\ Atomic!RequestAdmitted(frames[1].call)' <=> Atomic!RequestAdmitted(frames[1].call)
         /\ consumed' = consumed => (IsConsumed' <=> IsConsumed)
         /\ UNCHANGED bookVars => (IsBooked' <=> IsBooked) /\ (SameBooks' <=> SameBooks)
         /\ UNCHANGED <<allowance, balance, drawn>> =>
              (IsMoved' <=> IsMoved) /\ (SameTokens' <=> SameTokens)
  <1>1. Committed' = Committed /\ Asked' = Asked /\ (Driven' <=> Driven)
    BY DEF FirstStays, Committed, Asked, PayCall, Driven
  <1>2. IsOpenCall' <=> IsOpenCall
    BY DEF FirstStays, IsOpenCall, Requests, groundVars
  <1>3. Batch' = Batch
    BY <1>1 DEF Batch, Transfer, FirstStays, groundVars
  <1>4. Atomic!RequestAdmitted(frames[1].call)' <=> Atomic!RequestAdmitted(frames[1].call)
    BY <1>1 DEF FirstStays, groundVars, Atomic!RequestAdmitted, Atomic!EnvelopeIsValid,
       Atomic!WithinPolicy, Atomic!NonceIsFresh, Atomic!LiveMandateAgrees, Atomic!Registered,
       Atomic!Installed
  <1>5. consumed' = consumed => (IsConsumed' <=> IsConsumed)
    BY <1>1, <1>4 DEF IsConsumed, FirstStays
  <1>6. Atomic!PaymentAccepted(Asked.caller, Asked.mandate, Asked.amount, Asked.expectedSeq)'
          <=> Atomic!PaymentAccepted(Asked.caller, Asked.mandate, Asked.amount, Asked.expectedSeq)
    BY <1>1 DEF FirstStays, groundVars, Atomic!PaymentAccepted, Atomic!Registered, Atomic!MayCall,
      Atomic!Check, Atomic!SequenceLeft
  <1>7. UNCHANGED bookVars => (IsBooked' <=> IsBooked) /\ (SameBooks' <=> SameBooks)
    BY <1>1, <1>6 DEF IsBooked, IsPaid, bookVars, SameBooks, Registered, FirstStays,
       groundVars, Atomic!StatusAfter
  <1>8. Atomic!CanSettle(Batch)' <=> Atomic!CanSettle(Batch)
    BY <1>1, <1>3, SameDue DEF Atomic!CanSettle, FirstStays
  <1>9. UNCHANGED <<allowance, balance, drawn>> =>
              (IsMoved' <=> IsMoved) /\ (SameTokens' <=> SameTokens)
    BY <1>1, <1>3, <1>8 DEF IsMoved, SameTokens
  <1> QED BY <1>1, <1>2, <1>3, <1>4, <1>5, <1>7, <1>9

\* The contracts on the stack, outermost first.
Alone(a) == Len(frames) = 1 /\ frames[1].contract = a
Two(a, b) == Len(frames) = 2 /\ frames[1].contract = a /\ frames[2].contract = b
Three(a, b, c) ==
  Len(frames) = 3 /\ frames[1].contract = a /\ frames[2].contract = b /\ frames[3].contract = c

\* The frames that wait for the one above them, and the calls they make.
LowerFrames ==
  /\ Len(frames) > 1 =>
       /\ frames[1].contract \in {"extension", "registry"} /\ frames[1].step = "waiting"
       /\ frames[2].call = Asked /\ Asked.op = "pay"
       /\ frames[2].contract = "token" => frames[2].step = "entered"
  /\ Len(frames) > 2 =>
       /\ frames[2].contract = "registry" =>
            frames[2].step = "waiting" /\ frames[3].call = Asked
       /\ frames[3].contract = "token" => frames[3].step = "entered"

\* Six stacks.
LEMMA Stacks ==
  ASSUME CallsInv, ChainInv, OnStackOnce, ~AtRest, ~Driven
  PROVE  /\ \/ Alone("extension") \/ Alone("registry")
            \/ Two("extension", "registry") \/ Two("registry", "token")
            \/ Three("extension", "registry", "token")
            \/ Three("registry", "token", "extension")
         /\ LowerFrames
  <1> DEFINE n == Len(frames)
  <1>1. n \in Nat /\ n >= 1 /\ DOMAIN frames = 1..n
    BY TopOfStack
  <1> HIDE DEF n
  <1>2. ASSUME NEW i \in 1..n
        PROVE  /\ CallIsNested(frames, i) /\ TokenIsNested(frames, i)
               /\ StageIsRight(terms, frames[i])
               /\ frames[i].contract \in {"extension", "registry", "token", "agent"}
               /\ frames[i].contract = "agent" => i = 1
    BY <1>1 DEF ChainInv, CallsInv, StackInv, OnStackOnce
  <1>3. \A i, j \in 1..n : frames[i].contract = frames[j].contract => i = j
    BY <1>1 DEF OnStackOnce
  <1>4. frames[1].contract \in {"extension", "registry"}
    <2>1. 1 \in 1..n
      BY <1>1
    <2>2. frames[1].contract # "agent"
      BY DEF Driven
    <2>3. frames[1].contract # "token"
      BY <1>2, <2>1 DEF TokenIsNested, Under
    <2> QED BY <1>2, <2>1, <2>2, <2>3
  <1>5. ASSUME n > 1
        PROVE  /\ \/ frames[1].contract = "extension" /\ frames[2].contract = "registry"
                  \/ frames[1].contract = "registry" /\ frames[2].contract = "token"
               /\ frames[1].step = "waiting"
               /\ frames[2].call = Asked /\ Asked.op = "pay"
    <2>1. 1 \in 1..n /\ 2 \in 1..n /\ 1 < n /\ 2 > 1 /\ 2 - 1 = 1
      BY <1>1, <1>5
    <2>2. /\ CallIsNested(frames, 1) /\ CallIsNested(frames, 2)
          /\ TokenIsNested(frames, 2)
      BY <1>2, <2>1
    <2>3. frames[1].step = "waiting"
      BY <1>4, <2>1, <2>2 DEF CallIsNested, n
    <2>4. CASE frames[1].contract = "extension"
      <3>1. Under(frames, 2, "extension")
        BY <2>1, <2>4 DEF Under
      <3>2. frames[2].contract = "registry" /\ frames[2].call = Asked
        BY <2>1, <2>2, <2>4, <3>1 DEF CallIsNested, Asked
      <3> QED BY <2>3, <2>4, <3>2 DEF Asked, PayCall
    <2>5. CASE frames[1].contract = "registry"
      <3>1. Under(frames, 2, "registry")
        BY <2>1, <2>5 DEF Under
      <3>2. /\ frames[2].contract = "token" /\ frames[2].call = Asked
            /\ frames[1].call.op = "pay"
        BY <2>1, <2>2, <2>5, <3>1 DEF TokenIsNested, Asked
      <3> QED BY <2>3, <2>5, <3>2 DEF Asked
    <2> QED BY <1>4, <2>4, <2>5
  <1>6. ASSUME n > 2
        PROVE  /\ \/ /\ frames[1].contract = "extension" /\ frames[2].contract = "registry"
                     /\ frames[3].contract = "token" /\ frames[2].step = "waiting"
                     /\ frames[3].call = Asked
                  \/ /\ frames[1].contract = "registry" /\ frames[2].contract = "token"
                     /\ frames[3].contract = "extension"
    <2>1. /\ 1 \in 1..n /\ 2 \in 1..n /\ 3 \in 1..n /\ n > 1 /\ 2 < n /\ 3 > 1 /\ 3 - 1 = 2
      BY <1>1, <1>6
    <2>2. CASE frames[1].contract = "extension" /\ frames[2].contract = "registry"
      <3>1. Under(frames, 3, "registry")
        BY <2>1, <2>2 DEF Under
      <3>2. frames[3].contract = "token" /\ frames[3].call = frames[2].call
        BY <1>2, <2>1, <3>1 DEF TokenIsNested
      <3>3. frames[2].step = "waiting"
        BY <1>2, <2>1, <2>2 DEF CallIsNested, n
      <3> QED BY <1>5, <2>1, <2>2, <3>2, <3>3
    <2>3. CASE frames[1].contract = "registry" /\ frames[2].contract = "token"
      BY <1>2, <1>3, <2>1, <2>3
    <2> QED BY <1>5, <2>1, <2>2, <2>3
  <1>7. ~(n > 3)
    <2> SUFFICES ASSUME n > 3 PROVE FALSE
      OBVIOUS
    <2>1. /\ 1 \in 1..n /\ 2 \in 1..n /\ 3 \in 1..n /\ 4 \in 1..n /\ n > 2 /\ 4 > 1 /\ 4 - 1 = 3
      BY <1>1
    <2>2. frames[4].contract \in {"extension", "registry", "token"}
      BY <1>2, <2>1
    <2> QED BY <1>3, <1>6, <2>1, <2>2
  <1>8. \A i \in 1..n : frames[i].contract = "token" => frames[i].step = "entered"
    BY <1>2 DEF StageIsRight
  <1>9. LowerFrames
    <2>1. n > 1 => 2 \in 1..n
      BY <1>1
    <2>2. n > 2 => 3 \in 1..n /\ n > 1
      BY <1>1
    <2> QED BY <1>4, <1>5, <1>6, <1>8, <2>1, <2>2 DEF LowerFrames, n
  <1>10. n = 1 \/ n = 2 \/ n = 3
    BY <1>1, <1>7
  <1> QED BY <1>4, <1>5, <1>6, <1>9, <1>10 DEF n, Alone, Two, Three

\* The top frame moves on to a step.
LEMMA MovedOn ==
  ASSUME CallsInv, ~AtRest, NEW step, frames' = At(step)
  PROVE  LET n == Len(frames)
         IN  /\ n \in Nat /\ n >= 1 /\ Len(frames') = n /\ DOMAIN frames' = 1..n
             /\ DOMAIN frames = 1..n /\ ~AtRest'
             /\ frames'[n].contract = frames[n].contract /\ frames'[n].call = frames[n].call
             /\ frames'[n].saved = frames[n].saved /\ frames'[n].step = step
             /\ \A i \in 1..n : i # n => frames'[i] = frames[i]
             /\ frames'[1].contract = frames[1].contract /\ frames'[1].call = frames[1].call
             /\ frames'[1].saved = frames[1].saved
  <1> DEFINE n == Len(frames)
             g == [frames[n] EXCEPT !.step = step]
  <1>1. /\ n \in Nat /\ n >= 1 /\ n \in 1..n /\ DOMAIN frames = 1..n /\ Top = frames[n]
        /\ FrameShape(Top) /\ frames \in Seq({frames[i] : i \in DOMAIN frames})
    BY TopOfStack, StackFacts DEF CallsInv
  <1>2. frames' = [frames EXCEPT ![n] = g]
    BY DEF At
  <1>3. g.contract = frames[n].contract /\ g.call = frames[n].call /\ g.saved = frames[n].saved
        /\ g.step = step
    BY <1>1 DEF FrameShape
  <1> HIDE DEF g, n
  <1>4. /\ Len(frames') = n /\ DOMAIN frames' = 1..n /\ frames'[n] = g
        /\ \A i \in 1..n - 1 : frames'[i] = frames[i]
    BY <1>1, <1>2, Replaced DEF n
  <1>5. \A i \in 1..n : i # n => frames'[i] = frames[i]
    BY <1>1, <1>4, LastOrBefore
  <1>6. ~AtRest'
    BY <1>1, <1>4 DEF AtRest
  <1>7. 1 \in 1..n
    BY <1>1
  <1> QED BY <1>1, <1>3, <1>4, <1>5, <1>6, <1>7 DEF n

\* What a rollback takes back to.
LEMMA StoreIsAll ==
  /\ Store.spent = spent /\ Store.seq = seq /\ Store.status = status
  /\ Store.consumed = consumed /\ Store.allowance = allowance
  /\ Store.balance = balance /\ Store.drawn = drawn
  BY DEF Store

LEMMA StoreIsAllNext ==
  /\ Store'.spent = spent' /\ Store'.seq = seq' /\ Store'.status = status'
  /\ Store'.consumed = consumed' /\ Store'.allowance = allowance'
  /\ Store'.balance = balance' /\ Store'.drawn = drawn'
  BY DEF Store

SameCommitted ==
  /\ Committed'.spent = Committed.spent /\ Committed'.seq = Committed.seq
  /\ Committed'.status = Committed.status /\ Committed'.consumed = Committed.consumed
  /\ Committed'.allowance = Committed.allowance /\ Committed'.balance = Committed.balance
  /\ Committed'.drawn = Committed.drawn

\* Others see nothing of a step that leaves the committed store.
LEMMA SeenByNone ==
  ASSUME UNCHANGED <<groundVars, authorized>>, SameCommitted
  PROVE  UNCHANGED Atomic!vars
  BY DEF SameCommitted, groundVars, Atomic!vars, Atomic!registryVars, Atomic!mandateVars,
         Atomic!policyVars, Atomic!tokenVars

\* The transaction goes on, or is undone: others see nothing of it yet.
GoesOn == (~AtRest' => SoFar') /\ UNCHANGED Atomic!vars

LEMMA UnwindGoesOn ==
  ASSUME CallsInv, ChainInv, OnStackOnce, SoFar, ~AtRest, ~Driven,
         UNCHANGED <<groundVars, authorized>>, Unwind
  PROVE  GoesOn
  <1> DEFINE n == Len(frames)
  <1>1. PICK kept \in 0..n - 1 :
          /\ kept > 0 => Catches(frames[kept])
          /\ frames' = SubSeq(frames, 1, kept)
          /\ Rollback(frames[kept + 1].saved)
    BY DEF Unwind
  <1>2. /\ n \in Nat /\ Len(frames') = kept /\ DOMAIN frames' = 1..kept
        /\ \A i \in 1..kept : frames'[i] = frames[i]
    BY <1>1, CutStack
  <1>3. CASE kept = 0
    <2>1. AtRest'
      BY <1>1, <1>3 DEF AtRest
    <2>2. Rollback(frames[1].saved) /\ Committed = frames[1].saved /\ Committed' = Store'
      BY <1>1, <1>3, <2>1 DEF Committed
    <2>3. SameCommitted
      BY <2>2, StoreIsAllNext DEF Rollback, SameCommitted
    <2> QED BY <2>1, <2>3, SeenByNone DEF GoesOn
  <1>4. CASE kept > 0
    <2>1. frames[kept].contract \in {"token", "agent"} /\ kept < n
      BY <1>1, <1>2, <1>4 DEF Catches, Untrusted
    <2>2. Three("registry", "token", "extension") /\ kept = 2 /\ LowerFrames
      BY <1>1, <1>2, <1>4, <2>1, Stacks DEF Alone, Two, Three
    <2>3. /\ frames'[1] = frames[1] /\ frames'[2] = frames[2] /\ Len(frames') = 2
          /\ DOMAIN frames' = {1, 2} /\ DOMAIN frames = {1, 2, 3}
      BY <1>2, <2>2, TopOfStack DEF Three
    <2>4. FirstStays
      <3>1. ~AtRest'
        BY <2>3 DEF AtRest
      <3> QED BY <2>3, <3>1 DEF FirstStays
    <2>5. UNCHANGED <<bookVars, consumed, allowance, balance, drawn>>
      <3>1. Rollback(Store)
        BY <1>1, <2>2 DEF SoFar, CalledBack, Three
      <3> QED BY <3>1, StoreIsAll DEF Rollback, bookVars
    <2>6. SameCommitted
      BY <2>4, ComparedWithTheSame DEF SameCommitted
    <2>7. /\ HasConsumed' = HasConsumed /\ HasBooked' = HasBooked /\ ~HasMoved /\ ~HasMoved'
          /\ CalledBack'
      BY <2>2, <2>3 DEF HasConsumed, HasBooked, HasMoved, RegistryIsAt, Three, CalledBack
    <2>8. SoFar'
      BY <2>4, <2>5, <2>7, ComparedWithTheSame DEF SoFar
    <2> QED BY <2>6, <2>8, SeenByNone DEF GoesOn
  <1> QED BY <1>1, <1>3, <1>4

\* What a handler tests is what the atomic step tests, as long as its part of the
\* store is the committed one.
LEMMA TestsAlike ==
  ASSUME SameBooks
  PROVE  /\ consumed = Committed.consumed =>
              \A r : Atomic!RequestAdmitted(r) <=> RequestAdmitted(r)
         /\ \A caller, m, amount, k :
              Atomic!PaymentAccepted(caller, m, amount, k)
                <=> PaymentAccepted(caller, m, amount, k)
         /\ \A m, k : Atomic!StatusAfter(m, k) = StatusAfter(m, k)
  <1>1. consumed = Committed.consumed =>
              \A r : Atomic!RequestAdmitted(r) <=> RequestAdmitted(r)
    BY DEF SameBooks, RequestAdmitted, EnvelopeIsValid, WithinPolicy, NonceIsFresh,
           LiveMandateAgrees, Registered, Installed, Atomic!RequestAdmitted,
           Atomic!EnvelopeIsValid, Atomic!WithinPolicy, Atomic!NonceIsFresh,
           Atomic!LiveMandateAgrees, Atomic!Registered, Atomic!Installed
  <1>2. \A caller, m, amount, k :
          Atomic!PaymentAccepted(caller, m, amount, k) <=> PaymentAccepted(caller, m, amount, k)
    BY DEF SameBooks, PaymentAccepted, Registered, MayCall, Check, SequenceLeft,
           Atomic!PaymentAccepted, Atomic!Registered, Atomic!MayCall, Atomic!Check,
           Atomic!SequenceLeft
  <1>3. \A m, k : Atomic!StatusAfter(m, k) = StatusAfter(m, k)
    BY DEF SameBooks, StatusAfter, Atomic!StatusAfter
  <1> QED BY <1>1, <1>2, <1>3

\* A handler writes its part of the effect.
LEMMA HandleGoesOn ==
  ASSUME CallsInv, ChainInv, OnStackOnce, SoFar, hostRefuses, ~AtRest, ~Driven,
         UNCHANGED <<groundVars, authorized>>, Handle
  PROVE  GoesOn
  <1> DEFINE n == Len(frames)
  <1>1. CASE ~Accepts(Top)
    BY <1>1, UnwindGoesOn DEF Handle
  <1> SUFFICES ASSUME Accepts(Top)
               PROVE  GoesOn
    BY <1>1
  <1> DEFINE step == IF Top.contract = "registry" /\ Top.call.op = "revoke"
                     THEN "waiting" ELSE "calling"
  <1>2. /\ Top = frames[n] /\ Top.contract \in {"extension", "registry"}
        /\ Top.step = "entered" /\ Writes(Top, "before") /\ frames' = At(step)
        /\ CallIsChecked(policy, Top)
    BY TopOfStack DEF Handle
  <1>3. LowerFrames /\ \/ Alone("extension") \/ Alone("registry") \/ Two("extension", "registry")
    <2>1. ~Three("registry", "token", "extension")
      <3> SUFFICES ASSUME Three("registry", "token", "extension") PROVE FALSE
        OBVIOUS
      <3>1. Admits("registry") /\ 1 \in DOMAIN frames
        BY <1>2, TopOfStack DEF Accepts, Three
      <3> QED BY <3>1 DEF Admits, Three
    <2> QED BY <1>2, <2>1, Stacks DEF Two, Three
  <1>4. /\ Len(frames') = n /\ n >= 1 /\ n \in Nat
        /\ DOMAIN frames' = 1..n /\ DOMAIN frames = 1..n
        /\ frames'[n].contract = frames[n].contract /\ frames'[n].call = frames[n].call
        /\ frames'[n].saved = frames[n].saved /\ frames'[n].step = step
        /\ \A i \in 1..n : i # n => frames'[i] = frames[i]
    BY <1>2, MovedOn
  <1>5. FirstStays
    BY <1>2, MovedOn DEF FirstStays
  <1>6. GoesOn <=> SoFar'
    <2>1. SameCommitted
      BY <1>5, ComparedWithTheSame DEF SameCommitted
    <2> QED BY <1>5, <2>1, SeenByNone DEF GoesOn, FirstStays
  <1>7. UNCHANGED <<allowance, balance, drawn>> /\ ~HasMoved /\ SameTokens /\ SameTokens'
    <2>1. RegistryIsAt = "entered"
      BY <1>2, <1>3 DEF RegistryIsAt, Alone, Two
    <2>2. ~HasMoved /\ SameTokens
      BY <2>1 DEF HasMoved, SoFar
    <2> QED BY <1>2, <1>5, <2>2, ComparedWithTheSame DEF Writes
  <1>8. CalledBack'
    BY <1>3, <1>4 DEF CalledBack, Alone, Two
  <1>9. SameBooks
    <2>1. ~HasBooked
      BY <1>2, <1>3 DEF HasBooked, RegistryIsAt, Alone, Two
    <2> QED BY <2>1 DEF SoFar
  <1>10. IsOpenCall'
    BY <1>5, ComparedWithTheSame DEF SoFar
  <1>11. CASE Alone("extension")
    <2>1. RequestAdmitted(frames[1].call) /\ ~HasConsumed /\ HasConsumed'
      BY <1>2, <1>4, <1>11 DEF Accepts, Alone, HasConsumed
    <2>2. IsConsumed'
      <3>1. consumed = Committed.consumed /\ Atomic!RequestAdmitted(frames[1].call)
        BY <1>9, <2>1, TestsAlike DEF SoFar
      <3>2. consumed' = consumed \union {<<frames[1].call.policyHash, frames[1].call.nonce>>}
        BY <1>2, <1>11 DEF Writes, ExtensionWrites, Alone
      <3>3. Committed' = Committed /\ frames'[1].call = frames[1].call
        BY <1>5, ComparedWithTheSame DEF FirstStays
      <3>4. Atomic!RequestAdmitted(frames[1].call)'
        BY <1>5, <3>1, ComparedWithTheSame
      <3> QED BY <3>1, <3>2, <3>3, <3>4 DEF IsConsumed
    <2>3. ~HasBooked' /\ ~HasMoved'
      BY <1>2, <1>4, <1>11 DEF HasBooked, HasMoved, RegistryIsAt, Alone
    <2>4. SameBooks'
      <3>1. UNCHANGED bookVars
        BY <1>2, <1>11 DEF Writes, Alone
      <3> QED BY <1>5, <1>9, <3>1, ComparedWithTheSame
    <2> QED BY <1>6, <1>7, <1>8, <1>10, <2>1, <2>2, <2>3, <2>4 DEF SoFar
  <1>12. CASE Alone("registry") \/ Two("extension", "registry")
    <2>1. Top.contract = "registry" /\ Top.call = Asked
      BY <1>2, <1>3, <1>12 DEF Alone, Two, LowerFrames, Asked
    <2>2. consumed' = consumed /\ HasConsumed' = HasConsumed
      BY <1>2, <1>4, <1>12, <2>1 DEF Writes, HasConsumed, Alone, Two
    <2>3. /\ HasBooked' /\ ~HasMoved'
          /\ Asked' = Asked /\ Committed' = Committed
      <3>1. RegistryIsAt' = step
        <4>1. CASE Alone("registry")
          BY <1>4, <4>1 DEF RegistryIsAt, Alone
        <4>2. CASE Two("extension", "registry")
          <5>1. frames'[1] = frames[1] /\ frames'[2].step = step /\ Len(frames') > 1
            BY <1>4, <4>2 DEF Two
          <5> QED BY <4>2, <5>1 DEF RegistryIsAt, Two
        <4> QED BY <1>12, <4>1, <4>2
      <3>2. Asked' = Asked /\ Committed' = Committed
        BY <1>5, ComparedWithTheSame
      <3>3. step = "waiting" => Asked.op # "pay"
        BY <2>1
      <3> QED BY <3>1, <3>2, <3>3 DEF HasBooked, HasMoved
    <2>4. IsBooked'
      <3>1. CASE Asked.op = "pay"
        <4>1. /\ Atomic!PaymentAccepted(Asked.caller, Asked.mandate, Asked.amount,
                                        Asked.expectedSeq)
              /\ BookPayment(Asked.mandate, Asked.amount)
          BY <1>2, <1>9, <2>1, <3>1, TestsAlike DEF Accepts, Writes, RegistryWrites
        <4>2. IsPaid(Asked)'
          <5>1. Atomic!PaymentAccepted(Asked.caller, Asked.mandate, Asked.amount,
                                       Asked.expectedSeq)'
            BY <1>5, <2>3, <4>1 DEF FirstStays, groundVars, Atomic!PaymentAccepted,
                 Atomic!Registered, Atomic!MayCall, Atomic!Check, Atomic!SequenceLeft
          <5>2. /\ spent' = [Committed.spent EXCEPT ![Asked.mandate] = @ + Asked.amount]
                /\ seq' = [Committed.seq EXCEPT ![Asked.mandate] = @ + 1]
                /\ status' = [Committed.status EXCEPT
                     ![Asked.mandate] = Atomic!StatusAfter(Asked.mandate,
                                          Committed.spent[Asked.mandate] + Asked.amount)]
            BY <1>9, <4>1, TestsAlike DEF BookPayment, SameBooks
          <5>3. Atomic!StatusAfter(Asked.mandate, Committed.spent[Asked.mandate] + Asked.amount)'
                  = Atomic!StatusAfter(Asked.mandate, Committed.spent[Asked.mandate] + Asked.amount)
            BY <1>5, <2>3 DEF Atomic!StatusAfter, FirstStays, groundVars
          <5> QED BY <2>3, <5>1, <5>2, <5>3 DEF IsPaid
        <4> QED BY <2>3, <3>1, <4>2 DEF IsBooked
      <3>2. CASE Asked.op # "pay"
        <4>1. Asked.op = "revoke"
          BY <1>2, <2>1, <3>2 DEF CallIsChecked
        <4>2. /\ Registered(Asked.mandate)
              /\ status' = [status EXCEPT ![Asked.mandate] = "Revoked"]
              /\ UNCHANGED <<spent, seq>>
          BY <1>2, <2>1, <4>1 DEF Accepts, Writes, RegistryWrites
        <4> QED BY <1>5, <1>9, <2>3, <3>2, <4>2 DEF IsBooked, SameBooks, Registered,
                    FirstStays, groundVars
      <3> QED BY <3>1, <3>2
    <2>5. IF HasConsumed' THEN IsConsumed' ELSE consumed' = Committed'.consumed
      BY <1>5, <2>2, ComparedWithTheSame DEF SoFar
    <2> QED BY <1>6, <1>7, <1>8, <1>10, <2>3, <2>4, <2>5 DEF SoFar
  <1> QED BY <1>3, <1>11, <1>12

\* The top frame calls on, as Invoke and CallOut do.
LEMMA CalledOn ==
  ASSUME CallsInv, ~AtRest, UNCHANGED <<groundVars, authorized>>, UNCHANGED storeVars,
         NEW g, g.contract = Top.contract, g.call = Top.call,
         g.saved = Top.saved, CallIsChecked(policy, g),
         Top.contract \in {"extension", "registry"} => g.step = "waiting",
         NEW f, frames' = Append([frames EXCEPT ![Len(frames)] = g], f)
  PROVE  LET n == Len(frames)
         IN  /\ n \in Nat /\ n >= 1 /\ Len(frames') = n + 1
             /\ DOMAIN frames = 1..n /\ DOMAIN frames' = 1..n + 1
             /\ frames'[n + 1] = f /\ frames'[n] = g /\ Top = frames[n]
             /\ \A i \in 1..n : /\ frames'[i].contract = frames[i].contract
                                /\ i < n => frames'[i] = frames[i]
             /\ FirstStays /\ SameCommitted /\ Store' = Store
             /\ UNCHANGED <<bookVars, consumed, allowance, balance, drawn>>
  <1> DEFINE n == Len(frames)
  <1>1. n \in Nat /\ n >= 1 /\ DOMAIN frames = 1..n /\ Top = frames[n]
    BY TopOfStack
  <1>2. FramePushed(n, f) /\ frames'[n] = g
    BY CallingIsPushing
  <1>3. 1 \in 1..n /\ n + 1 >= 1
    BY <1>1
  <1> HIDE DEF n
  <1>4. FirstStays
    <2>1. Len(frames') = n + 1 /\ n + 1 # 0 /\ Len(<< >>) = 0
      BY <1>1, <1>2 DEF FramePushed
    <2>2. frames' # << >>
      BY <2>1
    <2> QED BY <1>2, <1>3, <2>2 DEF FirstStays, FramePushed, AtRest
  <1>5. SameCommitted
    BY <1>4, ComparedWithTheSame DEF SameCommitted
  <1>6. Store' = Store /\ UNCHANGED <<bookVars, consumed, allowance, balance, drawn>>
    BY DEF storeVars, bookVars, Store
  <1> QED BY <1>1, <1>2, <1>4, <1>5, <1>6 DEF FramePushed, n

LEMMA InvokeGoesOn ==
  ASSUME CallsInv, ChainInv, OnStackOnce, SoFar, ~AtRest, ~Driven,
         UNCHANGED <<groundVars, authorized>>, Invoke
  PROVE  GoesOn
  <1> DEFINE n == Len(frames)
             f == Callee(Top)
             g == [Top EXCEPT !.step = "waiting"]
  <1>1. CASE ~Admits(Callee(Top).contract)
    BY <1>1, UnwindGoesOn DEF Invoke
  <1> SUFFICES ASSUME Admits(Callee(Top).contract)
               PROVE  GoesOn
    BY <1>1
  <1>2. /\ frames' = Append(At("waiting"), f) /\ UNCHANGED storeVars /\ Top.step = "calling"
    BY DEF Invoke
  <1>3. Top = frames[n] /\ FrameShape(Top) /\ CallIsChecked(policy, Top)
    BY TopOfStack
  <1>4. /\ g.contract = Top.contract /\ g.call = Top.call /\ g.saved = Top.saved
        /\ g.step = "waiting"
    BY <1>3 DEF FrameShape
  <1>5. CallIsChecked(policy, g)
    BY <1>2, <1>3, <1>4 DEF CallIsChecked, InFlight
  <1>6. frames' = Append([frames EXCEPT ![Len(frames)] = g], f)
    BY <1>2, <1>3 DEF At
  <1>7. /\ f.step = "entered"
        /\ f.contract = IF Top.contract = "extension" THEN "registry" ELSE "token"
    BY DEF Callee, Frame
  <1> HIDE DEF g, f
  <1>8. /\ n \in Nat /\ n >= 1 /\ Len(frames') = n + 1
        /\ DOMAIN frames = 1..n /\ DOMAIN frames' = 1..n + 1
        /\ frames'[n + 1] = f /\ frames'[n] = g
        /\ \A i \in 1..n : /\ frames'[i].contract = frames[i].contract
                           /\ i < n => frames'[i] = frames[i]
        /\ FirstStays /\ SameCommitted
        /\ UNCHANGED <<bookVars, consumed, allowance, balance, drawn>>
    BY <1>2, <1>4, <1>5, <1>6, CalledOn
  <1>9. LowerFrames /\ \/ Alone("extension") \/ Alone("registry") \/ Two("extension", "registry")
    BY <1>2, <1>3, Stacks DEF LowerFrames, Two, Three, SoFar, CalledBack
  <1>10. /\ HasConsumed' = HasConsumed /\ HasBooked' = HasBooked
         /\ ~HasMoved /\ ~HasMoved' /\ CalledBack'
    <2>1. CASE Alone("extension")
      <3>1. Len(frames') = 2 /\ frames'[2] = f /\ frames'[1] = g /\ Top = frames[1]
        BY <1>3, <1>8, <2>1 DEF Alone
      <3> QED BY <1>2, <1>4, <1>7, <2>1, <3>1 DEF HasConsumed, HasBooked, HasMoved,
                 RegistryIsAt, CalledBack, Alone
    <2>2. CASE Alone("registry")
      <3>1. /\ Len(frames') = 2 /\ frames'[2] = f /\ frames'[1] = g /\ Top = frames[1]
            /\ 2 \in DOMAIN frames' /\ f.contract = "token"
        BY <1>3, <1>7, <1>8, <2>2 DEF Alone
      <3> QED BY <1>2, <1>4, <2>2, <3>1 DEF HasConsumed, HasBooked, HasMoved,
                 RegistryIsAt, CalledBack, Alone
    <2>3. CASE Two("extension", "registry")
      <3>1. /\ Len(frames') = 3 /\ frames'[3] = f /\ frames'[2] = g /\ Top = frames[2]
            /\ frames'[1] = frames[1] /\ 3 \in DOMAIN frames' /\ f.contract = "token"
        BY <1>3, <1>7, <1>8, <2>3 DEF Two
      <3> QED BY <1>2, <1>4, <2>3, <3>1 DEF HasConsumed, HasBooked, HasMoved,
                 RegistryIsAt, CalledBack, Two
    <2> QED BY <1>9, <2>1, <2>2, <2>3
  <1>11. SoFar'
    BY <1>8, <1>10, ComparedWithTheSame DEF SoFar
  <1> QED BY <1>8, <1>11, SeenByNone DEF GoesOn

LEMMA CallOutGoesOn ==
  ASSUME CallsInv, ChainInv, OnStackOnce, SoFar, hostRefuses, ~AtRest, ~Driven,
         UNCHANGED <<groundVars, authorized>>, CallOut
  PROVE  GoesOn
  <1> DEFINE n == Len(frames)
             g == [Top EXCEPT !.made = @ + 1]
  <1>1. PICK c \in OutsideCalls :
          /\ Admits(c[1])
          /\ frames' = Append([frames EXCEPT ![Len(frames)].made = @ + 1], Frame(c[1], c[2]))
    BY DEF CallOut
  <1> DEFINE f == Frame(c[1], c[2])
  <1>2. Top.contract \in Untrusted /\ UNCHANGED storeVars
    BY DEF CallOut
  <1>3. Top = frames[n] /\ FrameShape(Top) /\ CallIsChecked(policy, Top)
    BY TopOfStack
  <1>4. /\ g.contract = Top.contract /\ g.call = Top.call /\ g.saved = Top.saved
        /\ g.step = Top.step
    BY <1>3 DEF FrameShape
  <1>5. CallIsChecked(policy, g)
    BY <1>2, <1>4 DEF CallIsChecked, Untrusted
  <1>6. frames' = Append([frames EXCEPT ![Len(frames)] = g], f)
    BY <1>1, <1>3
  <1>7. /\ f.step = "entered" /\ f.saved = Store /\ f.contract = c[1]
        /\ c[1] \in {"extension", "registry"}
    BY DEF Frame, OutsideCalls
  <1> HIDE DEF g, f
  <1>8. /\ n \in Nat /\ n >= 1 /\ Len(frames') = n + 1
        /\ DOMAIN frames = 1..n /\ DOMAIN frames' = 1..n + 1
        /\ frames'[n + 1] = f /\ frames'[n] = g
        /\ \A i \in 1..n : /\ frames'[i].contract = frames[i].contract
                           /\ i < n => frames'[i] = frames[i]
        /\ FirstStays /\ SameCommitted /\ Store' = Store
        /\ UNCHANGED <<bookVars, consumed, allowance, balance, drawn>>
    BY <1>2, <1>4, <1>5, <1>6, CalledOn DEF Untrusted
  <1>9. Two("registry", "token")
    <2>1. \A i \in 1..n : frames[i].contract # c[1]
      BY <1>1, <1>8 DEF Admits
    <2>2. ~Three("extension", "registry", "token")
      <3> SUFFICES ASSUME Three("extension", "registry", "token") PROVE FALSE
        OBVIOUS
      <3>1. 1 \in 1..n /\ 2 \in 1..n
        BY DEF Three
      <3> QED BY <1>7, <2>1, <3>1 DEF Three
    <2> QED BY <1>2, <1>3, <2>2, Stacks DEF Alone, Two, Three, Untrusted
  <1>10. /\ Len(frames') = 3 /\ frames'[3] = f /\ frames'[2] = g /\ frames'[1] = frames[1]
         /\ 2 \in DOMAIN frames /\ 2 \in DOMAIN frames' /\ g.contract = "token"
    BY <1>3, <1>4, <1>8, <1>9 DEF Two
  <1>11. /\ HasConsumed' = HasConsumed /\ HasBooked' = HasBooked
         /\ ~HasMoved /\ ~HasMoved' /\ CalledBack'
    BY <1>7, <1>8, <1>9, <1>10 DEF HasConsumed, HasBooked, HasMoved, RegistryIsAt,
       CalledBack, Two
  <1>12. SoFar'
    BY <1>8, <1>11, ComparedWithTheSame DEF SoFar
  <1> QED BY <1>8, <1>12, SeenByNone DEF GoesOn

\* The transaction ends, and what others see is the whole of its effect at once.
LEMMA EndsAtOnce ==
  ASSUME CallsInv, ChainInv, SoFar, ~AtRest, ~Driven, Len(frames) = 1,
         UNCHANGED <<groundVars, authorized>>, Return
  PROVE  AtRest' /\ Atomic!Next
  <1> DEFINE c == Asked
             m == Asked.mandate
  <1>1. /\ Top = frames[1] /\ frames[1].step = "waiting" /\ DOMAIN frames = {1}
        /\ CallIsChecked(policy, Top) /\ StageIsRight(terms, Top)
    BY TopOfStack, TopOfChain DEF Return
  <1>2. AtRest'
    <2>1. frames' = SubSeq(frames, 1, 0)
      BY DEF Return, Front
    <2> QED BY <2>1 DEF AtRest
  <1>3. frames[1].contract \in {"extension", "registry"}
    BY <1>1 DEF StageIsRight
  <1>4. UNCHANGED <<bookVars, consumed, allowance, balance, drawn>>
    BY DEF Return, Writes, RegistryWrites, ExtensionWrites
  <1>5. /\ Committed'.spent = spent /\ Committed'.seq = seq /\ Committed'.status = status
        /\ Committed'.consumed = consumed /\ Committed'.allowance = allowance
        /\ Committed'.balance = balance /\ Committed'.drawn = drawn
    BY <1>2, <1>4, StoreIsAllNext DEF Committed, bookVars
  <1>6. RegistryIsAt = "waiting"
    BY <1>1, <1>3 DEF RegistryIsAt
  <1>7. HasBooked /\ IsBooked /\ IsOpenCall
    BY <1>6 DEF HasBooked, SoFar
  <1>8. ASSUME c.op = "pay"
        PROVE  Atomic!ExecutePayment(c.caller, m, c.amount, c.expectedSeq)
    <2>1. HasMoved /\ IsMoved
      BY <1>1, <1>3, <1>6, <1>8 DEF HasMoved, SoFar
    <2>2. /\ Atomic!PaymentAccepted(c.caller, m, c.amount, c.expectedSeq)
          /\ Atomic!BookPayment(m, c.amount)
      BY <1>5, <1>7, <1>8 DEF IsBooked, IsPaid, Atomic!BookPayment
    <2>3. Atomic!Settle(Atomic!Transfer(m, c.amount))
      <3>1. Atomic!Transfer(m, c.amount) = Batch
        BY SameDue DEF Batch
      <3>2. Atomic!Settle(Batch)
        BY <1>5, <2>1, SameDue DEF IsMoved, Atomic!Settle
      <3> QED BY <3>1, <3>2
    <2> QED BY <2>2, <2>3 DEF Atomic!ExecutePayment, groundVars
  <1>9. CASE frames[1].contract = "extension"
    <2>1. HasConsumed /\ IsConsumed
      BY <1>1, <1>9 DEF HasConsumed, SoFar
    <2>2. /\ c.op = "pay" /\ c.caller = Extension /\ m = frames[1].call.mandate
          /\ c.amount = frames[1].call.amount /\ c.expectedSeq = frames[1].call.expectedSeq
      BY <1>9 DEF Asked, PayCall
    <2>3. Atomic!Execute(frames[1].call)
      BY <1>5, <1>8, <2>1, <2>2 DEF IsConsumed, Atomic!Execute, groundVars
    <2>4. frames[1].call \in Atomic!Requests
      BY <1>7, <1>9 DEF IsOpenCall, Requests, Atomic!Requests
    <2> QED BY <1>2, <2>3, <2>4 DEF Atomic!Next
  <1>10. CASE frames[1].contract = "registry"
    <2>1. UNCHANGED Atomic!policyVars
      <3>1. Committed'.consumed = Committed.consumed
        BY <1>5, <1>10 DEF HasConsumed, SoFar
      <3> QED BY <3>1 DEF Atomic!policyVars, groundVars
    <2>2. c = frames[1].call
      BY <1>10 DEF Asked
    <2>3. CASE c.op = "pay"
      <3>1. /\ c.caller \in Agents \ {Extension} /\ m \in Mandates /\ c.amount \in PaymentAmounts
            /\ c.expectedSeq \in 0..MaxSeq
        BY <1>7, <1>10, <2>2, <2>3 DEF IsOpenCall
      <3> QED BY <1>2, <1>8, <2>1, <2>3, <3>1 DEF Atomic!Next, Atomic!RegistryStep
    <2>4. CASE c.op # "pay"
      <3>1. m \in Mandates
        BY <1>1, <1>10, <2>2, <2>4 DEF CallIsChecked
      <3>2. SameTokens
        BY <2>4 DEF HasMoved, SoFar
      <3>3. Atomic!RevokeMandate(m)
        BY <1>5, <1>7, <2>4, <3>2 DEF IsBooked, SameTokens, Atomic!RevokeMandate, groundVars,
           Atomic!tokenVars, Registered, Atomic!Registered
      <3> QED BY <1>2, <2>1, <3>1, <3>3 DEF Atomic!Next, Atomic!RegistryStep
    <2> QED BY <2>3, <2>4
  <1> QED BY <1>3, <1>9, <1>10

\* The registry has answered the extension, or the token the registry.
LEMMA LeavingGoesOn ==
  ASSUME CallsInv, ChainInv, OnStackOnce, SoFar, ~AtRest, ~Driven,
         UNCHANGED <<groundVars, authorized>>, Return \/ MoveAndReturn \/ Finish
  PROVE  GoesOn \/ (AtRest' /\ Atomic!Next)
  <1> DEFINE n == Len(frames)
  <1>1. /\ n \in Nat /\ n >= 1 /\ DOMAIN frames = 1..n /\ Top = frames[n]
        /\ frames' = SubSeq(frames, 1, n - 1)
    BY TopOfStack DEF Return, MoveAndReturn, Finish, Front
  <1>2. /\ Len(frames') = n - 1 /\ DOMAIN frames' = 1..n - 1
        /\ \A i \in 1..n - 1 : frames'[i] = frames[i]
    <2>1. n - 1 \in 0..n - 1
      BY <1>1
    <2> QED BY <1>1, <2>1, CutStack
  <1>3. CASE n = 1
    <2>1. Top.contract \in {"extension", "registry"} /\ DOMAIN frames = {1}
      BY <1>1, <1>3, Stacks DEF Alone, Two, Three
    <2>2. Return
      BY <2>1 DEF MoveAndReturn, Finish
    <2> QED BY <1>3, <2>2, EndsAtOnce
  <1>4. CASE n # 1
    <2>1. n \in {2, 3} /\ LowerFrames
      BY <1>4, Stacks DEF Alone, Two, Three
    <2>2. FirstStays
      <3>1. 1 \in 1..n - 1 /\ Len(frames') # 0 /\ Len(<< >>) = 0
        BY <1>2, <2>1
      <3>2. frames' # << >>
        BY <3>1
      <3> QED BY <1>2, <3>1, <3>2 DEF FirstStays, AtRest
    <2>3. SameCommitted
      BY <2>2, ComparedWithTheSame DEF SameCommitted
    <2>4. UNCHANGED <<bookVars, consumed>>
      BY DEF Return, MoveAndReturn, Finish, storeVars, Writes, RegistryWrites, ExtensionWrites
    <2>5. CalledBack'
      <3>1. Len(frames') # 3
        BY <1>2, <2>1
      <3> QED BY <3>1 DEF CalledBack
    <2>6. SoFar /\ Asked' = Asked /\ Batch' = Batch
      BY <2>2, ComparedWithTheSame
    <2>7. CASE Return
      <3>1. Two("extension", "registry")
        BY <1>1, <1>4, <2>1, <2>7, Stacks DEF Return, Alone, Two, Three, LowerFrames, SoFar,
           CalledBack
      <3>2. /\ Len(frames') = 1 /\ frames'[1] = frames[1] /\ DOMAIN frames' = {1}
            /\ DOMAIN frames = {1, 2} /\ frames[2].step = "waiting" /\ frames[1].step = "waiting"
        BY <1>1, <1>2, <2>1, <2>7, <3>1 DEF Two, LowerFrames, Return
      <3>3. /\ HasConsumed' = HasConsumed /\ HasBooked' = HasBooked /\ HasMoved' = HasMoved
        BY <2>6, <3>1, <3>2 DEF HasConsumed, HasBooked, HasMoved, RegistryIsAt, Two
      <3>4. UNCHANGED <<allowance, balance, drawn>>
        BY <2>7 DEF Return, Writes
      <3>5. SoFar'
        BY <2>2, <2>4, <2>5, <3>3, <3>4, ComparedWithTheSame DEF SoFar
      <3> QED BY <2>2, <2>3, <3>5, SeenByNone DEF GoesOn
    <2>8. CASE MoveAndReturn
      <3>1. Two("registry", "token") \/ Three("extension", "registry", "token")
        BY <1>1, <1>4, <2>8, Stacks DEF MoveAndReturn, Alone, Two, Three
      <3>2. Top.call = Asked /\ Asked.op = "pay"
        BY <1>1, <2>1, <3>1 DEF LowerFrames, Two, Three
      <3>3. HasConsumed' = HasConsumed /\ HasBooked' = HasBooked /\ ~HasMoved /\ HasMoved'
        <4>1. CASE Two("registry", "token")
          <5>1. /\ Len(frames') = 1 /\ frames'[1] = frames[1] /\ DOMAIN frames' = {1}
                /\ 2 \in DOMAIN frames /\ frames[1].step = "waiting"
            BY <1>1, <1>2, <2>1, <4>1 DEF Two, LowerFrames
          <5> QED BY <2>6, <3>2, <4>1, <5>1 DEF HasConsumed, HasBooked, HasMoved, RegistryIsAt,
                     Two
        <4>2. CASE Three("extension", "registry", "token")
          <5>1. /\ Len(frames') = 2 /\ frames'[1] = frames[1] /\ frames'[2] = frames[2]
                /\ DOMAIN frames' = {1, 2}
                /\ 3 \in DOMAIN frames /\ frames[2].step = "waiting"
            BY <1>1, <1>2, <2>1, <4>2 DEF Three, LowerFrames
          <5> QED BY <2>6, <3>2, <4>2, <5>1 DEF HasConsumed, HasBooked, HasMoved, RegistryIsAt,
                     Three
        <4> QED BY <3>1, <4>1, <4>2
      <3>4. SameTokens /\ Settle(Batch)
        BY <2>8, <3>2, <3>3 DEF SoFar, MoveAndReturn, Batch
      <3>5. IsMoved'
        <4>1. Committed' = Committed
          BY <2>2, ComparedWithTheSame
        <4>2. Atomic!CanSettle(Batch)
          BY <3>4, SameDue DEF Settle, CanSettle, Atomic!CanSettle, SameTokens
        <4>3. Atomic!CanSettle(Batch)'
          BY <2>2, <2>6, <4>1, <4>2, SameDue DEF Atomic!CanSettle, FirstStays
        <4>4. /\ allowance' = [a \in Assets |-> [u \in Users |->
                                 Committed.allowance[a][u] - Due(Batch, a, u)]]
              /\ balance' = [a \in Assets |-> [u \in Users |->
                               Committed.balance[a][u] - Due(Batch, a, u)]]
              /\ drawn' = [a \in Assets |-> [u \in Users |-> [w \in Payees |->
                             Committed.drawn[a][u][w] + Flow(Batch, a, u, w)]]]
          BY <3>4 DEF Settle, SameTokens
        <4> QED BY <2>6, <4>1, <4>3, <4>4 DEF IsMoved
      <3>6. SoFar'
        BY <2>2, <2>4, <2>5, <3>3, <3>5, ComparedWithTheSame DEF SoFar
      <3> QED BY <2>2, <2>3, <3>6, SeenByNone DEF GoesOn
    <2>9. CASE Finish
      BY <1>1, <1>4, <2>9, Stacks DEF Finish, Alone, Two, Three
    <2> QED BY <2>7, <2>8, <2>9
  <1> QED BY <1>3, <1>4

\* The first frame of a transaction has done nothing yet.
LEMMA BeginsWithNothing ==
  ASSUME CallsInv, UNCHANGED <<groundVars, authorized>>, Begin
  PROVE  GoesOn \/ (Driven' /\ UNCHANGED Atomic!vars)
  <1>1. Len(frames) = 0 /\ Committed = Store /\ UNCHANGED storeVars
    BY DEF Begin, AtRest, Committed
  <1>2. PICK f : /\ frames' = <<f>> /\ f.saved = Store /\ f.step = "entered"
                 /\ f.contract \in {"extension", "registry", "agent"}
                 /\ f.contract = "extension" => f.call \in Requests
                 /\ f.contract = "registry" /\ f.call.op = "pay" =>
                      /\ f.call.caller \in Agents \ {Extension}
                      /\ f.call.mandate \in Mandates
                      /\ f.call.amount \in PaymentAmounts
                      /\ f.call.expectedSeq \in 0..MaxSeq
    <2>1. CASE \E c \in OutsideCalls : frames' = <<Frame(c[1], c[2])>>
      <3>1. PICK c \in OutsideCalls : frames' = <<Frame(c[1], c[2])>>
        BY <2>1
      <3> DEFINE f == Frame(c[1], c[2])
      <3>2. f.contract = c[1] /\ f.call = c[2] /\ f.step = "entered" /\ f.saved = Store
        BY DEF Frame
      <3> HIDE DEF f
      <3>3. /\ c[1] \in {"extension", "registry"}
            /\ c[1] = "extension" => c[2] \in Requests
            /\ c[1] = "registry" /\ c[2].op = "pay" =>
                 /\ c[2].caller \in Agents \ {Extension} /\ c[2].mandate \in Mandates
                 /\ c[2].amount \in PaymentAmounts /\ c[2].expectedSeq \in 0..MaxSeq
        BY DEF OutsideCalls, PayCall
      <3>4. frames' = <<f>>
        BY <3>1 DEF f
      <3> QED BY <3>2, <3>3, <3>4
    <2>2. CASE frames' = <<Frame("agent", [op |-> "drive"])>>
      BY <2>2 DEF Frame
    <2> QED BY <2>1, <2>2 DEF Begin
  <1>3. frames'[1] = f /\ Len(frames') = 1 /\ frames' # << >> /\ DOMAIN frames' = {1}
    BY <1>2
  <1>4. Committed' = Store /\ ~AtRest'
    BY <1>2, <1>3 DEF Committed, AtRest
  <1>5. UNCHANGED <<bookVars, consumed, allowance, balance, drawn>>
    BY <1>1 DEF storeVars
  <1>6. SameCommitted
    BY <1>1, <1>4 DEF SameCommitted
  <1>7. UNCHANGED Atomic!vars
    BY <1>6, SeenByNone
  <1>8. CASE f.contract = "agent"
    BY <1>3, <1>4, <1>7, <1>8 DEF Driven
  <1>9. CASE f.contract # "agent"
    <2>1. IsOpenCall'
      BY <1>2, <1>3 DEF IsOpenCall, Requests, groundVars
    <2>2. ~HasConsumed' /\ ~HasBooked' /\ ~HasMoved' /\ CalledBack'
      BY <1>2, <1>3, <1>9 DEF HasConsumed, HasBooked, HasMoved, RegistryIsAt, CalledBack
    <2>3. consumed' = Committed'.consumed /\ SameBooks' /\ SameTokens'
      BY <1>4, <1>5, StoreIsAll DEF SameBooks, SameTokens, bookVars
    <2>4. SoFar'
      BY <2>1, <2>2, <2>3 DEF SoFar
    <2> QED BY <1>7, <2>4 DEF GoesOn
  <1> QED BY <1>8, <1>9

\* Transactions without calls are the atomic steps they were.
LEMMA WithoutCallsIsAtomic ==
  ASSUME CallsInv, WithoutCalls
  PROVE  AtRest' /\ Atomic!Next
  <1>1. /\ AtRest /\ AtRest'
    BY DEF WithoutCalls, frameVars, AtRest
  <1>2. Committed = Store /\ Committed' = Store'
    BY <1>1 DEF Committed
  <1>3. /\ Committed.spent = spent /\ Committed.seq = seq /\ Committed.status = status
        /\ Committed.consumed = consumed /\ Committed.allowance = allowance
        /\ Committed.balance = balance /\ Committed.drawn = drawn
    BY <1>2, StoreIsAll
  <1>4. /\ Committed'.spent = spent' /\ Committed'.seq = seq' /\ Committed'.status = status'
        /\ Committed'.consumed = consumed' /\ Committed'.allowance = allowance'
        /\ Committed'.balance = balance' /\ Committed'.drawn = drawn'
    BY <1>2, StoreIsAllNext
  <1>5. policyVars' = policyVars => UNCHANGED Atomic!policyVars
    BY <1>3, <1>4 DEF policyVars, Atomic!policyVars
  <1>6. ASSUME NEW m \in Mandates, NEW t \in MandateTerms, RegisterMandate(m, t)
        PROVE  Atomic!RegisterMandate(m, t)
    BY <1>3, <1>4, <1>6 DEF RegisterMandate, Atomic!RegisterMandate, IsFresh, Atomic!IsFresh,
       Registered, Atomic!Registered, tokenVars, Atomic!tokenVars
  <1>7. (Pause => Atomic!Pause) /\ (Unpause => Atomic!Unpause) /\ (Tick => Atomic!Tick)
    BY <1>3, <1>4 DEF Pause, Unpause, Tick, Atomic!Pause, Atomic!Unpause, Atomic!Tick,
       mandateVars, tokenVars, Atomic!mandateVars, Atomic!tokenVars
  <1>8. TokenStep => Atomic!TokenStep
    <2>1. ASSUME NEW a \in Assets, NEW u \in Users, NEW v, Approve(a, u, v)
          PROVE  Atomic!Approve(a, u, v)
      BY <1>3, <1>4, <2>1 DEF Approve, Atomic!Approve
    <2>2. ASSUME NEW a \in Assets, NEW u \in Users, NEW v, MoveFunds(a, u, v)
          PROVE  Atomic!MoveFunds(a, u, v)
      BY <1>3, <1>4, <2>2 DEF MoveFunds, Atomic!MoveFunds
    <2>3. ASSUME NEW a \in Assets, NEW x, SetAuthorized(a, x)
          PROVE  Atomic!SetAuthorized(a, x)
      BY <1>3, <1>4, <2>3 DEF SetAuthorized, Atomic!SetAuthorized
    <2>4. Environment => Atomic!Environment
      BY <2>1, <2>2, <2>3 DEF Environment, Atomic!Environment
    <2>5. mandateVars' = mandateVars => UNCHANGED Atomic!mandateVars
      BY <1>3, <1>4 DEF mandateVars, Atomic!mandateVars
    <2> QED BY <2>4, <2>5 DEF TokenStep, Atomic!TokenStep
  <1>9. ASSUME NEW m \in Mandates, NEW cap \in Caps, NEW notBefore \in StartTimes,
               InstallPolicy(m, cap, notBefore)
        PROVE  Atomic!InstallPolicy(m, cap, notBefore)
    BY <1>3, <1>4, <1>9 DEF InstallPolicy, Atomic!InstallPolicy, NotYetInstalled,
       Atomic!NotYetInstalled, Installed, Atomic!Installed, Registered, Atomic!Registered,
       registryVars, Atomic!registryVars, mandateVars, Atomic!mandateVars, tokenVars,
       Atomic!tokenVars
  <1>10. CASE \E m \in Mandates, cap \in Caps, notBefore \in StartTimes :
                InstallPolicy(m, cap, notBefore)
    BY <1>1, <1>9, <1>10 DEF Atomic!Next
  <1>11. CASE /\ \/ \E m \in Mandates, t \in MandateTerms : RegisterMandate(m, t)
                 \/ Pause \/ Unpause \/ TokenStep \/ Tick
              /\ UNCHANGED policyVars
    BY <1>1, <1>5, <1>6, <1>7, <1>8, <1>11 DEF Atomic!Next, Atomic!RegistryStep
  <1> QED BY <1>10, <1>11 DEF WithoutCalls

\* A host that refuses re-entry keeps a contract on the stack once.
NotYetOnStack(n, contract) ==
  /\ contract \in {"extension", "registry", "token"}
  /\ \A i \in 1..n : frames[i].contract # contract

LEMMA PushKeepsOnce ==
  ASSUME OnStackOnce, NEW n, n \in Nat, DOMAIN frames = 1..n, NEW f, FramePushed(n, f),
         NotYetOnStack(n, f.contract)
  PROVE  OnStackOnce'
  <1>1. /\ DOMAIN frames' = 1..n + 1 /\ frames'[n + 1] = f
        /\ \A i \in 1..n : frames'[i].contract = frames[i].contract
    BY DEF FramePushed
  <1>2. \A i \in 1..n + 1 : i = n + 1 \/ i \in 1..n
    BY Positions
  <1>3. ASSUME NEW i \in 1..n + 1, NEW j \in 1..n + 1,
               frames'[i].contract = frames'[j].contract
        PROVE  i = j
    BY <1>1, <1>2, <1>3 DEF OnStackOnce, NotYetOnStack
  <1>4. ASSUME NEW i \in 1..n + 1
        PROVE  /\ frames'[i].contract \in {"extension", "registry", "token", "agent"}
               /\ frames'[i].contract = "agent" => i = 1
    BY <1>1, <1>2 DEF OnStackOnce, NotYetOnStack
  <1> QED BY <1>1, <1>3, <1>4 DEF OnStackOnce

LEMMA CutKeepsOnce ==
  ASSUME CallsInv, OnStackOnce, NEW k \in 0..Len(frames) - 1, frames' = SubSeq(frames, 1, k)
  PROVE  OnStackOnce'
  BY CutStack DEF OnStackOnce

LEMMA UnwindKeepsOnce ==
  ASSUME CallsInv, OnStackOnce, Unwind
  PROVE  OnStackOnce'
  BY CutKeepsOnce DEF Unwind

LEMMA CallsKeepOnce ==
  ASSUME CallsInv, ChainInv, OnStackOnce, hostRefuses, InTransaction,
         UNCHANGED <<groundVars, authorized>>
  PROVE  OnStackOnce'
  <1> DEFINE n == Len(frames)
  <1>1. /\ ~AtRest /\ n \in Nat /\ n >= 1 /\ DOMAIN frames = 1..n /\ Top = frames[n]
        /\ FrameShape(Top) /\ CallIsChecked(policy, Top)
    BY TopOfStack DEF InTransaction
  <1>2. CASE Handle
    <2>1. CASE ~Accepts(Top)
      BY <1>2, <2>1, UnwindKeepsOnce DEF Handle
    <2>2. CASE Accepts(Top)
      <3>1. PICK step : frames' = At(step)
        BY <1>2, <2>2 DEF Handle
      <3>2. DOMAIN frames' = DOMAIN frames
            /\ \A i \in DOMAIN frames : frames'[i].contract = frames[i].contract
        BY <1>1, <3>1, MovedOn
      <3> QED BY <3>2 DEF OnStackOnce
    <2> QED BY <2>1, <2>2
  <1>3. CASE Invoke
    <2>1. CASE ~Admits(Callee(Top).contract)
      BY <1>3, <2>1, UnwindKeepsOnce DEF Invoke
    <2>2. CASE Admits(Callee(Top).contract)
      <3> DEFINE f == Callee(Top)
                 g == [Top EXCEPT !.step = "waiting"]
      <3>1. /\ g.contract = Top.contract /\ g.call = Top.call /\ g.saved = Top.saved
            /\ g.step = "waiting"
        BY <1>1 DEF FrameShape
      <3>2. CallIsChecked(policy, g)
        BY <1>1, <1>3, <3>1 DEF CallIsChecked, InFlight, Invoke
      <3>3. frames' = Append([frames EXCEPT ![Len(frames)] = g], f)
        BY <1>1, <1>3, <2>2 DEF At, Invoke
      <3>4. NotYetOnStack(n, f.contract)
        BY <1>1, <2>2 DEF Admits, NotYetOnStack, Callee, Frame
      <3> HIDE DEF g, f
      <3>5. FramePushed(n, f)
        BY <1>1, <3>1, <3>2, <3>3, CallingIsPushing
      <3> HIDE DEF n
      <3> QED BY <1>1, <3>4, <3>5, PushKeepsOnce
    <2> QED BY <2>1, <2>2
  <1>4. CASE Return \/ MoveAndReturn \/ Finish
    <2>1. n - 1 \in 0..n - 1 /\ frames' = SubSeq(frames, 1, n - 1)
      BY <1>1, <1>4 DEF Return, MoveAndReturn, Finish, Front
    <2> QED BY <2>1, CutKeepsOnce
  <1>5. CASE CallOut
    <2> DEFINE g == [Top EXCEPT !.made = @ + 1]
    <2>1. PICK c \in OutsideCalls :
            /\ Admits(c[1])
            /\ frames' = Append([frames EXCEPT ![Len(frames)].made = @ + 1], Frame(c[1], c[2]))
      BY <1>5 DEF CallOut
    <2> DEFINE f == Frame(c[1], c[2])
    <2>2. g.contract = Top.contract /\ g.call = Top.call /\ g.saved = Top.saved
      BY <1>1 DEF FrameShape
    <2>3. Top.contract \in Untrusted /\ CallIsChecked(policy, g)
      BY <1>5, <2>2 DEF CallIsChecked, Untrusted, CallOut
    <2>4. frames' = Append([frames EXCEPT ![Len(frames)] = g], f)
      BY <1>1, <2>1
    <2>5. f.contract = c[1] /\ c[1] \in {"extension", "registry"}
      BY DEF Frame, OutsideCalls
    <2>6. NotYetOnStack(n, f.contract)
      BY <1>1, <2>1, <2>5 DEF Admits, NotYetOnStack
    <2> HIDE DEF g, f
    <2>7. FramePushed(n, f)
      BY <1>1, <2>2, <2>3, <2>4, CallingIsPushing DEF Untrusted
    <2> HIDE DEF n
    <2> QED BY <1>1, <2>6, <2>7, PushKeepsOnce
  <1>6. CASE Fail
    BY <1>6, UnwindKeepsOnce DEF Fail
  <1> QED BY <1>2, <1>3, <1>4, <1>5, <1>6 DEF InTransaction

\* A transaction's first frame is of the contract it was.
LEMMA FirstContract ==
  ASSUME CallsInv, ChainInv, InTransaction, UNCHANGED <<groundVars, authorized>>, ~AtRest'
  PROVE  frames'[1].contract = frames[1].contract
  <1> DEFINE n == Len(frames)
  <1>1. /\ ~AtRest /\ n \in Nat /\ n >= 1 /\ DOMAIN frames = 1..n /\ Top = frames[n]
        /\ FrameShape(Top) /\ CallIsChecked(policy, Top)
    BY TopOfStack DEF InTransaction
  <1>2. ASSUME NEW k \in 0..n - 1, frames' = SubSeq(frames, 1, k)
        PROVE  frames'[1].contract = frames[1].contract
    <2>1. Len(frames') = k /\ \A i \in 1..k : frames'[i] = frames[i]
      BY <1>2, CutStack
    <2>2. k # 0
      BY <1>2 DEF AtRest
    <2>3. 1 \in 1..k
      BY <2>2
    <2> QED BY <2>1, <2>3
  <1>3. ASSUME NEW g, g.contract = Top.contract, g.call = Top.call, g.saved = Top.saved,
               CallIsChecked(policy, g),
               Top.contract \in {"extension", "registry"} => g.step = "waiting",
               NEW f, frames' = Append([frames EXCEPT ![Len(frames)] = g], f)
        PROVE  frames'[1].contract = frames[1].contract
    <2>1. FramePushed(n, f)
      BY <1>1, <1>3, CallingIsPushing
    <2>2. 1 \in 1..n
      BY <1>1
    <2> QED BY <2>1, <2>2 DEF FramePushed
  <1>4. Unwind => frames'[1].contract = frames[1].contract
    BY <1>2 DEF Unwind
  <1>5. CASE Handle
    BY <1>1, <1>4, <1>5, MovedOn DEF Handle
  <1>6. CASE Invoke
    <2> DEFINE g == [Top EXCEPT !.step = "waiting"]
    <2>1. /\ g.contract = Top.contract /\ g.call = Top.call /\ g.saved = Top.saved
          /\ g.step = "waiting"
      BY <1>1 DEF FrameShape
    <2>2. CallIsChecked(policy, g)
      BY <1>1, <1>6, <2>1 DEF CallIsChecked, InFlight, Invoke
    <2>3. CASE Admits(Callee(Top).contract)
      <3>1. frames' = Append([frames EXCEPT ![Len(frames)] = g], Callee(Top))
        BY <1>1, <1>6, <2>3 DEF At, Invoke
      <3> HIDE DEF g
      <3> QED BY <1>3, <2>1, <2>2, <3>1
    <2> QED BY <1>4, <1>6, <2>3 DEF Invoke
  <1>7. CASE Return \/ MoveAndReturn \/ Finish
    <2>1. n - 1 \in 0..n - 1 /\ frames' = SubSeq(frames, 1, n - 1)
      BY <1>1, <1>7 DEF Return, MoveAndReturn, Finish, Front
    <2> QED BY <1>2, <2>1
  <1>8. CASE CallOut
    <2> DEFINE g == [Top EXCEPT !.made = @ + 1]
    <2>1. PICK f : frames' = Append([frames EXCEPT ![Len(frames)] = g], f)
      BY <1>1, <1>8 DEF CallOut
    <2>2. g.contract = Top.contract /\ g.call = Top.call /\ g.saved = Top.saved
      BY <1>1 DEF FrameShape
    <2>3. Top.contract \in Untrusted /\ CallIsChecked(policy, g)
      BY <1>8, <2>2 DEF CallIsChecked, Untrusted, CallOut
    <2> HIDE DEF g
    <2> QED BY <1>3, <2>1, <2>2, <2>3 DEF Untrusted
  <1> QED BY <1>1, <1>4, <1>5, <1>6, <1>7, <1>8 DEF InTransaction, Fail

LEMMA BeginKeepsOnce ==
  ASSUME Begin
  PROVE  OnStackOnce'
  <1>1. PICK f : /\ frames' = <<f>> /\ f.contract \in {"extension", "registry", "agent"}
    BY DEF Begin, OutsideCalls, Frame
  <1>2. DOMAIN frames' = {1} /\ frames'[1] = f
    BY <1>1
  <1> QED BY <1>1, <1>2 DEF OnStackOnce

StepIsAtomic == hostRefuses /\ ~Driven => Atomic!Next \/ UNCHANGED Atomic!vars

LEMMA StepsInvInit == FramesInit => StepsInv
  BY DEF FramesInit, StepsInv, OnStackOnce, AtRest

LEMMA StepsInvStep ==
  CallsInv /\ ChainInv /\ StepsInv /\ [FramesNext]_<<vars, frameVars>>
    => StepsInv' /\ StepIsAtomic
  <1> SUFFICES ASSUME CallsInv, ChainInv, StepsInv, [FramesNext]_<<vars, frameVars>>
               PROVE  StepsInv' /\ StepIsAtomic
    OBVIOUS
  <1>1. CASE InTransaction /\ UNCHANGED <<groundVars, authorized, hostRefuses>>
    <2> SUFFICES ASSUME hostRefuses PROVE StepsInv' /\ StepIsAtomic
      BY <1>1 DEF StepsInv, StepIsAtomic
    <2>1. OnStackOnce /\ OnStackOnce'
      BY <1>1, CallsKeepOnce DEF StepsInv
    <2>2. CASE Driven
      <3>1. ~AtRest' => Driven'
        <4>1. ~AtRest' => frames'[1].contract = frames[1].contract
          BY <1>1, FirstContract
        <4> QED BY <2>2, <4>1 DEF Driven
      <3> QED BY <2>1, <2>2, <3>1 DEF StepsInv, StepIsAtomic
    <2>3. CASE ~Driven
      <3>1. ~AtRest /\ SoFar
        BY <1>1, <2>3 DEF InTransaction, StepsInv
      <3>2. GoesOn \/ (AtRest' /\ Atomic!Next)
        BY <1>1, <2>1, <2>3, <3>1, HandleGoesOn, InvokeGoesOn, LeavingGoesOn, CallOutGoesOn,
           UnwindGoesOn DEF InTransaction, Fail
      <3> QED BY <2>1, <2>3, <3>2 DEF StepsInv, StepIsAtomic, GoesOn
    <2> QED BY <2>2, <2>3
  <1>2. CASE Begin /\ UNCHANGED <<groundVars, authorized, hostRefuses>>
    BY <1>2, BeginKeepsOnce, BeginsWithNothing DEF StepsInv, StepIsAtomic, GoesOn
  <1>3. CASE WithoutCalls
    <2>1. frames' = << >> /\ AtRest'
      BY <1>3 DEF WithoutCalls, frameVars, AtRest
    <2> QED BY <1>3, <2>1, WithoutCallsIsAtomic DEF StepsInv, StepIsAtomic, OnStackOnce
  <1>4. CASE UNCHANGED <<vars, frameVars>>
    <2>1. /\ UNCHANGED <<groundVars, authorized, hostRefuses, frames, bookVars, consumed>>
          /\ UNCHANGED <<allowance, balance, drawn>> /\ Store' = Store
      BY <1>4 DEF vars, frameVars, registryVars, mandateVars, policyVars, tokenVars, Store,
                  groundVars, bookVars
    <2>2. Committed' = Committed
      BY <2>1 DEF Committed, AtRest
    <2>3. UNCHANGED Atomic!vars
      BY <2>1, <2>2, SeenByNone DEF SameCommitted
    <2>4. /\ (AtRest' <=> AtRest) /\ (OnStackOnce' <=> OnStackOnce) /\ (Driven' <=> Driven)
      BY <2>1 DEF AtRest, OnStackOnce, Driven
    <2>5. ~AtRest /\ SoFar => SoFar'
      <3> SUFFICES ASSUME ~AtRest, SoFar PROVE SoFar'
        OBVIOUS
      <3>1. FirstStays
        BY <2>1, <2>4 DEF FirstStays
      <3>2. /\ HasConsumed' = HasConsumed /\ HasBooked' = HasBooked /\ HasMoved' = HasMoved
            /\ (CalledBack' <=> CalledBack)
        BY <2>1 DEF HasConsumed, HasBooked, HasMoved, RegistryIsAt, CalledBack, Asked, PayCall
      <3> QED BY <2>1, <3>1, <3>2, ComparedWithTheSame DEF SoFar
    <2> QED BY <2>1, <2>3, <2>4, <2>5 DEF StepsInv, StepIsAtomic
  <1> QED BY <1>1, <1>2, <1>3, <1>4 DEF FramesNext, groundVars

\* What each of the six stacks a transaction goes through has done so far of the
\* one step it is to be, in every reachable state.
THEOREM StepsInvariant == FramesSpec => [](CallsInv /\ ChainInv /\ StepsInv)
  BY CallsInvInit, CallsInvStep, ChainInit, ChainStep, StepsInvInit, StepsInvStep, PTL
     DEF FramesSpec

\* On a host that refuses re-entry every step another can see is one step of the
\* registry and its extension, whatever the token calls back, whoever swallows
\* an error and wherever a call fails: for any depth and any number of calls.
THEOREM AtomicTransactions == FramesSpec => TransactionsAreAtomic
  <1>1. CallsInv /\ ChainInv /\ StepsInv /\ [FramesNext]_<<vars, frameVars>>
          => [hostRefuses /\ ~Driven => Atomic!Next]_(Atomic!vars)
    BY StepsInvStep DEF StepIsAtomic
  <1> QED BY <1>1, StepsInvariant, PTL DEF FramesSpec, TransactionsAreAtomic

================================================================================
