------------------------ MODULE CompositeRegistry_proofs -----------------------
(***************************************************************************)
(* The composites registry, for every set of users, mandates, pools, terms *)
(* and every behaviour of the tokens: its invariants; the action           *)
(* properties of every single step (who may be charged, what may leave a   *)
(* pool, what is final); the auction and its settlement; the books against *)
(* what the tokens moved, and with them the refinement of the mandate      *)
(* ledger; the lifetimes of the entries; the legacy registry; that         *)
(* commitments resolve; and that open pools stay usable.                   *)
(***************************************************************************)
EXTENDS LegacyRegistry, Clearing_proofs, SequenceTheorems

\* Removing a position shifts what is behind it by one and changes nothing else.
LEMMA RemoveAtShifts ==
  ASSUME NEW S, NEW list \in Seq(S), NEW i \in 1..Len(list)
  PROVE  /\ RemoveAt(list, i) \in Seq(S)
         /\ Len(RemoveAt(list, i)) = Len(list) - 1
         /\ \A j \in 1..(Len(list) - 1) :
              RemoveAt(list, i)[j] = IF j < i THEN list[j] ELSE list[j+1]
  <1> DEFINE front == SubSeq(list, 1, i - 1)
             back  == SubSeq(list, i + 1, Len(list))
  <1>1. Len(list) \in Nat /\ i \in Nat
    OBVIOUS
  <1>2. front \in Seq(S) /\ Len(front) = i - 1 /\ \A j \in 1..(i-1) : front[j] = list[j]
    BY <1>1
  <1>3. /\ back \in Seq(S) /\ Len(back) = Len(list) - i
        /\ \A j \in 1..(Len(list) - i) : back[j] = list[i + j]
    BY <1>1
  <1>4. RemoveAt(list, i) = front \o back
    BY DEF RemoveAt
  <1> HIDE DEF front, back
  <1>5. front \o back \in Seq(S) /\ Len(front \o back) = Len(list) - 1
    <2>1. front \o back \in Seq(S) /\ Len(front \o back) = Len(front) + Len(back)
      BY <1>2, <1>3, ConcatProperties
    <2>2. (i - 1) + (Len(list) - i) = Len(list) - 1
      BY <1>1
    <2> QED BY <2>1, <2>2, <1>2, <1>3
  <1>6. ASSUME NEW j \in 1..(Len(list) - 1)
        PROVE  (front \o back)[j] = IF j < i THEN list[j] ELSE list[j+1]
    <2>1. CASE j < i
      <3>1. j \in 1..(Len(front) + Len(back)) /\ j <= Len(front)
        BY <2>1, <1>1, <1>2, <1>3
      <3> QED BY <3>1, <2>1, <1>1, <1>2, <1>3, ConcatProperties
    <2>2. CASE j >= i
      <3>1. (front \o back)[j] = back[j - (i - 1)]
        <4>1. j \in 1..(Len(front) + Len(back)) /\ ~(j <= Len(front))
          BY <2>2, <1>1, <1>2, <1>3
        <4> QED BY <4>1, <1>2, <1>3, ConcatProperties
      <3>2. j - (i - 1) \in 1..(Len(list) - i) /\ i + (j - (i - 1)) = j + 1
        BY <2>2, <1>1
      <3>3. (front \o back)[j] = list[j+1]
        BY <3>1, <3>2, <1>3
      <3> QED BY <3>3, <1>1, <2>2
    <2>3. j < i \/ j >= i
      BY <1>1
    <2> QED BY <2>1, <2>2, <2>3
  <1> QED BY <1>4, <1>5, <1>6

\* A list of distinct elements loses exactly the element removed.
LEMMA RemoveMemberDrops ==
  ASSUME NEW list \in Seq(Mandates), NEW m,
         \A i, j \in DOMAIN list : list[i] = list[j] => i = j,
         \E i \in DOMAIN list : list[i] = m
  PROVE  LET rest == RemoveMember(list, m) IN
         /\ rest \in Seq(Mandates)
         /\ Len(rest) = Len(list) - 1
         /\ \A i, j \in DOMAIN rest : rest[i] = rest[j] => i = j
         /\ {rest[i] : i \in DOMAIN rest} = {list[i] : i \in DOMAIN list} \ {m}
  <1> DEFINE at == {i \in DOMAIN list : list[i] = m}
             rest == RemoveMember(list, m)
  <1>1. DOMAIN list = 1..Len(list) /\ Len(list) \in Nat
    OBVIOUS
  <1>2. PICK k \in 1..Len(list) : list[k] = m
    BY <1>1
  <1>3. at = {k}
    BY <1>1, <1>2
  <1>4. Min(at) = k
    <2>1. at \subseteq Nat /\ at # {}
      BY <1>1, <1>3
    <2> HIDE DEF at
    <2>2. Min(at) \in at
      BY <2>1, MinIsLeast
    <2> QED BY <2>2, <1>3
  <1>5. rest = RemoveAt(list, k)
    BY <1>3, <1>4 DEF RemoveMember
  <1>6. /\ rest \in Seq(Mandates) /\ Len(rest) = Len(list) - 1
        /\ \A j \in 1..(Len(list) - 1) :
             rest[j] = IF j < k THEN list[j] ELSE list[j+1]
    <2> HIDE DEF rest
    <2> QED BY <1>5, RemoveAtShifts
  <1>7. DOMAIN rest = 1..(Len(list) - 1)
    BY <1>6
  <1> HIDE DEF rest, at
  <1>8. ASSUME NEW i \in DOMAIN rest, NEW j \in DOMAIN rest, rest[i] = rest[j]
        PROVE  i = j
    <2> DEFINE Back(n) == IF n < k THEN n ELSE n + 1
    <2>1. /\ Back(i) \in 1..Len(list) /\ rest[i] = list[Back(i)]
          /\ Back(j) \in 1..Len(list) /\ rest[j] = list[Back(j)]
      BY <1>1, <1>2, <1>6, <1>7
    <2>2. Back(i) = Back(j)
      BY <2>1, <1>8, <1>1
    <2> QED BY <2>2, <1>1, <1>7
  <1>9. ASSUME NEW i \in DOMAIN rest
        PROVE  rest[i] # m /\ \E j \in DOMAIN list : rest[i] = list[j]
    <2>1. CASE i < k
      BY <2>1, <1>1, <1>2, <1>6, <1>7
    <2>2. CASE i >= k
      <3>1. i + 1 \in DOMAIN list /\ i + 1 # k /\ rest[i] = list[i + 1]
        BY <2>2, <1>1, <1>6, <1>7
      <3> QED BY <3>1, <1>1, <1>2
    <2> QED BY <2>1, <2>2, <1>1, <1>7
  <1>10. ASSUME NEW j \in DOMAIN list, list[j] # m
         PROVE  \E i \in DOMAIN rest : rest[i] = list[j]
    <2>1. CASE j < k
      <3>1. j \in DOMAIN rest /\ rest[j] = list[j]
        BY <2>1, <1>1, <1>2, <1>6, <1>7
      <3> QED BY <3>1
    <2>2. CASE j > k
      <3>1. j - 1 \in DOMAIN rest /\ rest[j-1] = list[j]
        BY <2>2, <1>1, <1>2, <1>6, <1>7
      <3> QED BY <3>1
    <2> QED BY <2>1, <2>2, <1>1, <1>2, <1>10
  <1>11. {rest[i] : i \in DOMAIN rest} = {list[i] : i \in DOMAIN list} \ {m}
    BY <1>9, <1>10
  <1> QED BY <1>6, <1>8, <1>11 DEF rest

--------------------------------------------------------------------------------
\* What the stored fields of a mandate and of a pool can be.
LEMMA SignedTerms ==
  ASSUME RegistryTypeOK, NEW m \in Mandates, Registered(m)
  PROVE  /\ terms[m] \in MandateTerms
         /\ terms[m].user \in Users /\ terms[m].merchant \in Payees
         /\ terms[m].asset \in Assets
         /\ terms[m].maxAmount \in Int /\ terms[m].expiry \in Nat
         /\ terms[m].pool \in Pools \union {NoPool}
  <1>1. terms[m] \in MandateTerms
    BY DEF RegistryTypeOK, Registered
  <1>2. terms[m] \in MandateTermsType
    BY <1>1, RegistryConstants
  <1> QED BY <1>1, <1>2 DEF MandateTermsType

LEMMA PoolTermsTyped ==
  ASSUME NEW p \in Pools
  PROVE  /\ PoolTerms[p].asset \in Assets /\ PoolTerms[p].merchant \in Payees
         /\ Deadline(p) \in Nat /\ WindowEnd(p) \in Nat
         /\ Deadline(p) <= WindowEnd(p)
  <1>1. PoolTerms[p] \in PoolTermsType
    BY RegistryConstants
  <1> QED BY <1>1, RegistryConstants DEF PoolTermsType, Deadline, WindowEnd

\* Everything but the two type conjuncts is about the mandates and the pools.
LEMMA QuietStep ==
  ASSUME RegistryInv, UNCHANGED <<mandateVars, poolVars>>,
         RegistryTypeOK', FundsTypeOK'
  PROVE  RegistryInv'
  <1> USE DEF mandateVars, poolVars, Registered
  <1>1. TermsAccepted'
    BY DEF RegistryInv, TermsAccepted
  <1>2. EntriesCoherent'
    BY DEF RegistryInv, EntriesCoherent, Room, MandateWorstCase
  <1>3. BudgetKept'
    BY DEF RegistryInv, BudgetKept
  <1>4. MembershipAgrees'
    BY DEF RegistryInv, MembershipAgrees, MemberSet
  <1>5. OneSeatPerUser'
    BY DEF RegistryInv, OneSeatPerUser
  <1> QED BY <1>1, <1>2, <1>3, <1>4, <1>5 DEF RegistryInv

LEMMA InitEstablishes == Init => RegistryInv
  <1> SUFFICES ASSUME Init PROVE RegistryInv
    OBVIOUS
  <1> USE DEF Init, Registered
  <1>1. RegistryTypeOK
    <2>1. 0 \in 0..MaxTime /\ 0 \in 0..MaxSeq /\ 0 \in 0..MaxPoolMembers
      BY RegistryConstants
    <2>2. members \in [Pools -> Seq(Mandates)]
      OBVIOUS
    <2> QED BY <2>1, <2>2 DEF RegistryTypeOK
  <1>2. FundsTypeOK
    BY TokenConstants DEF FundsTypeOK, TokenInit
  <1>3. TermsAccepted /\ EntriesCoherent /\ BudgetKept /\ OneSeatPerUser
    BY DEF TermsAccepted, EntriesCoherent, BudgetKept, OneSeatPerUser
  <1>4. MembershipAgrees
    BY DEF MembershipAgrees
  <1> QED BY <1>1, <1>2, <1>3, <1>4 DEF RegistryInv

LEMMA PausePreserves == RegistryInv /\ (Pause \/ Unpause) => RegistryInv'
  <1> SUFFICES ASSUME RegistryInv, Pause \/ Unpause PROVE RegistryInv'
    OBVIOUS
  <1>1. RegistryTypeOK' /\ FundsTypeOK'
    BY DEF RegistryInv, RegistryTypeOK, FundsTypeOK, Pause, Unpause, mandateVars,
           poolVars, tokenVars
  <1> QED BY <1>1, QuietStep DEF Pause, Unpause

LEMMA TickPreserves == RegistryInv /\ Tick => RegistryInv'
  <1> SUFFICES ASSUME RegistryInv, Tick PROVE RegistryInv'
    OBVIOUS
  <1>1. RegistryTypeOK' /\ FundsTypeOK'
    BY RegistryConstants DEF RegistryInv, RegistryTypeOK, FundsTypeOK, Tick,
       mandateVars, poolVars, tokenVars
  <1> QED BY <1>1, QuietStep DEF Tick

LEMMA TokenStepPreserves == RegistryInv /\ TokenStep => RegistryInv'
  <1> SUFFICES ASSUME RegistryInv, TokenStep PROVE RegistryInv'
    OBVIOUS
  <1>1. RegistryTypeOK'
    BY DEF RegistryInv, RegistryTypeOK, TokenStep, mandateVars, poolVars
  <1>2. FundsTypeOK'
    <2> USE DEF RegistryInv, FundsTypeOK
    <2>1. CASE UNCHANGED <<allowance, balance>>
      BY <2>1
    <2>2. ASSUME NEW a \in Assets, NEW u \in Users,
                 NEW v \in AllowanceValues, Approve(a, u, v)
          PROVE  FundsTypeOK'
      BY <2>2, TokenConstants DEF Approve
    <2>3. ASSUME NEW a \in Assets, NEW u \in Users,
                 NEW v \in BalanceValues, MoveFunds(a, u, v)
          PROVE  FundsTypeOK'
      BY <2>3, TokenConstants DEF MoveFunds
    <2> HIDE DEF RegistryInv, FundsTypeOK
    <2> QED BY <2>1, <2>2, <2>3 DEF TokenStep, Environment, SetAuthorized
  <1> QED BY <1>1, <1>2, QuietStep DEF TokenStep

LEMMA MembersAreMandates ==
  ASSUME RegistryTypeOK, NEW p \in Pools
  PROVE  /\ members[p] \in Seq(Mandates)
         /\ DOMAIN members[p] = 1..Len(members[p]) /\ Len(members[p]) \in Nat
         /\ \A i \in DOMAIN members[p] : members[p][i] \in Mandates
  <1>1. members[p] \in Seq(Mandates)
    BY DEF RegistryTypeOK
  <1> QED BY <1>1

--------------------------------------------------------------------------------
\* The registration of a pool and of a mandate.
LEMMA RegisterPoolPreserves ==
  ASSUME RegistryInv, NEW p \in Pools, RegisterPool(p)
  PROVE  RegistryInv'
  <1> USE DEF RegisterPool, mandateVars, tokenVars, Registered
  <1>1. RegistryTypeOK'
    <2>1. 0 \in 0..MaxPoolMembers /\ << >> \in Seq(Mandates)
      BY RegistryConstants
    <2> QED BY <2>1 DEF RegistryInv, RegistryTypeOK
  <1>2. FundsTypeOK'
    BY DEF RegistryInv, FundsTypeOK
  <1>3. TermsAccepted' /\ EntriesCoherent' /\ BudgetKept' /\ OneSeatPerUser'
    BY DEF RegistryInv, TermsAccepted, EntriesCoherent, BudgetKept,
           OneSeatPerUser, Room, MandateWorstCase
  <1>4. MembershipAgrees'
    <2>1. ASSUME NEW q \in Pools
          PROVE  /\ q # p => /\ poolStatus'[q] = poolStatus[q]
                             /\ members'[q] = members[q]
                             /\ memberCount'[q] = memberCount[q]
                 /\ q = p => /\ poolStatus'[q] = "Open"
                             /\ members'[q] = << >>
                             /\ memberCount'[q] = 0
      BY DEF RegistryInv, RegistryTypeOK
    <2>2. ASSUME NEW m \in Mandates, poolState[m] = "Committed"
          PROVE  terms[m].pool \in Pools /\ terms[m].pool # p
      BY <2>2 DEF RegistryInv, MembershipAgrees
    <2> QED BY <2>1, <2>2 DEF RegistryInv, MembershipAgrees, MemberSet
  <1> QED BY <1>1, <1>2, <1>3, <1>4 DEF RegistryInv

LEMMA RegisterMandatePreserves ==
  ASSUME RegistryInv, NEW m \in Mandates, NEW t \in MandateTerms,
         RegisterMandate(m, t)
  PROVE  RegistryInv'
  <1> USE DEF RegisterMandate, poolVars, tokenVars, Registered
  <1>1. t # NoTerms /\ t \in MandateTermsType
    BY RegistryConstants
  <1>2. RegistryTypeOK'
    <2>1. 0 \in 0..MaxSeq
      BY RegistryConstants
    <2> QED BY <2>1 DEF RegistryInv, RegistryTypeOK
  <1>3. FundsTypeOK'
    BY DEF RegistryInv, FundsTypeOK
  <1>4. /\ terms'[m] = t /\ status'[m] = "Active" /\ spent'[m] = 0
        /\ seq'[m] = 0 /\ poolState'[m] = "Unlinked"
        /\ \A n \in Mandates \ {m} :
             /\ terms'[n] = terms[n] /\ status'[n] = status[n]
             /\ spent'[n] = spent[n] /\ seq'[n] = seq[n]
             /\ poolState'[n] = poolState[n]
    BY DEF RegistryInv, RegistryTypeOK
  <1>5. poolState[m] = "None"
    BY DEF RegistryInv, EntriesCoherent
  <1>6. TermsAccepted'
    <2>1. t.pool # NoPool => t.pool \in Pools
      BY <1>1 DEF MandateTermsType
    <2> QED BY <1>4, <2>1 DEF RegistryInv, TermsAccepted, PoolAccepts
  <1>7. EntriesCoherent'
    BY <1>1, <1>4 DEF RegistryInv, EntriesCoherent, Room, MandateWorstCase
  <1>8. BudgetKept'
    <2>1. t.maxAmount \in Int /\ 0 < t.maxAmount
      BY <1>1 DEF MandateTermsType
    <2> QED BY <1>1, <1>4, <2>1 DEF RegistryInv, BudgetKept
  <1>9. MembershipAgrees'
    <2>1. ASSUME NEW q \in Pools, poolStatus[q] = "Open", NEW i \in DOMAIN members[q]
          PROVE  members[q][i] \in Mandates \ {m}
      BY <1>5, <2>1, MembersAreMandates DEF RegistryInv, MembershipAgrees
    <2> QED BY <1>4, <2>1 DEF RegistryInv, MembershipAgrees, MemberSet
  <1>10. OneSeatPerUser'
    BY <1>4 DEF RegistryInv, OneSeatPerUser
  <1> QED BY <1>2, <1>3, <1>6, <1>7, <1>8, <1>9, <1>10 DEF RegistryInv

--------------------------------------------------------------------------------
\* Membership.
LEMMA CommitChildPreserves ==
  ASSUME RegistryInv, NEW m \in Mandates, CommitChild(m)
  PROVE  RegistryInv'
  <1> DEFINE p == terms[m].pool
  <1> USE DEF CommitChild, tokenVars, Registered
  <1>1. p \in Pools
    BY SignedTerms DEF RegistryInv
  <1>2. /\ members[p] \in Seq(Mandates)
        /\ memberCount[p] = Len(members[p]) /\ Len(members[p]) < MaxPoolMembers
    BY <1>1, MembersAreMandates DEF RegistryInv, MembershipAgrees, MayJoin
  <1>3. /\ poolState'[m] = "Committed" /\ poolState[m] = "Unlinked"
        /\ \A n \in Mandates \ {m} : poolState'[n] = poolState[n]
        /\ members'[p] = Append(members[p], m)
        /\ memberCount'[p] = memberCount[p] + 1
        /\ \A q \in Pools \ {p} : /\ members'[q] = members[q]
                                  /\ memberCount'[q] = memberCount[q]
    BY <1>1 DEF RegistryInv, RegistryTypeOK
  <1>4. RegistryTypeOK'
    <2>1. memberCount[p] + 1 \in 0..MaxPoolMembers
      BY <1>2, RegistryConstants
    <2>2. Append(members[p], m) \in Seq(Mandates)
      BY <1>2
    <2> QED BY <1>1, <2>1, <2>2 DEF RegistryInv, RegistryTypeOK
  <1>5. FundsTypeOK'
    BY DEF RegistryInv, FundsTypeOK
  <1>6. TermsAccepted' /\ BudgetKept'
    BY DEF RegistryInv, TermsAccepted, BudgetKept
  <1>7. EntriesCoherent'
    BY <1>1, <1>3 DEF RegistryInv, EntriesCoherent, Room, MandateWorstCase
  <1>8. MembershipAgrees'
    <2> DEFINE list == members[p]
               longer == Append(list, m)
    <2>1. /\ DOMAIN list = 1..Len(list) /\ DOMAIN longer = 1..(Len(list) + 1)
          /\ Len(longer) = Len(list) + 1 /\ Len(list) \in Nat
          /\ longer[Len(list) + 1] = m
          /\ \A i \in 1..Len(list) : longer[i] = list[i] /\ list[i] \in Mandates
      BY <1>2
    <2>2. poolStatus[p] = "Open"
      OBVIOUS
    <2>3. \A i \in DOMAIN list : list[i] # m
      BY <1>1, <1>3, <2>2 DEF RegistryInv, MembershipAgrees
    <2> HIDE DEF p
    <2>4. ASSUME NEW q \in Pools
          PROVE  /\ memberCount'[q] = Len(members'[q])
                 /\ \A i, j \in DOMAIN members'[q] :
                      members'[q][i] = members'[q][j] => i = j
                 /\ poolStatus'[q] = "Open" =>
                      \A i \in DOMAIN members'[q] :
                         /\ poolState'[members'[q][i]] = "Committed"
                         /\ terms'[members'[q][i]].pool = q
      <3>1. CASE q # p
        <4>1. ASSUME poolStatus[q] = "Open", NEW i \in DOMAIN members[q]
              PROVE  members[q][i] \in Mandates \ {m}
          BY <4>1, <1>3, MembersAreMandates DEF RegistryInv, MembershipAgrees
        <4>2. members'[q] = members[q] /\ memberCount'[q] = memberCount[q]
          BY <3>1, <1>3
        <4>3. /\ memberCount[q] = Len(members[q])
              /\ \A i, j \in DOMAIN members[q] :
                   members[q][i] = members[q][j] => i = j
              /\ poolStatus[q] = "Open" =>
                   \A i \in DOMAIN members[q] :
                      /\ poolState[members[q][i]] = "Committed"
                      /\ terms[members[q][i]].pool = q
          BY DEF RegistryInv, MembershipAgrees
        <4>4. poolStatus' = poolStatus /\ terms' = terms
          OBVIOUS
        <4> HIDE DEF CommitChild
        <4>5. ASSUME poolStatus[q] = "Open", NEW i \in DOMAIN members[q]
              PROVE  /\ poolState'[members[q][i]] = "Committed"
                     /\ terms[members[q][i]].pool = q
          BY <4>1, <4>3, <4>5, <1>3
        <4> QED BY <4>2, <4>3, <4>4, <4>5
      <3>2. CASE q = p
        <4>1. memberCount'[p] = Len(members'[p])
          BY <1>1, <1>2, <1>3, <2>1
        <4>2. ASSUME NEW i \in DOMAIN longer, NEW j \in DOMAIN longer,
                     longer[i] = longer[j]
              PROVE  i = j
          <5>1. \A k, l \in DOMAIN list : list[k] = list[l] => k = l
            BY <1>1 DEF RegistryInv, MembershipAgrees
          <5> HIDE DEF list, longer
          <5> QED BY <4>2, <5>1, <2>1, <2>3
        <4>3. ASSUME NEW i \in DOMAIN longer
              PROVE  poolState'[longer[i]] = "Committed" /\ terms'[longer[i]].pool = p
          <5>1. CASE i = Len(list) + 1
            BY <5>1, <2>1, <1>3 DEF p
          <5>2. CASE i \in 1..Len(list)
            BY <5>2, <2>1, <2>2, <2>3, <1>1, <1>3 DEF RegistryInv, MembershipAgrees
          <5> QED BY <5>1, <5>2, <2>1
        <4>4. members'[p] = longer
          BY <1>3
        <4> HIDE DEF CommitChild, longer
        <4> QED BY <3>2, <4>1, <4>2, <4>3, <4>4
      <3> QED BY <3>1, <3>2
    <2>5. ASSUME NEW n \in Mandates, poolState'[n] = "Committed"
          PROVE  /\ terms[n] # NoTerms /\ terms[n].pool \in Pools
                 /\ poolStatus[terms[n].pool] = "Open"
                 /\ \E i \in DOMAIN members'[terms[n].pool] :
                      members'[terms[n].pool][i] = n
      <3>1. CASE n = m
        <4>1. members'[p][Len(list) + 1] = m /\ Len(list) + 1 \in DOMAIN members'[p]
          BY <1>3, <2>1
        <4> QED BY <3>1, <4>1, <1>1, <2>2 DEF p
      <3>2. CASE n # m
        <4>1. /\ terms[n] # NoTerms /\ terms[n].pool \in Pools
              /\ poolStatus[terms[n].pool] = "Open"
              /\ n \in MemberSet(terms[n].pool)
          BY <3>2, <2>5, <1>3 DEF RegistryInv, MembershipAgrees
        <4>2. PICK i \in DOMAIN members[terms[n].pool] : n = members[terms[n].pool][i]
          BY <4>1 DEF MemberSet
        <4>3. /\ i \in DOMAIN members'[terms[n].pool]
              /\ members'[terms[n].pool][i] = n
          BY <4>1, <4>2, <1>3, <2>1
        <4> QED BY <4>1, <4>3
      <3> QED BY <3>1, <3>2
    <2>6. terms' = terms /\ poolStatus' = poolStatus
      OBVIOUS
    <2> HIDE DEF CommitChild
    <2> QED BY <2>4, <2>5, <2>6 DEF MembershipAgrees, MemberSet
  <1>9. OneSeatPerUser'
    <2>1. ASSUME NEW n \in Mandates \ {m}, poolState[n] = "Committed",
                 terms[n].pool = p
          PROVE  terms[n].user # terms[m].user
      <3>1. n \in MemberSet(p)
        BY <2>1 DEF RegistryInv, MembershipAgrees
      <3> QED BY <2>1, <3>1 DEF MayJoin, MemberSet
    <2> QED BY <1>3, <2>1 DEF RegistryInv, OneSeatPerUser
  <1> QED BY <1>4, <1>5, <1>6, <1>7, <1>8, <1>9 DEF RegistryInv

\* A member that leaves by eviction or revocation leaves both records.
LEMMA UnlinkKeepsAgreement ==
  ASSUME RegistryInv, NEW p \in Pools, NEW m \in Mandates,
         poolState[m] = "Committed", terms[m].pool = p,
         Unlink(p, m), terms' = terms
  PROVE  /\ MembershipAgrees' /\ OneSeatPerUser'
         /\ members' \in [Pools -> Seq(Mandates)]
         /\ memberCount' \in [Pools -> 0..MaxPoolMembers]
         /\ poolState'[m] = "Released"
         /\ \A n \in Mandates \ {m} : poolState'[n] = poolState[n]
         /\ poolState' \in [Mandates -> {"None", "Unlinked", "Committed",
                                         "Captured", "Released"}]
  <1> DEFINE list == members[p]
             rest == RemoveMember(list, m)
  <1> USE DEF Registered
  <1>1. /\ poolStatus[p] = "Open" /\ m \in MemberSet(p)
        /\ memberCount[p] = Len(list)
        /\ \A i, j \in DOMAIN list : list[i] = list[j] => i = j
        /\ \A i \in DOMAIN list : /\ poolState[list[i]] = "Committed"
                                  /\ terms[list[i]].pool = p
    BY DEF RegistryInv, MembershipAgrees
  <1>2. list \in Seq(Mandates) /\ Len(list) \in Nat /\ DOMAIN list = 1..Len(list)
    BY MembersAreMandates DEF RegistryInv
  <1>3. \E i \in DOMAIN list : list[i] = m
    BY <1>1 DEF MemberSet
  <1>4. /\ rest \in Seq(Mandates) /\ Len(rest) = Len(list) - 1
        /\ \A i, j \in DOMAIN rest : rest[i] = rest[j] => i = j
        /\ {rest[i] : i \in DOMAIN rest} = {list[i] : i \in DOMAIN list} \ {m}
    <2> HIDE DEF list
    <2> QED BY <1>1, <1>2, <1>3, RemoveMemberDrops
  <1>5. /\ members'[p] = rest /\ memberCount'[p] = Len(list) - 1
        /\ \A q \in Pools \ {p} : /\ members'[q] = members[q]
                                  /\ memberCount'[q] = memberCount[q]
        /\ poolStatus' = poolStatus
    <2>1. Len(list) # 0
      BY <1>2, <1>3
    <2>2. Saturating(memberCount[p]) = Len(list) - 1
      BY <2>1, <1>1 DEF Saturating
    <2> QED BY <2>2 DEF Unlink, RegistryInv, RegistryTypeOK
  <1>6. /\ poolState'[m] = "Released"
        /\ \A n \in Mandates \ {m} : poolState'[n] = poolState[n]
        /\ poolState' \in [Mandates -> {"None", "Unlinked", "Committed",
                                        "Captured", "Released"}]
    BY DEF Unlink, RegistryInv, RegistryTypeOK
  <1>7. members' \in [Pools -> Seq(Mandates)]
    <2> HIDE DEF rest, list
    <2> QED BY <1>4 DEF Unlink, RegistryInv, RegistryTypeOK, rest, list
  <1>8. memberCount' \in [Pools -> 0..MaxPoolMembers]
    <2>1. memberCount[p] \in 0..MaxPoolMembers /\ MaxPoolMembers \in Nat
      BY RegistryConstants DEF RegistryInv, RegistryTypeOK
    <2>2. Saturating(memberCount[p]) \in 0..MaxPoolMembers
      BY <2>1 DEF Saturating
    <2> QED BY <2>2 DEF Unlink, RegistryInv, RegistryTypeOK
  <1> HIDE DEF rest
  <1>9. ASSUME NEW q \in Pools
        PROVE  /\ memberCount'[q] = Len(members'[q])
               /\ \A i, j \in DOMAIN members'[q] :
                    members'[q][i] = members'[q][j] => i = j
               /\ poolStatus'[q] = "Open" =>
                    \A i \in DOMAIN members'[q] :
                       /\ poolState'[members'[q][i]] = "Committed"
                       /\ terms'[members'[q][i]].pool = q
    <2>1. CASE q # p
      <3>1. ASSUME poolStatus[q] = "Open", NEW i \in DOMAIN members[q]
            PROVE  members[q][i] \in Mandates \ {m}
        BY <3>1, <2>1, MembersAreMandates DEF RegistryInv, MembershipAgrees
      <3> QED BY <3>1, <2>1, <1>5, <1>6 DEF RegistryInv, MembershipAgrees
    <2>2. CASE q = p
      <3>1. ASSUME NEW i \in DOMAIN rest
            PROVE  poolState'[rest[i]] = "Committed" /\ terms[rest[i]].pool = p
        <4>1. rest[i] # m /\ \E j \in DOMAIN list : rest[i] = list[j]
          <5> HIDE DEF rest, list
          <5>1. rest[i] \in {rest[j] : j \in DOMAIN rest}
            OBVIOUS
          <5>2. rest[i] \in {list[j] : j \in DOMAIN list} \ {m}
            BY <5>1, <1>4
          <5> QED BY <5>2
        <4>2. rest[i] \in Mandates \ {m}
          BY <1>2, <4>1
        <4> QED BY <4>1, <4>2, <1>1, <1>6
      <3> HIDE DEF list
      <3> QED BY <3>1, <2>2, <1>4, <1>5
    <2> QED BY <2>1, <2>2
  <1>10. ASSUME NEW n \in Mandates, poolState'[n] = "Committed"
         PROVE  /\ terms[n] # NoTerms /\ terms[n].pool \in Pools
                /\ poolStatus[terms[n].pool] = "Open"
                /\ \E i \in DOMAIN members'[terms[n].pool] :
                     members'[terms[n].pool][i] = n
    <2>1. n # m /\ poolState[n] = "Committed"
      BY <1>6, <1>10
    <2>2. /\ terms[n] # NoTerms /\ terms[n].pool \in Pools
          /\ poolStatus[terms[n].pool] = "Open"
          /\ \E i \in DOMAIN members[terms[n].pool] : members[terms[n].pool][i] = n
      BY <2>1 DEF RegistryInv, MembershipAgrees, MemberSet
    <2>3. CASE terms[n].pool = p
      <3>1. n \in {rest[i] : i \in DOMAIN rest}
        BY <2>1, <2>2, <2>3, <1>4
      <3> QED BY <3>1, <2>2, <2>3, <1>5
    <2>4. CASE terms[n].pool # p
      BY <2>2, <2>4, <1>5
    <2> QED BY <2>3, <2>4
  <1>11. MembershipAgrees'
    <2> HIDE DEF list
    <2> QED BY <1>5, <1>9, <1>10 DEF MembershipAgrees, MemberSet
  <1>12. OneSeatPerUser'
    BY <1>6 DEF RegistryInv, OneSeatPerUser
  <1> QED BY <1>6, <1>7, <1>8, <1>11, <1>12

LEMMA EvictChildPreserves ==
  ASSUME RegistryInv, NEW p \in Pools, NEW m \in Mandates, EvictChild(p, m)
  PROVE  RegistryInv'
  <1> USE DEF Registered
  <1>1. /\ poolState[m] = "Committed" /\ terms[m].pool = p /\ Unlink(p, m)
        /\ UNCHANGED <<now, paused, terms, status, spent, seq, allowance, balance>>
    BY DEF EvictChild, tokenVars
  <1>2. /\ MembershipAgrees' /\ OneSeatPerUser'
        /\ members' \in [Pools -> Seq(Mandates)]
        /\ memberCount' \in [Pools -> 0..MaxPoolMembers]
        /\ poolState'[m] = "Released"
        /\ \A n \in Mandates \ {m} : poolState'[n] = poolState[n]
        /\ poolState' \in [Mandates -> {"None", "Unlinked", "Committed",
                                        "Captured", "Released"}]
        /\ poolStatus' = poolStatus
    BY <1>1, UnlinkKeepsAgreement DEF Unlink
  <1>3. RegistryTypeOK' /\ FundsTypeOK'
    BY <1>1, <1>2 DEF RegistryInv, RegistryTypeOK, FundsTypeOK
  <1>4. TermsAccepted' /\ BudgetKept'
    BY <1>1 DEF RegistryInv, TermsAccepted, BudgetKept
  <1>5. EntriesCoherent'
    <2>1. Registered(m)
      BY <1>1 DEF RegistryInv, MembershipAgrees
    <2> QED BY <2>1, <1>1, <1>2 DEF RegistryInv, EntriesCoherent, Room, MandateWorstCase
  <1> QED BY <1>2, <1>3, <1>4, <1>5 DEF RegistryInv

LEMMA RevokeMandatePreserves ==
  ASSUME RegistryInv, NEW m \in Mandates, RevokeMandate(m)
  PROVE  RegistryInv'
  <1> USE DEF Registered
  <1> DEFINE p == terms[m].pool
  <1>1. /\ UNCHANGED <<now, paused, terms, spent, seq, allowance, balance>>
        /\ Registered(m)
        /\ status' = [status EXCEPT ![m] = "Revoked"]
        /\ status'[m] = "Revoked"
        /\ \A n \in Mandates \ {m} : status'[n] = status[n]
    BY DEF RevokeMandate, tokenVars, RegistryInv, RegistryTypeOK
  <1>2. /\ MembershipAgrees' /\ OneSeatPerUser'
        /\ members' \in [Pools -> Seq(Mandates)]
        /\ memberCount' \in [Pools -> 0..MaxPoolMembers]
        /\ poolState'[m] # "Committed"
        /\ poolState[m] = "Committed" => p \in Pools
        /\ poolState'[m] = IF poolState[m] = "Committed" THEN "Released" ELSE poolState[m]
        /\ \A n \in Mandates \ {m} : poolState'[n] = poolState[n]
        /\ poolState' \in [Mandates -> {"None", "Unlinked", "Committed",
                                        "Captured", "Released"}]
        /\ poolStatus' = poolStatus
    <2>1. CASE poolState[m] = "Committed"
      <3>1. p \in Pools /\ poolStatus[p] = "Open" /\ p # NoPool
        BY <2>1, RegistryConstants DEF RegistryInv, MembershipAgrees
      <3>2. Unlink(p, m)
        BY <2>1, <3>1 DEF RevokeMandate
      <3> QED BY <2>1, <3>1, <3>2, <1>1, UnlinkKeepsAgreement DEF Unlink
    <2>2. CASE poolState[m] # "Committed"
      <3>1. UNCHANGED <<poolStatus, members, memberCount, poolState>>
        BY <2>2 DEF RevokeMandate, poolVars
      <3> QED BY <2>2, <3>1, <1>1 DEF RegistryInv, RegistryTypeOK, MembershipAgrees,
                                      MemberSet, OneSeatPerUser
    <2> QED BY <2>1, <2>2
  <1>3. RegistryTypeOK' /\ FundsTypeOK'
    BY <1>1, <1>2 DEF RegistryInv, RegistryTypeOK, FundsTypeOK
  <1>4. TermsAccepted' /\ BudgetKept'
    BY <1>1 DEF RegistryInv, TermsAccepted, BudgetKept
  <1>5. EntriesCoherent'
    BY <1>1, <1>2 DEF RegistryInv, EntriesCoherent, Room, MandateWorstCase
  <1> QED BY <1>2, <1>3, <1>4, <1>5 DEF RegistryInv

--------------------------------------------------------------------------------
\* Money moves.

LEMMA SettleKeepsFunds ==
  ASSUME NEW batch, FundsTypeOK, Settle(batch)
  PROVE  FundsTypeOK'
  <1>1. ASSUME NEW a \in Assets, NEW u \in Users
        PROVE  /\ allowance[a][u] - Due(batch, a, u) \in Nat
               /\ balance[a][u] - Due(batch, a, u) \in Nat
    <2>1. allowance[a][u] \in Nat /\ balance[a][u] \in Nat
      BY DEF FundsTypeOK
    <2>2. /\ Due(batch, a, u) \in 0..balance[a][u]
          /\ Due(batch, a, u) \in 0..allowance[a][u]
      BY DEF Settle, CanSettle
    <2> QED BY <2>1, <2>2
  <1> QED BY <1>1 DEF Settle, FundsTypeOK

LEMMA ExecutePaymentPreserves ==
  ASSUME RegistryInv, NEW m \in Mandates, NEW amount \in PaymentAmounts, NEW n,
         ExecutePayment(m, amount, n)
  PROVE  RegistryInv'
  <1> USE DEF Registered
  <1>1. /\ UNCHANGED <<now, paused, terms, poolState, poolStatus, members, memberCount>>
        /\ Registered(m) /\ seq[m] < MaxSeq
        /\ amount > 0 /\ amount \in Int /\ spent[m] + amount <= terms[m].maxAmount
        /\ status[m] = "Active" /\ poolState[m] # "Committed"
    BY RegistryConstants DEF ExecutePayment, PaymentAccepted, PaymentFits, Pay, Check, poolVars
  <1>2. /\ spent[m] \in Nat /\ seq[m] \in 0..MaxSeq /\ MaxSeq \in Nat
        /\ terms[m].maxAmount \in Int
    BY <1>1, SignedTerms, RegistryConstants DEF RegistryInv, RegistryTypeOK
  <1>3. /\ spent' = [spent EXCEPT ![m] = spent[m] + amount]
        /\ seq' = [seq EXCEPT ![m] = seq[m] + 1]
        /\ status' = [status EXCEPT ![m] = StatusAfter(m, spent[m] + amount)]
    BY DEF ExecutePayment, Pay
  <1>4. /\ spent'[m] = spent[m] + amount
        /\ status'[m] = IF spent[m] + amount = terms[m].maxAmount
                        THEN "Exhausted" ELSE "Active"
        /\ \A k \in Mandates \ {m} : spent'[k] = spent[k] /\ seq'[k] = seq[k]
                                     /\ status'[k] = status[k]
    BY <1>1, <1>3 DEF StatusAfter, RegistryInv, RegistryTypeOK
  <1>5. RegistryTypeOK'
    <2>1. spent[m] + amount \in Nat /\ seq[m] + 1 \in 0..MaxSeq
      BY <1>1, <1>2
    <2>2. StatusAfter(m, spent[m] + amount) \in {"Active", "Exhausted"}
      BY <1>1 DEF StatusAfter
    <2> QED BY <2>1, <2>2, <1>1, <1>3 DEF RegistryInv, RegistryTypeOK
  <1>6. FundsTypeOK'
    BY SettleKeepsFunds DEF RegistryInv, ExecutePayment, Pay
  <1>7. TermsAccepted'
    BY <1>1 DEF RegistryInv, TermsAccepted
  <1>8. EntriesCoherent'
    <2>1. ASSUME NEW k \in Mandates
          PROVE  IF terms[k] # NoTerms
                 THEN /\ status'[k] # "None"
                      /\ poolState[k] \in {"Committed", "Captured", "Released"} =>
                           terms[k].pool \in Pools
                      /\ poolState[k] = "Committed" =>
                           /\ status'[k] = "Active"
                           /\ terms[k].maxAmount - spent'[k] >= WorstCase(terms[k].schedule)
                 ELSE /\ status'[k] = "None" /\ poolState[k] = "None"
                      /\ spent'[k] = 0 /\ seq'[k] = 0
      <3>1. CASE k = m
        BY <3>1, <1>1, <1>4 DEF RegistryInv, EntriesCoherent
      <3>2. CASE k # m
        BY <3>2, <1>4 DEF RegistryInv, EntriesCoherent, Room, MandateWorstCase
      <3> QED BY <3>1, <3>2
    <2> QED BY <2>1, <1>1 DEF EntriesCoherent, Room, MandateWorstCase
  <1>9. BudgetKept'
    <2>1. /\ spent'[m] \in 0..terms[m].maxAmount
          /\ status'[m] = "Active" => spent'[m] < terms[m].maxAmount
          /\ status'[m] = "Exhausted" => spent'[m] = terms[m].maxAmount
      BY <1>1, <1>2, <1>4
    <2> QED BY <2>1, <1>1, <1>4 DEF RegistryInv, BudgetKept
  <1>10. MembershipAgrees' /\ OneSeatPerUser'
    BY <1>1 DEF RegistryInv, MembershipAgrees, MemberSet, OneSeatPerUser
  <1> QED BY <1>5, <1>6, <1>7, <1>8, <1>9, <1>10 DEF RegistryInv

--------------------------------------------------------------------------------
\* The close of a pool.

\* A member that is still committed is bound to this pool by its own terms, and
\* its schedule passed the registration gate.
LEMMA CommittedMember ==
  ASSUME RegistryInv, NEW p \in Pools, poolStatus[p] = "Open", NEW m \in MemberSet(p)
  PROVE  /\ m \in Mandates /\ Registered(m) /\ terms[m].pool = p
         /\ poolState[m] = "Committed" /\ ValidSchedule(terms[m].schedule)
  <1>1. m \in Mandates
    BY MembersAreMandates DEF MemberSet, RegistryInv
  <1>2. poolState[m] = "Committed" /\ terms[m].pool = p
    BY DEF MemberSet, RegistryInv, MembershipAgrees
  <1>3. Registered(m) /\ p # NoPool
    BY <1>1, <1>2, RegistryConstants DEF RegistryInv, MembershipAgrees
  <1> QED BY <1>1, <1>2, <1>3 DEF RegistryInv, TermsAccepted

\* Every member leaves the closed pool, and no other pool notices.
LEMMA CloseKeepsAgreement ==
  ASSUME RegistryInv, NEW p \in Pools, poolStatus[p] = "Open",
         NEW x \in {"Cleared", "Aborted"},
         poolStatus' = [poolStatus EXCEPT ![p] = x],
         UNCHANGED <<terms, members, memberCount>>,
         \A m \in Mandates :
           IF m \in Committed(p) THEN poolState'[m] \in {"Captured", "Released"}
                                 ELSE poolState'[m] = poolState[m]
  PROVE  MembershipAgrees' /\ OneSeatPerUser'
  <1> USE DEF Registered
  <1>1. Committed(p) = MemberSet(p)
    BY CommittedMember DEF Committed
  <1>2. ASSUME NEW n \in Mandates, poolState'[n] = "Committed"
        PROVE  poolState[n] = "Committed" /\ terms[n].pool # p
    <2>1. n \notin MemberSet(p) /\ poolState[n] = "Committed"
      BY <1>1, <1>2
    <2> QED BY <2>1 DEF RegistryInv, MembershipAgrees
  <1>3. ASSUME NEW q \in Pools \ {p}, poolStatus[q] = "Open", NEW i \in DOMAIN members[q]
        PROVE  poolState'[members[q][i]] = "Committed"
    <2>1. members[q][i] \in MemberSet(q)
      BY DEF MemberSet
    <2>2. members[q][i] \notin MemberSet(p) /\ members[q][i] \in Mandates
      BY <2>1, <1>3, CommittedMember
    <2> QED BY <2>1, <2>2, <1>1, <1>3, CommittedMember
  <1>4. /\ poolStatus'[p] # "Open"
        /\ \A q \in Pools \ {p} : poolStatus'[q] = poolStatus[q]
    BY DEF RegistryInv, RegistryTypeOK
  <1>5. MembershipAgrees'
    BY <1>2, <1>3, <1>4 DEF RegistryInv, MembershipAgrees, MemberSet
  <1>6. OneSeatPerUser'
    BY <1>2 DEF RegistryInv, OneSeatPerUser
  <1> QED BY <1>5, <1>6

\* The error the capture guards against "anyway" cannot happen: every fired leg
\* fits the budget that is left (pool.rs, clear_pool, `member.spent > max_amount').
THEOREM BudgetErrorUnreachable ==
  ASSUME RegistryInv, NEW p \in Pools, poolStatus[p] = "Open", Outcome(p).fires,
         NEW m \in DOMAIN Outcome(p).alloc
  PROVE  /\ m \in Committed(p) /\ IsEligible(m, p)
         /\ Leg(Outcome(p), m) \in Nat \ {0}
         /\ Leg(Outcome(p), m) <= MandateWorstCase(m)
         /\ spent[m] + Leg(Outcome(p), m) <= terms[m].maxAmount
  <1> DEFINE kids == EligibleSchedules(p)
             tq == PoolTerms[p].thresholdQty
             tv == PoolTerms[p].thresholdValue
             outcome == Outcome(p)
  <1>1. outcome = Clear(kids, tq, tv, FeeBpsPinned) /\ outcome.fires
    BY DEF Outcome, NoFire
  <1>2. Kids(kids)
    BY CommittedMember DEF Kids, EligibleSchedules
  <1>3. /\ outcome.price \in Nat \ {0}
        /\ DOMAIN outcome.alloc \subseteq DOMAIN kids
        /\ outcome.alloc[m] = Demand(kids[m], outcome.price)
        /\ outcome.alloc[m] > 0
    <2> HIDE DEF kids, tq, tv, outcome
    <2>1. Clear(kids, tq, tv, FeeBpsPinned).fires
      BY <1>1
    <2>2. m \in DOMAIN outcome.alloc
      BY DEF outcome
    <2> QED BY <1>1, <1>2, <2>1, <2>2, OutcomeShape
  <1>4. m \in MemberSet(p) /\ IsEligible(m, p) /\ kids[m] = terms[m].schedule
    BY <1>3 DEF EligibleSchedules
  <1>5. m \in Mandates /\ Registered(m) /\ ValidSchedule(terms[m].schedule)
    BY <1>4, CommittedMember
  <1>6. /\ outcome.alloc[m] \in Nat
        /\ outcome.price * outcome.alloc[m] \in Nat
        /\ outcome.price * outcome.alloc[m] <= MandateWorstCase(m)
    BY <1>3, <1>4, <1>5, LegWithinWorstCase DEF MandateWorstCase
  <1>7. outcome.price * outcome.alloc[m] # 0
    BY <1>3, <1>6
  <1>8. spent[m] \in Nat /\ terms[m].maxAmount \in Int /\ MandateWorstCase(m) \in Nat
    BY <1>5, SignedTerms, WorstCaseBounds DEF RegistryInv, RegistryTypeOK, MandateWorstCase
  <1>9. terms[m].maxAmount - spent[m] >= MandateWorstCase(m)
    BY <1>4 DEF IsEligible, Room
  <1>10. m \in Committed(p)
    BY <1>4 DEF Committed, IsEligible
  <1> HIDE DEF outcome
  <1>11. Leg(outcome, m) = outcome.price * outcome.alloc[m]
    BY DEF Leg
  <1>12. spent[m] + Leg(outcome, m) <= terms[m].maxAmount
    BY <1>6, <1>8, <1>9, <1>11
  <1> QED BY <1>4, <1>6, <1>7, <1>10, <1>11, <1>12 DEF outcome

LEMMA ClearPoolPreserves ==
  ASSUME RegistryInv, NEW p \in Pools, ClearPool(p)
  PROVE  RegistryInv'
  <1> USE DEF Registered
  <1> DEFINE outcome == Outcome(p)
             fired == Committed(p) \intersect DOMAIN outcome.alloc
  <1>1. poolStatus[p] = "Open" /\ UNCHANGED <<now, paused, terms, members, memberCount>>
    BY DEF ClearPool
  <1>2. ASSUME NEW m \in Committed(p)
        PROVE  /\ m \in Mandates /\ terms[m] # NoTerms /\ terms[m].pool = p
               /\ poolState[m] = "Committed" /\ status[m] = "Active"
               /\ spent[m] \in Nat /\ terms[m].maxAmount \in Int
    <2>1. m \in MemberSet(p)
      BY DEF Committed
    <2>2. m \in Mandates /\ terms[m] # NoTerms /\ terms[m].pool = p
          /\ poolState[m] = "Committed"
      BY <1>1, <2>1, CommittedMember
    <2>3. spent[m] \in Nat /\ terms[m].maxAmount \in Int
      BY <2>2, SignedTerms DEF RegistryInv, RegistryTypeOK
    <2> QED BY <2>2, <2>3 DEF RegistryInv, EntriesCoherent
  <1>3. TermsAccepted'
    BY <1>1 DEF RegistryInv, TermsAccepted
  <1>4. CASE Abort(p)
    <2>1. /\ poolStatus' = [poolStatus EXCEPT ![p] = "Aborted"]
          /\ UNCHANGED <<status, spent, seq, allowance, balance>>
          /\ \A m \in Mandates : poolState'[m] = IF m \in Committed(p) THEN "Released"
                                                 ELSE poolState[m]
      BY <1>4 DEF Abort, tokenVars
    <2>2. poolState' \in [Mandates -> {"None", "Unlinked", "Committed", "Captured",
                                       "Released"}]
      BY <1>4 DEF Abort, RegistryInv, RegistryTypeOK
    <2>3. RegistryTypeOK' /\ FundsTypeOK'
      BY <1>1, <2>1, <2>2 DEF RegistryInv, RegistryTypeOK, FundsTypeOK
    <2>4. EntriesCoherent' /\ BudgetKept'
      BY <1>1, <1>2, <2>1 DEF RegistryInv, EntriesCoherent, BudgetKept, Room,
                              MandateWorstCase
    <2>5. MembershipAgrees' /\ OneSeatPerUser'
      BY <1>1, <2>1, CloseKeepsAgreement
    <2> QED BY <1>3, <2>3, <2>4, <2>5 DEF RegistryInv
  <1>5. CASE outcome.fires /\ Capture(p, outcome)
    <2>1. ASSUME NEW m \in fired
          PROVE  /\ m \in Committed(p)
                 /\ spent[m] + Leg(outcome, m) \in Nat
                 /\ spent[m] + Leg(outcome, m) <= terms[m].maxAmount
                 /\ seq[m] + 1 \in 0..MaxSeq
      <3>1. Leg(outcome, m) \in Nat /\ spent[m] + Leg(outcome, m) <= terms[m].maxAmount
        BY <1>1, <1>5, BudgetErrorUnreachable
      <3>2. seq[m] < MaxSeq
        BY <1>5 DEF Capture, CaptureLegs
      <3>3. seq[m] \in 0..MaxSeq /\ MaxSeq \in Nat
        BY <1>2, RegistryConstants DEF RegistryInv, RegistryTypeOK
      <3> QED BY <3>1, <3>2, <3>3, <1>2
    <2> HIDE DEF outcome
    <2>2. /\ poolStatus' = [poolStatus EXCEPT ![p] = "Cleared"]
          /\ spent' = [m \in Mandates |-> IF m \in fired THEN spent[m] + Leg(outcome, m)
                                                         ELSE spent[m]]
          /\ seq' = [m \in Mandates |-> IF m \in fired THEN seq[m] + 1 ELSE seq[m]]
          /\ status' = [m \in Mandates |->
                          IF m \in fired THEN StatusAfter(m, spent[m] + Leg(outcome, m))
                                         ELSE status[m]]
          /\ poolState' = PoolStateAfter(p, fired)
          /\ Settle(CaptureBatch(p, outcome))
      BY <1>5 DEF Capture, CaptureLegs
    <2> HIDE DEF fired
    <2>3. ASSUME NEW m \in fired
          PROVE  /\ StatusAfter(m, spent[m] + Leg(outcome, m)) \in {"Active", "Exhausted"}
                 /\ StatusAfter(m, spent[m] + Leg(outcome, m)) = "Exhausted"
                      <=> spent[m] + Leg(outcome, m) = terms[m].maxAmount
      BY <2>1, <1>2 DEF StatusAfter
    <2>4. ASSUME NEW m \in Mandates
          PROVE  /\ m \in fired =>
                      /\ spent'[m] = spent[m] + Leg(outcome, m)
                      /\ status'[m] = StatusAfter(m, spent[m] + Leg(outcome, m))
                      /\ poolState'[m] = "Captured"
                 /\ m \notin fired =>
                      /\ spent'[m] = spent[m] /\ status'[m] = status[m]
                      /\ seq'[m] = seq[m]
                      /\ poolState'[m] = IF m \in Committed(p) THEN "Released"
                                                               ELSE poolState[m]
      BY <2>2 DEF PoolStateAfter
    <2>5. RegistryTypeOK'
      <3>1. spent' \in [Mandates -> Nat] /\ seq' \in [Mandates -> 0..MaxSeq]
        BY <2>1, <2>2 DEF RegistryInv, RegistryTypeOK
      <3>2. status' \in [Mandates -> {"None", "Active", "Revoked", "Exhausted"}]
        BY <2>2, <2>3 DEF RegistryInv, RegistryTypeOK
      <3>3. poolState' \in [Mandates -> {"None", "Unlinked", "Committed", "Captured",
                                         "Released"}]
        BY <2>2 DEF PoolStateAfter, RegistryInv, RegistryTypeOK
      <3> QED BY <3>1, <3>2, <3>3, <2>2, <1>1 DEF RegistryInv, RegistryTypeOK
    <2>6. FundsTypeOK'
      BY <2>2, SettleKeepsFunds DEF RegistryInv
    <2>7. EntriesCoherent'
      <3>1. ASSUME NEW m \in fired
            PROVE  m \in Mandates /\ terms[m] # NoTerms /\ terms[m].pool = p
        BY <2>1, <1>2
      <3> QED BY <3>1, <1>1, <1>2, <2>3, <2>4 DEF RegistryInv, EntriesCoherent, Room,
                                                   MandateWorstCase
    <2>8. BudgetKept'
      <3>1. ASSUME NEW m \in Mandates, terms[m] # NoTerms
            PROVE  /\ spent'[m] \in 0..terms[m].maxAmount
                   /\ status'[m] = "Active" => spent'[m] < terms[m].maxAmount
                   /\ status'[m] = "Exhausted" => spent'[m] = terms[m].maxAmount
        <4>1. CASE m \in fired
          BY <4>1, <1>2, <2>1, <2>3, <2>4
        <4>2. CASE m \notin fired
          BY <3>1, <4>2, <2>4 DEF RegistryInv, BudgetKept
        <4> QED BY <4>1, <4>2
      <3> QED BY <3>1, <1>1 DEF BudgetKept
    <2>9. MembershipAgrees' /\ OneSeatPerUser'
      BY <1>1, <2>1, <2>2, <2>4, CloseKeepsAgreement
    <2> QED BY <1>3, <2>5, <2>6, <2>7, <2>8, <2>9 DEF RegistryInv
  <1> QED BY <1>4, <1>5 DEF ClearPool

--------------------------------------------------------------------------------
\* The inductive invariant holds in every reachable state: types, budgets, the
\* two membership records and the one-seat rule, for any users, mandates, pools
\* and terms, whatever the tokens do.
THEOREM RegistryInvariant == Spec => []RegistryInv
  <1>1. RegistryInv /\ [Next]_vars => RegistryInv'
    <2> SUFFICES ASSUME RegistryInv, [Next]_vars PROVE RegistryInv'
      OBVIOUS
    <2>1. CASE UNCHANGED vars
      <3>1. RegistryTypeOK' /\ FundsTypeOK'
        BY <2>1 DEF vars, mandateVars, poolVars, tokenVars, RegistryInv,
                    RegistryTypeOK, FundsTypeOK
      <3> QED BY <2>1, <3>1, QuietStep DEF vars
    <2>2. CASE Next
      BY <2>2, RegisterPoolPreserves, RegisterMandatePreserves,
         CommitChildPreserves, EvictChildPreserves, RevokeMandatePreserves,
         ClearPoolPreserves, ExecutePaymentPreserves, PausePreserves,
         TokenStepPreserves, TickPreserves DEF Next
    <2> QED BY <2>1, <2>2
  <1> QED BY InitEstablishes, <1>1, PTL DEF Spec

\* No mandate ever consumes more than was signed for; Active has budget left.
THEOREM BudgetIsKept == Spec => []BudgetKept
  BY RegistryInvariant, PTL DEF RegistryInv

\* The pool's list and count and the mandates' own pool_state never part.
THEOREM MembershipIsConsistent == Spec => []MembershipAgrees
  BY RegistryInvariant, PTL DEF RegistryInv

\* No allowance is counted twice: a user has one seat in a pool.
THEOREM SeatsAreUnique == Spec => []OneSeatPerUser
  BY RegistryInvariant, PTL DEF RegistryInv

\* Only funding can make a committed member ineligible before its window closes.
THEOREM CommitmentsStayFit == Spec => []CommittedStaysFit
  <1>1. RegistryInv => CommittedStaysFit
    <2> SUFFICES ASSUME RegistryInv, NEW m \in Mandates, poolState[m] = "Committed",
                        now <= WindowEnd(terms[m].pool)
                 PROVE  /\ status[m] = "Active" /\ now < terms[m].expiry
                        /\ Room(m) >= MandateWorstCase(m)
                        /\ terms[m].asset = PoolTerms[terms[m].pool].asset
                        /\ terms[m].merchant = PoolTerms[terms[m].pool].merchant
      BY DEF CommittedStaysFit
    <2>1. Registered(m) /\ terms[m].pool \in Pools /\ terms[m].pool # NoPool
      BY RegistryConstants DEF RegistryInv, MembershipAgrees
    <2>2. status[m] = "Active" /\ Room(m) >= MandateWorstCase(m)
      BY <2>1 DEF RegistryInv, EntriesCoherent
    <2>3. /\ terms[m].asset = PoolTerms[terms[m].pool].asset
          /\ terms[m].merchant = PoolTerms[terms[m].pool].merchant
          /\ terms[m].expiry > WindowEnd(terms[m].pool)
      BY <2>1 DEF RegistryInv, TermsAccepted
    <2>4. /\ now \in Nat /\ terms[m].expiry \in Nat
          /\ WindowEnd(terms[m].pool) \in Nat
      BY <2>1, SignedTerms, PoolTermsTyped, RegistryConstants DEF RegistryInv, RegistryTypeOK
    <2>5. now < terms[m].expiry
      BY <2>3, <2>4
    <2> QED BY <2>2, <2>3, <2>5
  <1> QED BY <1>1, RegistryInvariant, PTL


--------------------------------------------------------------------------------
\* Single steps.

\* What a step that is neither a payment nor the close of a pool does not touch.
LEMMA QuietAboutMoney ==
  ASSUME RegistryInv, spent' = spent
  PROVE  \A m \in Mandates : Paid(m) = 0
  BY DEF Paid, RegistryInv, RegistryTypeOK

\* The close of a pool, mandate by mandate: charged, released or left alone.
LEMMA CloseEffect ==
  ASSUME RegistryInv, NEW p \in Pools, ClearPool(p), NEW m \in Mandates
  PROVE  \/ /\ m \in Committed(p) /\ IsEligible(m, p) /\ ~paused
            /\ Paid(m) \in Nat \ {0} /\ Paid(m) <= MandateWorstCase(m)
            /\ seq'[m] = seq[m] + 1 /\ poolState'[m] = "Captured"
            /\ status'[m] \in {"Active", "Exhausted"}
         \/ /\ Paid(m) = 0 /\ seq'[m] = seq[m] /\ status'[m] = status[m]
            /\ poolState'[m] = IF m \in Committed(p) THEN "Released" ELSE poolState[m]
  <1> DEFINE outcome == Outcome(p)
             fired == Committed(p) \intersect DOMAIN outcome.alloc
  <1>1. poolStatus[p] = "Open" /\ spent[m] \in Nat
    BY DEF ClearPool, RegistryInv, RegistryTypeOK
  <1>2. CASE Abort(p)
    BY <1>1, <1>2 DEF Abort, Paid
  <1>3. CASE outcome.fires /\ Capture(p, outcome)
    <2>1. CASE m \in fired
      <3>1. /\ m \in Committed(p) /\ IsEligible(m, p)
            /\ Leg(outcome, m) \in Nat \ {0}
            /\ Leg(outcome, m) <= MandateWorstCase(m)
        BY <2>1, <1>1, <1>3, BudgetErrorUnreachable
      <3> HIDE DEF outcome
      <3>2. /\ ~paused /\ spent'[m] = spent[m] + Leg(outcome, m)
            /\ seq'[m] = seq[m] + 1 /\ poolState'[m] = "Captured"
            /\ status'[m] = StatusAfter(m, spent[m] + Leg(outcome, m))
        BY <1>3, <2>1 DEF Capture, CaptureLegs, PoolStateAfter
      <3>3. Paid(m) = Leg(outcome, m)
        BY <3>1, <3>2, <1>1 DEF Paid
      <3>4. status'[m] \in {"Active", "Exhausted"}
        BY <3>1, <3>2 DEF StatusAfter, IsEligible
      <3> QED BY <3>1, <3>2, <3>3, <3>4
    <2>2. CASE m \notin fired
      <3> HIDE DEF outcome
      <3>1. /\ spent'[m] = spent[m] /\ seq'[m] = seq[m] /\ status'[m] = status[m]
            /\ poolState'[m] = IF m \in Committed(p) THEN "Released" ELSE poolState[m]
        BY <1>3, <2>2 DEF Capture, CaptureLegs, PoolStateAfter
      <3> QED BY <3>1, <1>1 DEF Paid
    <2> QED BY <2>1, <2>2
  <1> QED BY <1>2, <1>3 DEF ClearPool

\* A solo payment, mandate by mandate.
LEMMA PaymentEffect ==
  ASSUME RegistryInv, NEW k \in Mandates, NEW amount \in PaymentAmounts, NEW n,
         ExecutePayment(k, amount, n), NEW m \in Mandates
  PROVE  IF m = k
         THEN /\ ~paused /\ status[m] = "Active" /\ now < terms[m].expiry
              /\ poolState[m] \in {"Unlinked", "Released"}
              /\ Paid(m) > 0 /\ seq'[m] = seq[m] + 1 /\ Paid(m) \in Int
         ELSE /\ Paid(m) = 0 /\ seq'[m] = seq[m] /\ status'[m] = status[m]
  <1>1. /\ spent \in [Mandates -> Nat] /\ seq \in [Mandates -> 0..MaxSeq]
        /\ status \in [Mandates -> {"None", "Active", "Revoked", "Exhausted"}]
        /\ amount \in Int
    BY RegistryConstants DEF RegistryInv, RegistryTypeOK
  <1>2. /\ spent' = [spent EXCEPT ![k] = spent[k] + amount]
        /\ seq' = [seq EXCEPT ![k] = seq[k] + 1]
        /\ status' = [status EXCEPT ![k] = StatusAfter(k, spent[k] + amount)]
        /\ ~paused /\ amount > 0 /\ status[k] = "Active" /\ now < terms[k].expiry
        /\ poolState[k] \in {"Unlinked", "Released"}
    BY DEF ExecutePayment, PaymentAccepted, PaymentFits, Pay, Check
  <1>3. spent[k] \in Nat /\ spent[m] \in Nat
    BY <1>1
  <1>4. CASE m = k
    <2>1. spent'[m] = spent[m] + amount /\ seq'[m] = seq[m] + 1
      BY <1>1, <1>2, <1>4
    <2>2. Paid(m) = amount
      BY <2>1, <1>1, <1>3 DEF Paid
    <2> QED BY <2>1, <2>2, <1>1, <1>2, <1>4
  <1>5. CASE m # k
    <2>1. spent'[m] = spent[m] /\ seq'[m] = seq[m] /\ status'[m] = status[m]
      BY <1>1, <1>2, <1>5
    <2> QED BY <2>1, <1>3, <1>5 DEF Paid
  <1> QED BY <1>4, <1>5

--------------------------------------------------------------------------------
\* Nothing is spent without standing consent, and every spend takes exactly one
\* sequence number (execute_payment's and clear_pool's guards).
THEOREM SpendingNeedsConsent == Spec => SpendNeedsConsent
  <1>1. RegistryInv /\ [Next]_vars => [ConsentedSpend]_vars
    <2> SUFFICES ASSUME RegistryInv, Next, NEW m \in Mandates
                 PROVE  /\ Registered(m) => (Paid(m) # 0 <=> seq'[m] # seq[m])
                        /\ Paid(m) # 0 =>
                             /\ Paid(m) > 0 /\ seq'[m] = seq[m] + 1
                             /\ ~paused /\ status[m] = "Active"
                             /\ now < terms[m].expiry
                             /\ \/ poolState[m] \in {"Unlinked", "Released"}
                                \/ /\ poolState[m] = "Committed"
                                   /\ poolState'[m] = "Captured"
                                   /\ Paid(m) <= MandateWorstCase(m)
      BY DEF ConsentedSpend
    <2> USE DEF mandateVars, poolVars, tokenVars
    <2>1. CASE spent' = spent /\ seq' = seq
      BY <2>1, QuietAboutMoney
    <2>2. ASSUME NEW k \in Mandates, NEW t \in MandateTerms, RegisterMandate(k, t)
          PROVE  /\ Registered(m) => Paid(m) = 0 /\ seq'[m] = seq[m]
                 /\ Paid(m) = 0
      <3>1. CASE m = k
        <4>1. ~Registered(m) /\ spent[m] = 0 /\ spent'[m] = 0
          BY <2>2, <3>1 DEF RegisterMandate, RegistryInv, EntriesCoherent, RegistryTypeOK
        <4> QED BY <4>1 DEF Paid
      <3>2. CASE m # k
        <4>1. spent'[m] = spent[m] /\ seq'[m] = seq[m] /\ spent[m] \in Nat
          BY <2>2, <3>2 DEF RegisterMandate, RegistryInv, RegistryTypeOK
        <4> QED BY <4>1 DEF Paid
      <3> QED BY <3>1, <3>2
    <2>3. ASSUME NEW p \in Pools, ClearPool(p)
          PROVE  \/ Paid(m) = 0 /\ seq'[m] = seq[m]
                 \/ /\ Paid(m) \in Nat \ {0} /\ seq'[m] = seq[m] + 1
                    /\ ~paused /\ status[m] = "Active" /\ now < terms[m].expiry
                    /\ poolState[m] = "Committed" /\ poolState'[m] = "Captured"
                    /\ Paid(m) <= MandateWorstCase(m)
      BY <2>3, CloseEffect DEF IsEligible
    <2>4. ASSUME NEW k \in Mandates, NEW amount \in PaymentAmounts,
                 NEW n \in 0..MaxSeq, ExecutePayment(k, amount, n)
          PROVE  \/ Paid(m) = 0 /\ seq'[m] = seq[m]
                 \/ /\ Paid(m) \in Int /\ Paid(m) > 0 /\ seq'[m] = seq[m] + 1
                    /\ ~paused /\ status[m] = "Active" /\ now < terms[m].expiry
                    /\ poolState[m] \in {"Unlinked", "Released"}
      BY <2>4, PaymentEffect
    <2>5. seq[m] \in Int
      BY DEF RegistryInv, RegistryTypeOK
    <2>6. CASE \E p \in Pools : ClearPool(p)
      BY <2>3, <2>5, <2>6
    <2>7. CASE \E k \in Mandates, amount \in PaymentAmounts, n \in 0..MaxSeq :
                  ExecutePayment(k, amount, n)
      BY <2>4, <2>5, <2>7
    <2>8. CASE \E k \in Mandates, t \in MandateTerms : RegisterMandate(k, t)
      BY <2>2, <2>8
    <2>9. CASE \/ \E p \in Pools : RegisterPool(p)
               \/ \E k \in Mandates : CommitChild(k) \/ RevokeMandate(k)
               \/ \E p \in Pools, k \in Mandates : EvictChild(p, k)
               \/ Pause \/ Unpause \/ TokenStep \/ Tick
      BY <2>9, <2>1 DEF RegisterPool, CommitChild, EvictChild, RevokeMandate,
                        Pause, Unpause, TokenStep, Tick
    <2> QED BY <2>6, <2>7, <2>8, <2>9 DEF Next
  <1> QED BY <1>1, RegistryInvariant, PTL DEF Spec, SpendNeedsConsent

\* A closed pool, a captured, a revoked and a released mandate stay as they are.
THEOREM FinalityIsKept == Spec => FinalityHolds
  <1>1. RegistryInv /\ [Next]_vars => [FinalStep]_vars
    <2> SUFFICES ASSUME RegistryInv, Next PROVE FinalStep
      OBVIOUS
    <2> USE DEF mandateVars, poolVars, tokenVars, Registered
    <2>1. CASE UNCHANGED <<mandateVars, poolVars>>
      BY <2>1, QuietAboutMoney DEF FinalStep
    <2>2. ASSUME NEW p \in Pools, RegisterPool(p) PROVE FinalStep
      BY <2>2, QuietAboutMoney DEF RegisterPool, FinalStep, RegistryInv, RegistryTypeOK
    <2>3. ASSUME NEW k \in Mandates, NEW t \in MandateTerms, RegisterMandate(k, t)
          PROVE  FinalStep
      <3>1. ASSUME NEW m \in Mandates, m # k
            PROVE  /\ poolState'[m] = poolState[m] /\ status'[m] = status[m]
                   /\ terms'[m] = terms[m] /\ Paid(m) = 0
        BY <2>3, <3>1 DEF RegisterMandate, RegistryInv, RegistryTypeOK, Paid
      <3>2. /\ terms[k] = NoTerms /\ status[k] = "None" /\ poolState[k] = "None"
            /\ UNCHANGED <<poolStatus, members, memberCount>>
        BY <2>3 DEF RegisterMandate, RegistryInv, EntriesCoherent
      <3> QED BY <3>1, <3>2 DEF FinalStep
    <2>4. ASSUME NEW k \in Mandates, CommitChild(k) PROVE FinalStep
      BY <2>4, QuietAboutMoney DEF CommitChild, FinalStep, RegistryInv, RegistryTypeOK
    <2>5. ASSUME NEW p \in Pools, NEW k \in Mandates, EvictChild(p, k) PROVE FinalStep
      BY <2>5, QuietAboutMoney DEF EvictChild, Unlink, FinalStep, RegistryInv,
                                   RegistryTypeOK
    <2>6. ASSUME NEW k \in Mandates, RevokeMandate(k) PROVE FinalStep
      BY <2>6, QuietAboutMoney DEF RevokeMandate, Unlink, FinalStep, RegistryInv,
                                   RegistryTypeOK
    <2>7. ASSUME NEW p \in Pools, ClearPool(p) PROVE FinalStep
      <3>1. /\ poolStatus[p] = "Open" /\ UNCHANGED <<members, memberCount, terms>>
            /\ \A q \in Pools \ {p} : poolStatus'[q] = poolStatus[q]
        BY <2>7 DEF ClearPool, Abort, Capture, CaptureLegs, RegistryInv, RegistryTypeOK
      <3>2. ASSUME NEW m \in Mandates
            PROVE  /\ poolState[m] \in {"Captured", "Released"} =>
                        poolState'[m] = poolState[m] /\ Paid(m) = 0
                   /\ status[m] = "Revoked" => status'[m] = status[m] /\ Paid(m) = 0
        BY <2>7, CloseEffect DEF Committed, IsEligible
      <3> QED BY <3>1, <3>2 DEF FinalStep
    <2>8. ASSUME NEW k \in Mandates, NEW amount \in PaymentAmounts,
                 NEW n \in 0..MaxSeq, ExecutePayment(k, amount, n)
          PROVE  FinalStep
      <3>1. UNCHANGED <<poolStatus, members, memberCount, terms, poolState>>
        BY <2>8 DEF ExecutePayment, Pay
      <3> QED BY <2>8, <3>1, PaymentEffect DEF FinalStep
    <2> QED BY <2>1, <2>2, <2>3, <2>4, <2>5, <2>6, <2>7, <2>8
            DEF Next, Pause, Unpause, TokenStep, Tick
  <1> QED BY <1>1, RegistryInvariant, PTL DEF Spec, FinalityHolds

\* Eviction has no discretion: whoever calls evict_child or clear_pool, a member
\* that is still eligible stays in its open pool unless its user revokes.
THEOREM EvictionIsObjective == Spec => OnlyIneligibleEvicted
  <1>1. RegistryInv /\ RegistryInv' /\ [Next]_vars => [FairExit]_vars
    <2> USE DEF mandateVars, poolVars, tokenVars, Registered
    <2> SUFFICES ASSUME RegistryInv, RegistryInv', Next,
                        NEW p \in Pools, NEW m \in Mandates,
                        poolStatus[p] = "Open", poolStatus'[p] = "Open",
                        m \in MemberSet(p), m \notin MemberSet(p)'
                 PROVE  status'[m] = "Revoked" \/ ~IsEligible(m, p)
      BY DEF FairExit
    <2>1. terms[m] # NoTerms /\ terms[m].pool = p /\ poolState[m] = "Committed"
      BY CommittedMember
    <2>2. CASE UNCHANGED <<terms, poolState>>
      <3>1. (MembershipAgrees)'
        BY DEF RegistryInv
      <3> QED BY <2>1, <2>2, <3>1 DEF MembershipAgrees
    <2>3. ASSUME NEW k \in Mandates, NEW t \in MandateTerms, RegisterMandate(k, t)
          PROVE  FALSE
      BY <2>3 DEF RegisterMandate, MemberSet
    <2>4. ASSUME NEW k \in Mandates, CommitChild(k)
          PROVE  FALSE
      <3>1. k # m /\ poolState'[m] = "Committed" /\ terms' = terms
        BY <2>1, <2>4 DEF CommitChild, RegistryInv, RegistryTypeOK
      <3>2. MembershipAgrees'
        BY DEF RegistryInv
      <3> QED BY <2>1, <3>1, <3>2 DEF MembershipAgrees
    <2>5. ASSUME NEW q \in Pools, NEW k \in Mandates, EvictChild(q, k)
          PROVE  ~IsEligible(m, p)
      <3>1. CASE k = m
        BY <2>1, <2>5, <3>1 DEF EvictChild
      <3>2. CASE k # m
        <4>1. poolState'[m] = "Committed" /\ terms' = terms
          BY <2>1, <2>5, <3>2 DEF EvictChild, Unlink, RegistryInv, RegistryTypeOK
        <4>2. MembershipAgrees'
          BY DEF RegistryInv
        <4> QED BY <2>1, <4>1, <4>2 DEF MembershipAgrees
      <3> QED BY <3>1, <3>2
    <2>6. ASSUME NEW k \in Mandates, RevokeMandate(k)
          PROVE  status'[m] = "Revoked"
      <3>1. CASE k = m
        BY <2>6, <3>1 DEF RevokeMandate, RegistryInv, RegistryTypeOK
      <3>2. CASE k # m
        <4>1. poolState'[m] = "Committed" /\ terms' = terms
          BY <2>1, <2>6, <3>2 DEF RevokeMandate, Unlink, RegistryInv, RegistryTypeOK
        <4>2. MembershipAgrees'
          BY DEF RegistryInv
        <4> QED BY <2>1, <4>1, <4>2 DEF MembershipAgrees
      <3> QED BY <3>1, <3>2
    <2>7. ASSUME NEW q \in Pools, ClearPool(q)
          PROVE  FALSE
      BY <2>7 DEF ClearPool, MemberSet
    <2>8. ASSUME NEW q \in Pools, RegisterPool(q)
          PROVE  FALSE
      <3>1. terms' = terms /\ poolState' = poolState
        BY <2>8 DEF RegisterPool
      <3>2. MembershipAgrees'
        BY DEF RegistryInv
      <3> QED BY <2>1, <3>1, <3>2 DEF MembershipAgrees
    <2>9. CASE \/ Pause \/ Unpause \/ TokenStep \/ Tick
               \/ \E k \in Mandates, amount \in PaymentAmounts, n \in 0..MaxSeq :
                     ExecutePayment(k, amount, n)
      BY <2>2, <2>9 DEF Pause, Unpause, TokenStep, Tick, ExecutePayment,
                        Pay
    <2> QED BY <2>3, <2>4, <2>5, <2>6, <2>7, <2>8, <2>9 DEF Next
  <1> QED BY <1>1, RegistryInvariant, PTL DEF Spec, OnlyIneligibleEvicted

--------------------------------------------------------------------------------
\* The auction.

\* The member list and the mandates' own records name the same bidders.
LEMMA BiddersAreEligible ==
  ASSUME RegistryInv, NEW p \in Pools, poolStatus[p] = "Open"
  PROVE  /\ Bidders(p) = EligibleSchedules(p)
         /\ Kids(Bidders(p)) /\ IsFiniteSet(DOMAIN Bidders(p))
         /\ DOMAIN Bidders(p) = {m \in Mandates : m \in Committed(p) /\ IsEligible(m, p)}
         /\ \A m \in DOMAIN Bidders(p) : m \in Mandates /\ m \in Committed(p)
  <1> DEFINE named == {c \in Mandates : Registered(c) /\ terms[c].pool = p /\ IsEligible(c, p)}
             seated == {c \in MemberSet(p) : IsEligible(c, p)}
  <1>1. ASSUME NEW m \in named PROVE m \in seated
    <2>1. poolState[m] = "Committed" /\ terms[m].pool = p
      BY DEF IsEligible
    <2>2. m \in MemberSet(p)
      BY <2>1 DEF RegistryInv, MembershipAgrees, MemberSet
    <2> QED BY <2>2
  <1>2. ASSUME NEW m \in seated PROVE m \in named
    BY CommittedMember
  <1>3. named = seated
    BY <1>1, <1>2
  <1>4. Bidders(p) = EligibleSchedules(p)
    BY <1>3 DEF Bidders, EligibleSchedules
  <1>5. DOMAIN Bidders(p) = named
    BY DEF Bidders
  <1>6. IsFiniteSet(named)
    BY RegistryConstants, FS_Subset
  <1>7. Kids(Bidders(p))
    BY <1>4, CommittedMember DEF Kids, EligibleSchedules
  <1>8. \A m \in Mandates : m \in named <=> m \in Committed(p) /\ IsEligible(m, p)
    BY <1>3 DEF Committed, IsEligible
  <1> QED BY <1>4, <1>5, <1>6, <1>7, <1>8

\* What an open pool's auction answers inside its window.
LEMMA AuctionOutcome ==
  ASSUME RegistryInv, NEW p \in Pools, poolStatus[p] = "Open", now <= WindowEnd(p)
  PROVE  /\ Outcome(p).fires <=> ClearingPrices(p) # {}
         /\ Outcome(p).fires =>
              /\ Outcome(p).price = Min(ClearingPrices(p))
              /\ Outcome(p).alloc = Allocation(Bidders(p), Outcome(p).price)
  <1> DEFINE kids == Bidders(p)
             tq == PoolTerms[p].thresholdQty
             tv == PoolTerms[p].thresholdValue
             outcome == Clear(kids, tq, tv, FeeBpsPinned)
             feasible == FeasiblePrices(kids, tq, tv, FeeBpsPinned)
  <1>1. Outcome(p) = outcome /\ ClearingPrices(p) = feasible
    BY BiddersAreEligible DEF Outcome, ClearingPrices
  <1>2. Kids(kids) /\ IsFiniteSet(DOMAIN kids)
    BY BiddersAreEligible
  <1>3. tq \in Nat /\ tv \in Nat
    <2>1. PoolTerms[p] \in PoolTermsType
      BY RegistryConstants
    <2> QED BY <2>1 DEF PoolTermsType
  <1>4. FeeBpsPinned \in 0..BpsDenom
    BY BpsDenomPositive DEF FeeBpsPinned
  <1> HIDE DEF kids, tq, tv
  <1>5. /\ outcome.fires <=> feasible # {}
        /\ outcome.fires => /\ outcome.price = Min(feasible)
                            /\ outcome.alloc = Allocation(kids, outcome.price)
    BY <1>2, <1>3, <1>4, ClearingIsLeast
  <1> QED BY <1>1, <1>5 DEF kids

\* The close of a pool, member by member.
LEMMA CloseIsHonest ==
  ASSUME RegistryInv, NEW p \in Pools, ClearPool(p)
  PROVE  /\ poolStatus'[p] = "Cleared" =>
              /\ now \in Deadline(p)..WindowEnd(p)
              /\ ClearingPrices(p) # {}
              /\ \A m \in Mandates :
                   Paid(m) = IF m \in DOMAIN Bidders(p)
                             THEN Min(ClearingPrices(p))
                                    * Demand(Bidders(p)[m], Min(ClearingPrices(p)))
                             ELSE 0
         /\ poolStatus'[p] = "Aborted" =>
              /\ \/ now > WindowEnd(p)
                 \/ now >= Deadline(p) /\ ClearingPrices(p) = {}
              /\ spent' = spent
  <1> DEFINE outcome == Outcome(p)
             kids == Bidders(p)
             fired == Committed(p) \intersect DOMAIN outcome.alloc
  <1>1. poolStatus[p] = "Open" /\ now >= Deadline(p) /\ now \in Nat
    BY DEF ClearPool, RegistryInv, RegistryTypeOK
  <1>2. Deadline(p) \in Nat /\ WindowEnd(p) \in Nat
    BY PoolTermsTyped
  <1>3. ASSUME ~outcome.fires
        PROVE  /\ poolStatus'[p] # "Cleared" /\ spent' = spent
               /\ now > WindowEnd(p) \/ ClearingPrices(p) = {}
    <2>1. Abort(p)
      BY <1>3 DEF ClearPool
    <2>2. poolStatus'[p] = "Aborted" /\ spent' = spent
      BY <2>1 DEF Abort, RegistryInv, RegistryTypeOK
    <2>3. now > WindowEnd(p) \/ ClearingPrices(p) = {}
      BY <1>1, <1>2, <1>3, AuctionOutcome
    <2> QED BY <2>2, <2>3
  <1>4. ASSUME outcome.fires
        PROVE  /\ poolStatus'[p] = "Cleared" /\ now <= WindowEnd(p)
               /\ ClearingPrices(p) # {} /\ outcome.price = Min(ClearingPrices(p))
               /\ outcome.alloc = Allocation(kids, outcome.price)
               /\ Capture(p, outcome)
    <2>1. Capture(p, outcome)
      BY <1>4 DEF ClearPool
    <2>2. poolStatus'[p] = "Cleared"
      <3> HIDE DEF outcome
      <3> QED BY <2>1 DEF Capture, CaptureLegs, RegistryInv, RegistryTypeOK
    <2>3. now <= WindowEnd(p)
      BY <1>4 DEF Outcome, NoFire
    <2> QED BY <1>1, <1>4, <2>1, <2>2, <2>3, AuctionOutcome
  <1>5. ASSUME outcome.fires, NEW m \in Mandates
        PROVE  Paid(m) = IF m \in DOMAIN kids
                         THEN outcome.price * Demand(kids[m], outcome.price) ELSE 0
    <2>1. outcome.price \in Nat
      <3> DEFINE prices == ClearingPrices(p)
      <3>1. prices \subseteq Nat /\ prices # {}
        <4>1. prices \subseteq 1..MaxUnitPrice
          BY DEF ClearingPrices, FeasiblePrices
        <4> QED BY <1>4, <1>5, <4>1, ScheduleBounds
      <3>2. Min(prices) \in prices
        BY <3>1, MinIsLeast
      <3> QED BY <1>4, <1>5, <3>1, <3>2
    <2>2. \A k \in DOMAIN kids : /\ k \in Committed(p)
                                 /\ Demand(kids[k], outcome.price) \in Nat
      BY <1>1, <2>1, BiddersAreEligible, LegWithinWorstCase DEF Kids
    <2>3. outcome.alloc = Allocation(kids, outcome.price) /\ Capture(p, outcome)
      BY <1>4, <1>5
    <2>4. spent[m] \in Nat
      BY DEF RegistryInv, RegistryTypeOK
    <2> HIDE DEF outcome, kids
    <2>5. spent'[m] = IF m \in fired THEN spent[m] + Leg(outcome, m) ELSE spent[m]
      BY <2>3 DEF Capture, CaptureLegs
    <2>6. m \in fired <=> m \in DOMAIN kids /\ Demand(kids[m], outcome.price) > 0
      BY <2>2, <2>3 DEF Allocation
    <2>7. CASE m \in fired
      <3>1. Leg(outcome, m) = outcome.price * Demand(kids[m], outcome.price)
        BY <2>3, <2>6, <2>7 DEF Leg, Allocation
      <3>2. outcome.price * Demand(kids[m], outcome.price) \in Nat
        BY <2>1, <2>2, <2>6, <2>7
      <3>3. Paid(m) = Leg(outcome, m)
        BY <2>4, <2>5, <2>7, <3>1, <3>2 DEF Paid
      <3> QED BY <2>6, <2>7, <3>1, <3>3
    <2>8. CASE m \notin fired
      <3>1. Paid(m) = 0
        BY <2>4, <2>5, <2>8 DEF Paid
      <3>2. m \in DOMAIN kids => Demand(kids[m], outcome.price) = 0
        BY <2>2, <2>6, <2>8
      <3>3. outcome.price * 0 = 0
        BY <2>1
      <3> QED BY <3>1, <3>2, <3>3
    <2> QED BY <2>7, <2>8
  <1> HIDE DEF outcome
  <1>6. CASE outcome.fires
    <2>1. now \in Deadline(p)..WindowEnd(p) /\ poolStatus'[p] # "Aborted"
      BY <1>1, <1>2, <1>4, <1>6
    <2> QED BY <1>4, <1>5, <1>6, <2>1
  <1>7. CASE ~outcome.fires
    BY <1>1, <1>3, <1>7
  <1> QED BY <1>6, <1>7

\* The auction is honest: the close charges every eligible bidder its demand at
\* the globally least price that works and nobody else; an abort charges nobody.
THEOREM AuctionsAreHonest == Spec => AuctionIsHonest
  <1>1. RegistryInv /\ [Next]_vars => [HonestClose]_vars
    <2> SUFFICES ASSUME RegistryInv, Next PROVE HonestClose
      BY DEF mandateVars, poolVars, tokenVars
    <2> SUFFICES ASSUME NEW p \in Pools, poolStatus[p] = "Open"
                 PROVE  /\ poolStatus'[p] = "Cleared" =>
                             /\ now \in Deadline(p)..WindowEnd(p)
                             /\ ClearingPrices(p) # {}
                             /\ \A m \in Mandates :
                                  Paid(m) = IF m \in DOMAIN Bidders(p)
                                            THEN Min(ClearingPrices(p))
                                              * Demand(Bidders(p)[m], Min(ClearingPrices(p)))
                                            ELSE 0
                        /\ poolStatus'[p] = "Aborted" =>
                             /\ \/ now > WindowEnd(p)
                                \/ now >= Deadline(p) /\ ClearingPrices(p) = {}
                             /\ spent' = spent
      BY Zenon DEF HonestClose
    <2> USE DEF mandateVars, poolVars, tokenVars
    <2>1. CASE poolStatus'[p] = "Open"
      BY <2>1
    <2>2. ASSUME NEW q \in Pools, ClearPool(q), poolStatus'[p] # "Open"
          PROVE  ClearPool(p)
      <3>1. CASE q = p
        BY <2>2, <3>1
      <3>2. CASE q # p
        <4>1. \E x \in {"Cleared", "Aborted"} : poolStatus' = [poolStatus EXCEPT ![q] = x]
          BY <2>2 DEF ClearPool, Capture, CaptureLegs, Abort
        <4> QED BY <2>2, <3>2, <4>1 DEF RegistryInv, RegistryTypeOK
      <3> QED BY <3>1, <3>2
    <2>3. ASSUME NEW q \in Pools, RegisterPool(q) PROVE poolStatus'[p] = "Open"
      BY <2>3 DEF RegisterPool, RegistryInv, RegistryTypeOK
    <2>4. ASSUME NEW k \in Mandates, NEW t \in MandateTerms, RegisterMandate(k, t)
          PROVE  poolStatus'[p] = "Open"
      BY <2>4 DEF RegisterMandate
    <2>5. ASSUME NEW k \in Mandates, CommitChild(k) \/ RevokeMandate(k)
          PROVE  poolStatus'[p] = "Open"
      BY <2>5 DEF CommitChild, RevokeMandate, Unlink
    <2>6. ASSUME NEW q \in Pools, NEW k \in Mandates, EvictChild(q, k)
          PROVE  poolStatus'[p] = "Open"
      BY <2>6 DEF EvictChild, Unlink
    <2>7. CASE \/ Pause \/ Unpause \/ TokenStep \/ Tick
               \/ \E k \in Mandates, amount \in PaymentAmounts, n \in 0..MaxSeq :
                     ExecutePayment(k, amount, n)
      <3>1. poolStatus'[p] = "Open"
        BY <2>7 DEF Pause, Unpause, TokenStep, Tick, ExecutePayment, Pay
      <3> QED BY <3>1
    <2>8. CASE \E q \in Pools : ClearPool(q) /\ poolStatus'[p] # "Open"
      <3>1. ClearPool(p)
        BY <2>2, <2>8
      <3> QED BY <3>1, CloseIsHonest
    <2> QED BY <2>1, <2>3, <2>4, <2>5, <2>6, <2>7, <2>8 DEF Next
  <1> QED BY <1>1, RegistryInvariant, PTL DEF Spec, AuctionIsHonest

--------------------------------------------------------------------------------
\* No sum leaves its range.

\* An open pool never has more bidders than seats.
LEMMA BiddersAreFew ==
  ASSUME RegistryInv, NEW p \in Pools, poolStatus[p] = "Open"
  PROVE  Cardinality(DOMAIN Bidders(p)) <= MaxPoolMembers
  <1> DEFINE n == Len(members[p])
             B == DOMAIN Bidders(p)
  <1>1. /\ n \in Nat /\ n <= MaxPoolMembers /\ MaxPoolMembers \in Nat
        /\ members[p] \in Seq(Mandates)
    BY RegistryConstants DEF RegistryInv, RegistryTypeOK, MembershipAgrees
  <1>2. members[p] \in Surjection(1..n, MemberSet(p))
    <2>1. members[p] \in [1..n -> MemberSet(p)]
      BY <1>1 DEF MemberSet
    <2>2. \A m \in MemberSet(p) : \E i \in 1..n : members[p][i] = m
      BY <1>1 DEF MemberSet
    <2> QED BY <2>1, <2>2 DEF Surjection
  <1>3. IsFiniteSet(1..n) /\ Cardinality(1..n) = n
    <2>1. IsFiniteSet(1..n) /\ Cardinality(1..n) = IF 1 > n THEN 0 ELSE n - 1 + 1
      <3> HIDE DEF n
      <3> QED BY <1>1, FS_Interval
    <2> HIDE DEF n
    <2>2. (IF 1 > n THEN 0 ELSE n - 1 + 1) = n
      BY <1>1
    <2> QED BY <2>1, <2>2
  <1>4. IsFiniteSet(MemberSet(p)) /\ Cardinality(MemberSet(p)) <= n
    BY <1>2, <1>3, FS_Surjection
  <1>5. B \subseteq MemberSet(p)
    BY BiddersAreEligible DEF Committed
  <1>6. Cardinality(B) <= Cardinality(MemberSet(p))
    BY <1>4, <1>5, FS_Subset
  <1>7. Cardinality(B) \in Nat /\ Cardinality(MemberSet(p)) \in Nat
    BY <1>4, <1>5, FS_Subset, FS_CardinalityType
  <1> HIDE DEF n, B
  <1>8. Cardinality(B) <= MaxPoolMembers
    BY <1>1, <1>4, <1>6, <1>7
  <1> QED BY <1>8 DEF B

\* What registration tested of the thresholds of every pool on file.
ThresholdsCapped ==
  \A p \in Pools : poolStatus[p] # "None" =>
    /\ PoolTerms[p].thresholdQty <= MaxPoolMembers * MaxQty
    /\ PoolTerms[p].thresholdValue <= MaxPoolValue

\* Thresholds and sums of an open auction stay under the same caps.
SumsInRange ==
  \A p \in Pools : poolStatus[p] = "Open" =>
    /\ PoolTerms[p].thresholdValue <= MaxPoolValue
    /\ \A price \in 0..MaxUnitPrice :
         /\ TotalQty(Bidders(p), price) \in 0..(MaxPoolMembers * MaxQty)
         /\ NetValue(Bidders(p), price, FeeBpsPinned) \in 0..MaxPoolValue

LEMMA CapsStep ==
  ASSUME RegistryInv, ThresholdsCapped, [Next]_vars
  PROVE  ThresholdsCapped'
  <1> USE DEF mandateVars, poolVars, tokenVars
  <1>1. CASE poolStatus' = poolStatus
    BY <1>1 DEF ThresholdsCapped
  <1>2. ASSUME NEW p \in Pools, RegisterPool(p) PROVE ThresholdsCapped'
    BY <1>2 DEF RegisterPool, ThresholdsCapped, RegistryInv, RegistryTypeOK
  <1>3. ASSUME NEW p \in Pools, ClearPool(p) PROVE ThresholdsCapped'
    <2>1. /\ \E x \in {"Cleared", "Aborted"} : poolStatus' = [poolStatus EXCEPT ![p] = x]
          /\ poolStatus[p] = "Open"
      BY <1>3 DEF ClearPool, Capture, CaptureLegs, Abort
    <2> QED BY <2>1 DEF ThresholdsCapped, RegistryInv, RegistryTypeOK
  <1>4. ASSUME NEW k \in Mandates, NEW t \in MandateTerms, RegisterMandate(k, t)
        PROVE  poolStatus' = poolStatus
    BY <1>4 DEF RegisterMandate
  <1>5. ASSUME NEW k \in Mandates, CommitChild(k) \/ RevokeMandate(k)
        PROVE  poolStatus' = poolStatus
    BY <1>5 DEF CommitChild, RevokeMandate, Unlink
  <1>6. ASSUME NEW p \in Pools, NEW k \in Mandates, EvictChild(p, k)
        PROVE  poolStatus' = poolStatus
    BY <1>6 DEF EvictChild, Unlink
  <1>7. CASE \/ Pause \/ Unpause \/ TokenStep \/ Tick \/ UNCHANGED vars
             \/ \E k \in Mandates, amount \in PaymentAmounts, s \in 0..MaxSeq :
                   ExecutePayment(k, amount, s)
    <2>1. poolStatus' = poolStatus
      BY <1>7 DEF Pause, Unpause, TokenStep, Tick, ExecutePayment, Pay, vars
    <2> QED BY <1>1, <2>1
  <1> QED BY <1>1, <1>2, <1>3, <1>4, <1>5, <1>6, <1>7 DEF Next

\* The overflow argument of mandate.rs and pool.rs (`the bound is what makes the
\* u128 -> i128 threshold cast safe'): whatever is committed, at every price the
\* sums of an open pool stay below members times both caps, as its threshold does.
THEOREM SumsStayInRange == Spec => []SumsInRange
  <1>1. Init => ThresholdsCapped
    BY DEF Init, ThresholdsCapped
  <1>2. RegistryInv /\ ThresholdsCapped /\ [Next]_vars => ThresholdsCapped'
    BY CapsStep
  <1>3. RegistryInv /\ ThresholdsCapped => SumsInRange
    <2> SUFFICES ASSUME RegistryInv, ThresholdsCapped,
                        NEW p \in Pools, poolStatus[p] = "Open", NEW price \in 0..MaxUnitPrice
                 PROVE  /\ PoolTerms[p].thresholdValue <= MaxPoolValue
                        /\ TotalQty(Bidders(p), price) \in 0..(MaxPoolMembers * MaxQty)
                        /\ NetValue(Bidders(p), price, FeeBpsPinned) \in 0..MaxPoolValue
      BY DEF SumsInRange, ThresholdsCapped
    <2>1. PoolTerms[p].thresholdValue <= MaxPoolValue
      BY DEF ThresholdsCapped
    <2>2. /\ Kids(Bidders(p)) /\ IsFiniteSet(DOMAIN Bidders(p))
          /\ Cardinality(DOMAIN Bidders(p)) <= MaxPoolMembers
          /\ MaxPoolMembers \in Nat /\ FeeBpsPinned \in 0..BpsDenom
      <3>1. 0 \in 0..BpsDenom
        BY BpsDenomPositive
      <3>2. MaxPoolMembers \in Nat
        BY RegistryConstants
      <3>3. /\ Kids(Bidders(p)) /\ IsFiniteSet(DOMAIN Bidders(p))
            /\ Cardinality(DOMAIN Bidders(p)) <= MaxPoolMembers
        BY BiddersAreEligible, BiddersAreFew
      <3> QED BY <3>1, <3>2, <3>3 DEF FeeBpsPinned
    <2>3. /\ TotalQty(Bidders(p), price) \in 0..(MaxPoolMembers * MaxQty)
          /\ NetValue(Bidders(p), price, FeeBpsPinned)
               \in 0..(MaxPoolMembers * (MaxUnitPrice * MaxQty))
      <3>1. price \in Nat
        BY ScheduleBounds
      <3> QED BY <2>2, <3>1, SumsAreBounded
    <2>4. MaxPoolMembers * (MaxUnitPrice * MaxQty) = MaxPoolValue
      BY <2>2, ScheduleBounds DEF MaxPoolValue
    <2> QED BY <2>1, <2>3, <2>4
  <1> QED BY <1>1, <1>2, <1>3, RegistryInvariant, PTL DEF Spec

--------------------------------------------------------------------------------
\* Money: no member can wedge a met pool.

\* The transfers of a capture: the whole leg of each member charged, in the
\* asset and to the merchant of its own terms.
LEMMA CaptureLegsAre ==
  ASSUME RegistryInv, NEW p \in Pools, poolStatus[p] = "Open", Outcome(p).fires
  PROVE  LET batch == CaptureBatch(p, Outcome(p)) IN
         /\ DOMAIN batch = DOMAIN Outcome(p).alloc
         /\ \A m \in DOMAIN batch :
              /\ m \in Committed(p) /\ m \in Mandates /\ Registered(m)
              /\ terms[m].pool = p /\ IsEligible(m, p)
              /\ batch[m].asset = PoolTerms[p].asset
              /\ batch[m].to = PoolTerms[p].merchant
              /\ terms[m].asset = PoolTerms[p].asset
              /\ terms[m].merchant = PoolTerms[p].merchant
              /\ batch[m].from = terms[m].user
              /\ batch[m].amount = Leg(Outcome(p), m)
              /\ Leg(Outcome(p), m) \in Nat \ {0}
              /\ Leg(Outcome(p), m) <= MandateWorstCase(m)
              /\ spent[m] + Leg(Outcome(p), m) <= terms[m].maxAmount
  <1> DEFINE outcome == Outcome(p)
             batch == CaptureBatch(p, outcome)
  <1>1. DOMAIN batch = DOMAIN outcome.alloc
    BY DEF CaptureBatch
  <1>2. ASSUME NEW m \in DOMAIN outcome.alloc
        PROVE  /\ m \in Committed(p) /\ IsEligible(m, p)
               /\ Leg(outcome, m) \in Nat \ {0}
               /\ Leg(outcome, m) <= MandateWorstCase(m)
               /\ spent[m] + Leg(outcome, m) <= terms[m].maxAmount
    BY BudgetErrorUnreachable
  <1> HIDE DEF outcome
  <1>3. ASSUME NEW m \in DOMAIN outcome.alloc
        PROVE  /\ m \in Mandates /\ Registered(m) /\ terms[m].pool = p
               /\ terms[m].asset = PoolTerms[p].asset
               /\ terms[m].merchant = PoolTerms[p].merchant
    <2>1. m \in Mandates /\ Registered(m) /\ terms[m].pool = p
      BY <1>2, CommittedMember DEF Committed
    <2>2. p # NoPool
      BY RegistryConstants
    <2> QED BY <2>1, <2>2 DEF RegistryInv, TermsAccepted
  <1>4. ASSUME NEW m \in DOMAIN outcome.alloc
        PROVE  /\ batch[m].asset = PoolTerms[p].asset
               /\ batch[m].to = PoolTerms[p].merchant
               /\ batch[m].from = terms[m].user
               /\ batch[m].amount = Leg(outcome, m)
    <2>1. \A leg \in Nat : FeeOf(leg, FeeBpsPinned) = 0
      <3> TAKE leg \in Nat
      <3>1. leg * 0 = 0 /\ 0 \div BpsDenom = 0
        BY BpsDenomPositive
      <3> QED BY <3>1 DEF FeeOf, FeeBpsPinned
    <2>2. /\ Leg(outcome, m) \in Nat
          /\ Leg(outcome, m) - FeeOf(Leg(outcome, m), FeeBpsPinned) = Leg(outcome, m)
      BY <1>2, <2>1
    <2> QED BY <2>2 DEF CaptureBatch
  <1> HIDE DEF batch
  <1>5. /\ DOMAIN batch = DOMAIN outcome.alloc
        /\ \A m \in DOMAIN batch :
              /\ m \in Committed(p) /\ m \in Mandates /\ Registered(m)
              /\ terms[m].pool = p /\ IsEligible(m, p)
              /\ batch[m].asset = PoolTerms[p].asset
              /\ batch[m].to = PoolTerms[p].merchant
              /\ terms[m].asset = PoolTerms[p].asset
              /\ terms[m].merchant = PoolTerms[p].merchant
              /\ batch[m].from = terms[m].user
              /\ batch[m].amount = Leg(outcome, m)
              /\ Leg(outcome, m) \in Nat \ {0}
              /\ Leg(outcome, m) <= MandateWorstCase(m)
              /\ spent[m] + Leg(outcome, m) <= terms[m].maxAmount
    BY <1>1, <1>2, <1>3, <1>4
  <1> QED BY <1>5 DEF batch, outcome

\* A user owes a capture at most one leg, and eligibility covered it.
LEMMA OneLegPerUser ==
  ASSUME RegistryInv, NEW p \in Pools, poolStatus[p] = "Open", Outcome(p).fires,
         NEW a \in Assets, NEW u \in Users
  PROVE  LET due == Due(CaptureBatch(p, Outcome(p)), a, u) IN
         due \in 0..balance[a][u] /\ due \in 0..allowance[a][u]
  <1> DEFINE batch == CaptureBatch(p, Outcome(p))
             legs == {k \in DOMAIN batch : batch[k].asset = a /\ batch[k].from = u}
             f == [k \in DOMAIN batch |-> batch[k].amount]
  <1>1. balance[a][u] \in Nat /\ allowance[a][u] \in Nat
    BY DEF RegistryInv, FundsTypeOK
  <1>2. Due(batch, a, u) = Sum(f, legs)
    <2>1. Due(batch, a, u) = SumOfAmounts(batch, legs)
      BY DEF Due, SumOfAmounts
    <2>2. \A k \in legs : batch[k].amount = f[k]
      OBVIOUS
    <2> HIDE DEF batch, f, legs
    <2> QED BY <2>1, <2>2, AmountsAgree
  <1>3. \A k \in DOMAIN batch :
          /\ k \in Mandates /\ poolState[k] = "Committed" /\ terms[k].pool = p
          /\ IsEligible(k, p) /\ batch[k].asset = PoolTerms[p].asset
          /\ batch[k].from = terms[k].user /\ f[k] \in Nat
          /\ f[k] <= MandateWorstCase(k) /\ MandateWorstCase(k) \in Nat
    <2> HIDE DEF batch
    <2> TAKE k \in DOMAIN batch
    <2>1. /\ k \in Committed(p) /\ k \in Mandates /\ terms[k].pool = p
          /\ IsEligible(k, p) /\ batch[k].asset = PoolTerms[p].asset
          /\ batch[k].from = terms[k].user
          /\ batch[k].amount = Leg(Outcome(p), k) /\ Leg(Outcome(p), k) \in Nat
          /\ Leg(Outcome(p), k) <= MandateWorstCase(k)
      BY CaptureLegsAre DEF batch
    <2>2. MandateWorstCase(k) \in Nat
      BY <2>1, CommittedMember, WorstCaseBounds DEF Committed, MandateWorstCase
    <2> QED BY <2>1, <2>2 DEF IsEligible
  <1>0. OneSeatPerUser
    BY DEF RegistryInv
  <1> HIDE DEF batch, f
  <1> DEFINE due == Due(batch, a, u)
  <1>4. ASSUME legs = {} PROVE due \in 0..balance[a][u] /\ due \in 0..allowance[a][u]
    <2> HIDE DEF legs
    <2>1. due = 0
      BY <1>2, <1>4, SumOfNone
    <2> HIDE DEF due
    <2> QED BY <1>1, <2>1
  <1>5. ASSUME legs # {} PROVE due \in 0..balance[a][u] /\ due \in 0..allowance[a][u]
    <2>1. PICK k \in legs : TRUE
      BY <1>5
    <2>2. legs = {k}
      <3> SUFFICES ASSUME NEW j \in legs PROVE j = k
        BY <2>1
      <3>1. /\ j \in Mandates /\ poolState[j] = "Committed" /\ terms[j].pool = p
            /\ k \in Mandates /\ poolState[k] = "Committed" /\ terms[k].pool = p
            /\ terms[j].user = u /\ terms[k].user = u
        BY <1>3, <2>1
      <3> QED BY <1>0, <3>1 DEF OneSeatPerUser
    <2>3. Sum(f, legs) = f[k]
      <3>1. f[k] \in Int
        BY <1>3, <2>1
      <3> HIDE DEF legs
      <3> QED BY <2>2, <3>1, SumOfOne
    <2>4. balance[a][u] >= MandateWorstCase(k) /\ allowance[a][u] >= MandateWorstCase(k)
      BY <1>3, <2>1 DEF IsEligible, Funded
    <2>5. f[k] \in Nat /\ f[k] <= MandateWorstCase(k) /\ MandateWorstCase(k) \in Nat
      BY <1>3, <2>1
    <2> HIDE DEF legs
    <2>6. due = f[k]
      BY <1>2, <2>3
    <2> HIDE DEF due
    <2> QED BY <1>1, <2>4, <2>5, <2>6
  <1> HIDE DEF legs, due
  <1>6. due \in 0..balance[a][u] /\ due \in 0..allowance[a][u]
    BY <1>4, <1>5
  <1> QED BY <1>6 DEF batch, due

\* Whatever the members did to their allowances, balances and other mandates, a
\* pool whose auction fires can be settled: clear_pool's transfers all succeed.
\* Of a token that does not answer the probe this takes that none of the members
\* to be charged is blocked: is_eligible cannot see it, and the transfer reverts.
THEOREM MetPoolsSettle == Spec => []MetPoolSettles
  <1>1. RegistryInv => MetPoolSettles
    <2> SUFFICES ASSUME RegistryInv, NEW p \in Pools, poolStatus[p] = "Open",
                        Outcome(p).fires,
                        authorized[PoolTerms[p].asset][PoolTerms[p].merchant],
                        ProbedOrUnblocked(p, DOMAIN Outcome(p).alloc)
                 PROVE  /\ \A m \in DOMAIN Outcome(p).alloc :
                             spent[m] + Leg(Outcome(p), m) <= terms[m].maxAmount
                        /\ CanSettle(CaptureBatch(p, Outcome(p)))
      BY DEF MetPoolSettles
    <2> DEFINE batch == CaptureBatch(p, Outcome(p))
    <2>1. \A m \in DOMAIN Outcome(p).alloc :
            spent[m] + Leg(Outcome(p), m) <= terms[m].maxAmount
      BY BudgetErrorUnreachable
    <2>2. \A a \in Assets, u \in Users : /\ Due(batch, a, u) \in 0..balance[a][u]
                                        /\ Due(batch, a, u) \in 0..allowance[a][u]
      BY OneLegPerUser
    <2>3. \A k \in DOMAIN batch : /\ IsEligible(k, p)
                                 /\ batch[k].asset = PoolTerms[p].asset
                                 /\ batch[k].from = terms[k].user
                                 /\ batch[k].to = PoolTerms[p].merchant
      <3> HIDE DEF batch
      <3> QED BY CaptureLegsAre DEF batch
    <2>4. DOMAIN batch = DOMAIN Outcome(p).alloc
      BY DEF CaptureBatch
    \* Where the probe answers, the filter saw the trustline; elsewhere it is assumed.
    <2>5. \A k \in DOMAIN batch : authorized[PoolTerms[p].asset][terms[k].user]
      <3> HIDE DEF batch
      <3>1. CASE PoolTerms[p].asset \in ProbedAssets
        BY <3>1, <2>3 DEF IsEligible, Funded, TrustlineAuthorized
      <3>2. CASE PoolTerms[p].asset \notin ProbedAssets
        BY <3>2, <2>4 DEF ProbedOrUnblocked
      <3> QED BY <3>1, <3>2
    <2>6. CanSettle(batch)
      <3> HIDE DEF batch
      <3> QED BY <2>2, <2>3, <2>5 DEF CanSettle
    <2> QED BY <2>1, <2>6
  <1> QED BY <1>1, RegistryInvariant, PTL

--------------------------------------------------------------------------------
\* What the books say against what the tokens moved.

Naming(a, u, w) == {m \in Mandates : /\ Registered(m)
                                     /\ terms[m].asset = a
                                     /\ terms[m].user = u
                                     /\ terms[m].merchant = w}

DrawnTypeOK == drawn \in [Assets -> [Users -> [Payees -> Int]]]

BooksInv == RegistryInv /\ DrawnTypeOK /\ BooksMatchLedger

LEMMA BooksAreSums ==
  /\ BooksMatchLedger <=> \A a \in Assets, u \in Users, w \in Payees :
                             drawn[a][u][w] = Sum(spent, Naming(a, u, w))
  /\ BooksMatchLedger' <=> \A a \in Assets, u \in Users, w \in Payees :
                             drawn'[a][u][w] = Sum(spent', Naming(a, u, w)')
  <1>1. BooksMatchLedger <=> \A a \in Assets, u \in Users, w \in Payees :
                               drawn[a][u][w] = Sum(spent, Naming(a, u, w))
    BY Zenon DEF BooksMatchLedger, Sum, Naming
  <1>2. BooksMatchLedger' <=> \A a \in Assets, u \in Users, w \in Payees :
                                drawn'[a][u][w] = Sum(spent', Naming(a, u, w)')
    BY Zenon DEF BooksMatchLedger, Sum, Naming, MapThenSumSet, MapThenFoldSet
  <1> QED BY <1>1, <1>2

LEMMA NamingIsFinite ==
  ASSUME NEW a, NEW u, NEW w
  PROVE  IsFiniteSet(Naming(a, u, w)) /\ Naming(a, u, w) \subseteq Mandates
  BY RegistryConstants, FS_Subset DEF Naming

\* What each mandate pays in a step.
Payments == [m \in Mandates |-> Paid(m)]

\* The tokens move exactly what the mandates `charged' pay.
Moves(charged) ==
  drawn' = [a \in Assets |-> [u \in Users |-> [w \in Payees |->
             drawn[a][u][w] + Sum(Payments, charged \intersect Naming(a, u, w))]]]

\* The step of a payment or of a capture: it charges the mandates `charged', all
\* of them live, and the tokens move exactly that.
Charging(charged) ==
  /\ charged \subseteq Mandates
  /\ UNCHANGED <<now, terms>>
  /\ spent' \in [Mandates -> Nat]
  /\ \A m \in charged :
       /\ Registered(m) /\ status[m] = "Active" /\ now < terms[m].expiry
       /\ Paid(m) \in Nat \ {0} /\ spent[m] + Paid(m) <= terms[m].maxAmount
       /\ status'[m] \in {"Active", "Exhausted"}
  /\ \A m \in Mandates \ charged : Paid(m) = 0 /\ status'[m] = status[m]
  /\ Moves(charged)

\* A batch with one leg for each mandate charged: what it pays, as it was signed.
LegsOf(batch, charged) ==
  /\ charged \subseteq Mandates
  /\ DOMAIN batch = charged
  /\ \A m \in charged : /\ Registered(m)
                         /\ batch[m].asset = terms[m].asset
                         /\ batch[m].from = terms[m].user
                         /\ batch[m].to = terms[m].merchant
                         /\ batch[m].amount = Paid(m)

\* What a batch moves is the sum of its legs.
LEMMA BatchFlow ==
  ASSUME NEW batch, NEW charged, LegsOf(batch, charged),
         NEW a, NEW u, NEW w
  PROVE  Flow(batch, a, u, w) = Sum(Payments, charged \intersect Naming(a, u, w))
  <1> DEFINE legs == {k \in DOMAIN batch : /\ batch[k].asset = a
                                           /\ batch[k].from = u
                                           /\ batch[k].to = w}
  <1>1. Flow(batch, a, u, w) = SumOfAmounts(batch, legs)
    BY DEF Flow, SumOfAmounts
  <1>2. legs = charged \intersect Naming(a, u, w)
    BY DEF Naming, LegsOf
  <1>3. \A k \in legs : batch[k].amount = Payments[k]
    BY DEF Payments, LegsOf
  <1> HIDE DEF legs
  <1>4. SumOfAmounts(batch, legs) = Sum(Payments, legs)
    BY <1>3, AmountsAgree
  <1> QED BY <1>1, <1>2, <1>4

LEMMA SettlementMoves ==
  ASSUME NEW batch, NEW charged, LegsOf(batch, charged),
         Settle(batch)
  PROVE  Moves(charged)
  <1>1. drawn' = [a \in Assets |-> [u \in Users |-> [w \in Payees |->
                    drawn[a][u][w] + Flow(batch, a, u, w)]]]
    BY DEF Settle
  <1>2. \A a \in Assets, u \in Users, w \in Payees :
          drawn[a][u][w] + Flow(batch, a, u, w) =
            drawn[a][u][w] + Sum(Payments, charged \intersect Naming(a, u, w))
    BY BatchFlow
  <1> QED BY <1>1, <1>2, Zenon DEF Moves

LEMMA PaymentCharges ==
  ASSUME RegistryInv, NEW k \in Mandates, NEW amount \in PaymentAmounts, NEW n,
         ExecutePayment(k, amount, n)
  PROVE  Charging({k})
  <1>1. /\ UNCHANGED <<now, terms>> /\ Registered(k) /\ amount \in Int /\ amount > 0
        /\ status[k] = "Active" /\ now < terms[k].expiry
        /\ spent[k] + amount <= terms[k].maxAmount
        /\ spent' = [spent EXCEPT ![k] = spent[k] + amount]
        /\ status' = [status EXCEPT ![k] = StatusAfter(k, spent[k] + amount)]
        /\ spent \in [Mandates -> Nat] /\ spent[k] \in Nat
        /\ status \in [Mandates -> {"None", "Active", "Revoked", "Exhausted"}]
        /\ Settle(PaymentBatch(k, amount))
    BY RegistryConstants DEF ExecutePayment, PaymentAccepted, PaymentFits, Pay, Check,
       RegistryInv, RegistryTypeOK
  <1>2. /\ Paid(k) = amount
        /\ \A m \in Mandates \ {k} : Paid(m) = 0 /\ status'[m] = status[m]
        /\ status'[k] \in {"Active", "Exhausted"}
        /\ spent' \in [Mandates -> Nat]
    <2>1. spent'[k] = spent[k] + amount /\ \A m \in Mandates \ {k} : spent'[m] = spent[m]
      BY <1>1
    <2>2. Paid(k) = amount /\ \A m \in Mandates \ {k} : Paid(m) = 0
      BY <1>1, <2>1 DEF Paid
    <2>3. status'[k] \in {"Active", "Exhausted"}
      BY <1>1 DEF StatusAfter
    <2>4. spent' \in [Mandates -> Nat]
      BY <1>1
    <2> QED BY <1>1, <2>2, <2>3, <2>4
  <1> DEFINE batch == PaymentBatch(k, amount)
  <1>3. /\ DOMAIN batch = {k} /\ batch[k].asset = terms[k].asset
        /\ batch[k].from = terms[k].user /\ batch[k].to = terms[k].merchant
        /\ batch[k].amount = amount
    BY DEF PaymentBatch
  <1>4. Settle(batch)
    BY <1>1
  <1> HIDE DEF batch
  <1>5. Moves({k})
    <2>1. LegsOf(batch, {k})
      BY <1>1, <1>2, <1>3 DEF LegsOf
    <2> QED BY <1>4, <2>1, SettlementMoves
  <1> QED BY <1>1, <1>2, <1>5 DEF Charging

LEMMA CaptureCharges ==
  ASSUME RegistryInv, NEW p \in Pools, ClearPool(p), Outcome(p).fires
  PROVE  Charging(DOMAIN Outcome(p).alloc)
  <1> DEFINE outcome == Outcome(p)
             charged == DOMAIN outcome.alloc
             batch == CaptureBatch(p, outcome)
  <1>1. /\ poolStatus[p] = "Open" /\ UNCHANGED <<now, terms>> /\ Capture(p, outcome)
        /\ spent \in [Mandates -> Nat]
    BY DEF ClearPool, RegistryInv, RegistryTypeOK
  <1>2. /\ DOMAIN batch = charged
        /\ \A m \in charged :
              /\ m \in Committed(p) /\ m \in Mandates /\ Registered(m)
              /\ IsEligible(m, p)
              /\ batch[m].asset = terms[m].asset
              /\ batch[m].to = terms[m].merchant
              /\ batch[m].from = terms[m].user
              /\ batch[m].amount = Leg(outcome, m)
              /\ Leg(outcome, m) \in Nat \ {0}
              /\ spent[m] + Leg(outcome, m) <= terms[m].maxAmount
    BY <1>1, CaptureLegsAre
  <1> HIDE DEF batch, charged, outcome
  <1>3. Committed(p) \intersect charged = charged
    BY <1>2
  <1>4. /\ spent' = [m \in Mandates |-> IF m \in charged THEN spent[m] + Leg(outcome, m)
                                                         ELSE spent[m]]
        /\ status' = [m \in Mandates |->
                        IF m \in charged THEN StatusAfter(m, spent[m] + Leg(outcome, m))
                                         ELSE status[m]]
        /\ Settle(batch)
    BY <1>1, <1>3 DEF Capture, CaptureLegs, charged, batch
  <1>5. /\ charged \subseteq Mandates
        /\ \A m \in charged : /\ Paid(m) = Leg(outcome, m)
                              /\ status'[m] \in {"Active", "Exhausted"}
        /\ \A m \in Mandates \ charged : Paid(m) = 0 /\ status'[m] = status[m]
        /\ spent' \in [Mandates -> Nat]
    <2>1. charged \subseteq Mandates
      BY <1>2
    <2>2. ASSUME NEW m \in charged
          PROVE  /\ Paid(m) = Leg(outcome, m) /\ status'[m] \in {"Active", "Exhausted"}
      BY <1>1, <1>2, <1>4, <2>1 DEF Paid, StatusAfter, IsEligible
    <2>3. ASSUME NEW m \in Mandates \ charged
          PROVE  Paid(m) = 0 /\ status'[m] = status[m]
      BY <1>1, <1>4 DEF Paid
    <2>4. spent' \in [Mandates -> Nat]
      BY <1>1, <1>2, <1>4
    <2> QED BY <2>1, <2>2, <2>3, <2>4
  <1>6. Moves(charged)
    <2>1. LegsOf(batch, charged)
      BY <1>2, <1>5 DEF LegsOf
    <2> QED BY <1>4, <2>1, SettlementMoves
  <1>7. Charging(charged)
    BY <1>1, <1>2, <1>5, <1>6 DEF Charging, IsEligible
  <1> QED BY <1>7 DEF charged, outcome

\* The sums follow a charge.
LEMMA ChargingKeepsBooks ==
  ASSUME BooksInv, NEW charged, Charging(charged)
  PROVE  DrawnTypeOK' /\ BooksMatchLedger'
  <1>0. /\ terms' = terms /\ charged \subseteq Mandates
        /\ \A m \in Mandates : /\ spent[m] \in Int /\ Payments[m] \in Int
                               /\ spent'[m] = spent[m] + Payments[m]
        /\ \A m \in Mandates \ charged : Payments[m] = 0
    <2>1. spent \in [Mandates -> Nat] /\ spent' \in [Mandates -> Nat]
      BY DEF BooksInv, RegistryInv, RegistryTypeOK, Charging
    <2> QED BY <2>1 DEF Charging, Payments, Paid
  <1>1. ASSUME NEW a \in Assets, NEW u \in Users, NEW w \in Payees
        PROVE  /\ drawn'[a][u][w] =
                    drawn[a][u][w] + Sum(Payments, charged \intersect Naming(a, u, w))
               /\ Sum(Payments, charged \intersect Naming(a, u, w)) \in Int
               /\ Sum(spent', Naming(a, u, w)) =
                    Sum(spent, Naming(a, u, w))
                      + Sum(Payments, charged \intersect Naming(a, u, w))
    <2> DEFINE N == Naming(a, u, w)
    <2>1. IsFiniteSet(N) /\ N \subseteq Mandates
      BY NamingIsFinite
    <2>2. IsFiniteSet(charged \intersect N) /\ charged \intersect N \subseteq N
      BY <2>1, FS_Subset
    <2>0. drawn'[a][u][w] = drawn[a][u][w] + Sum(Payments, charged \intersect N)
      BY DEF Charging, Moves
    <2> HIDE DEF N
    <2>3. \A k \in N : /\ spent[k] \in Int /\ Payments[k] \in Int
                       /\ spent'[k] = spent[k] + Payments[k]
      BY <1>0, <2>1
    <2>4. Sum(spent', N) = Sum(spent, N) + Sum(Payments, N)
      <3>1. IsFiniteSet(N)
        BY <2>1
      <3> QED BY <2>3, <3>1, SumPlus
    <2>5. Sum(Payments, N) = Sum(Payments, charged \intersect N)
      <3>1. \A k \in N \ (charged \intersect N) : Payments[k] = 0
        BY <1>0, <2>1
      <3>2. \A k \in N : Payments[k] \in Int
        BY <2>3
      <3> QED BY <2>1, <2>2, <3>1, <3>2, SumDropsZeros, Zenon
    <2>6. Sum(Payments, charged \intersect N) \in Int
      <3>1. \A k \in charged \intersect N : Payments[k] \in Int
        BY <2>3
      <3> QED BY <2>2, <3>1, SumPick, Zenon
    <2> QED BY <2>0, <2>4, <2>5, <2>6 DEF N
  <1>2. DrawnTypeOK'
    <2>1. \A a \in Assets, u \in Users, w \in Payees :
            drawn[a][u][w] + Sum(Payments, charged \intersect Naming(a, u, w)) \in Int
      BY <1>1 DEF BooksInv, DrawnTypeOK
    <2>2. drawn' = [a \in Assets |-> [u \in Users |-> [w \in Payees |->
                      drawn[a][u][w] + Sum(Payments, charged \intersect Naming(a, u, w))]]]
      BY DEF Charging, Moves
    <2> QED BY <2>1, <2>2 DEF DrawnTypeOK
  <1>3. BooksMatchLedger'
    <2> SUFFICES ASSUME NEW a \in Assets, NEW u \in Users, NEW w \in Payees
                 PROVE  drawn'[a][u][w] = Sum(spent', Naming(a, u, w)')
      BY BooksAreSums
    <2>1. drawn[a][u][w] = Sum(spent, Naming(a, u, w))
      BY BooksAreSums DEF BooksInv
    <2>2. Naming(a, u, w)' = Naming(a, u, w)
      BY <1>0 DEF Naming, Registered
    <2> QED BY <1>1, <2>1, <2>2
  <1> QED BY <1>2, <1>3

\* A new mandate has spent nothing.
LEMMA RegistrationKeepsBooks ==
  ASSUME BooksInv, NEW m \in Mandates, NEW t \in MandateTerms, RegisterMandate(m, t)
  PROVE  DrawnTypeOK' /\ BooksMatchLedger' /\ spent' = spent
  <1>1. /\ ~Registered(m) /\ spent[m] = 0 /\ spent \in [Mandates -> Nat]
        /\ spent' = [spent EXCEPT ![m] = 0] /\ drawn' = drawn
        /\ terms' = [terms EXCEPT ![m] = t]
        /\ terms \in [Mandates -> MandateTerms \union {NoTerms}]
    BY DEF BooksInv, RegistryInv, RegistryTypeOK, EntriesCoherent, RegisterMandate,
           tokenVars
  <1>2. spent' = spent
    BY <1>1
  <1>3. DrawnTypeOK'
    BY <1>1 DEF BooksInv, DrawnTypeOK
  <1>4. BooksMatchLedger'
    <2> SUFFICES ASSUME NEW a \in Assets, NEW u \in Users, NEW w \in Payees
                 PROVE  drawn'[a][u][w] = Sum(spent', Naming(a, u, w)')
      BY BooksAreSums
    <2> DEFINE N == Naming(a, u, w)
               M == Naming(a, u, w)'
    <2>1. drawn'[a][u][w] = Sum(spent, N)
      BY <1>1, BooksAreSums DEF BooksInv
    <2>2. N \subseteq M /\ M \ N \subseteq {m} /\ M \subseteq Mandates
      BY <1>1 DEF Naming, Registered
    <2>3. IsFiniteSet(M)
      BY <2>2, RegistryConstants, FS_Subset
    <2> HIDE DEF N, M
    <2>4. (\A k \in M : spent[k] \in Int) /\ (\A k \in M \ N : spent[k] = 0)
      BY <1>1, <2>2
    <2>5. Sum(spent, M) = Sum(spent, N)
      BY <2>2, <2>3, <2>4, SumDropsZeros, Zenon
    <2>6. drawn'[a][u][w] = Sum(spent', M)
      BY <1>2, <2>1, <2>5
    <2> QED BY <2>6 DEF M
  <1> QED BY <1>2, <1>3, <1>4

\* All other steps, the abort of a pool among them, neither spend nor move.
LEMMA OthersLeaveBooks ==
  ASSUME BooksInv, [Next]_vars,
         ~ \E m \in Mandates, t \in MandateTerms : RegisterMandate(m, t),
         ~ \E p \in Pools : ClearPool(p) /\ Outcome(p).fires,
         ~ \E m \in Mandates, amount \in PaymentAmounts, n \in 0..MaxSeq :
             ExecutePayment(m, amount, n)
  PROVE  UNCHANGED <<spent, terms, drawn>>
  <1>1. CASE \E p \in Pools : ClearPool(p)
    BY <1>1 DEF ClearPool, Abort, tokenVars
  <1>2. CASE TokenStep
    BY <1>2 DEF TokenStep, Environment, Approve, MoveFunds, SetAuthorized, mandateVars
  <1> QED BY <1>1, <1>2 DEF Next, vars, RegisterPool, CommitChild, EvictChild,
          RevokeMandate, Pause, Unpause, Tick, mandateVars, tokenVars

LEMMA BooksInit == Init => BooksInv
  <1> SUFFICES ASSUME Init PROVE BooksInv
    OBVIOUS
  <1>1. RegistryInv
    BY InitEstablishes
  <1>2. DrawnTypeOK
    BY DEF Init, TokenInit, DrawnTypeOK
  <1>3. BooksMatchLedger
    <2> SUFFICES ASSUME NEW a \in Assets, NEW u \in Users, NEW w \in Payees
                 PROVE  drawn[a][u][w] = Sum(spent, Naming(a, u, w))
      BY BooksAreSums
    <2>1. drawn[a][u][w] = 0 /\ \A k \in Naming(a, u, w) : spent[k] = 0
      BY NamingIsFinite DEF Init, TokenInit
    <2>2. Sum(spent, Naming(a, u, w)) = 0
      BY <2>1, NamingIsFinite, SumOfZeros, Zenon
    <2> QED BY <2>1, <2>2
  <1> QED BY <1>1, <1>2, <1>3 DEF BooksInv

LEMMA BooksStep ==
  ASSUME BooksInv, RegistryInv', [Next]_vars
  PROVE  BooksInv'
  <1>1. ASSUME NEW m \in Mandates, NEW t \in MandateTerms, RegisterMandate(m, t)
        PROVE  BooksInv'
    BY <1>1, RegistrationKeepsBooks DEF BooksInv
  <1>2. ASSUME NEW charged, Charging(charged) PROVE BooksInv'
    BY <1>2, ChargingKeepsBooks DEF BooksInv
  <1>3. ASSUME UNCHANGED <<spent, terms, drawn>> PROVE BooksInv'
    <2>1. DrawnTypeOK'
      BY <1>3 DEF BooksInv, DrawnTypeOK
    <2>2. \A a, u, w : Naming(a, u, w)' = Naming(a, u, w)
      BY <1>3 DEF Naming, Registered
    <2>3. BooksMatchLedger'
      BY <1>3, <2>2, BooksAreSums DEF BooksInv
    <2> QED BY <2>1, <2>3 DEF BooksInv
  <1>4. ASSUME NEW p \in Pools, ClearPool(p) /\ Outcome(p).fires PROVE BooksInv'
    <2>1. Charging(DOMAIN Outcome(p).alloc)
      BY <1>4, CaptureCharges DEF BooksInv
    <2> QED BY <1>2, <2>1
  <1>5. ASSUME NEW m \in Mandates, NEW amount \in PaymentAmounts, NEW n \in 0..MaxSeq,
               ExecutePayment(m, amount, n)
        PROVE  BooksInv'
    <2>1. Charging({m})
      BY <1>5, PaymentCharges DEF BooksInv
    <2> QED BY <1>2, <2>1
  <1> QED BY <1>1, <1>3, <1>4, <1>5, OthersLeaveBooks

THEOREM BooksInvariant == Spec => []BooksInv
  <1>1. RegistryInv' /\ BooksInv /\ [Next]_vars => BooksInv'
    BY BooksStep
  <1> QED BY BooksInit, <1>1, RegistryInvariant, PTL DEF Spec

\* What was ever drawn from a user for a merchant is what the mandates that name
\* them have spent, by payments and by captures of any number of members at once.
THEOREM BooksAreTrue == Spec => []BooksMatchLedger
  <1>1. BooksInv => BooksMatchLedger
    BY DEF BooksInv
  <1> QED BY <1>1, BooksInvariant, PTL

--------------------------------------------------------------------------------
\* The registry implements the mandate ledger.

LEMMA LedgerMoves ==
  ASSUME NEW charged, charged \subseteq Mandates, \A m \in charged : Registered(m),
         NEW a, NEW u, NEW w
  PROVE  Ledger!Moved(charged, Payments, a, u, w) =
           Sum(Payments, charged \intersect Naming(a, u, w))
  <1> DEFINE hit == {m \in charged : /\ terms[m].asset = a
                                     /\ terms[m].user = u
                                     /\ terms[m].merchant = w}
  <1>1. Ledger!Moved(charged, Payments, a, u, w) = Sum(Payments, hit)
    BY Zenon DEF Ledger!Moved, Ledger!MapThenSumSet, Ledger!MapThenFoldSet, Sum,
                 MapThenSumSet, MapThenFoldSet
  <1>2. hit = charged \intersect Naming(a, u, w)
    BY DEF Naming
  <1> QED BY <1>1, <1>2

LEMMA LedgerCharge ==
  ASSUME BooksInv, NEW charged, Charging(charged)
  PROVE  [Ledger!Next]_(Ledger!ledgerVars)
  <1>0. /\ charged \subseteq Mandates /\ UNCHANGED <<now, terms>>
        /\ \A m \in charged : /\ Registered(m) /\ status[m] = "Active"
                              /\ now < terms[m].expiry /\ Payments[m] > 0
                              /\ spent[m] + Payments[m] <= terms[m].maxAmount
        /\ \A m \in Mandates : (status'[m] # "Revoked") = (status[m] # "Revoked")
    BY DEF Charging, Payments
  <1>1. /\ spent \in [Mandates -> Nat] /\ spent' \in [Mandates -> Nat]
        /\ \A m \in Mandates : /\ Payments[m] \in Int
                               /\ spent'[m] = spent[m] + Payments[m]
        /\ \A m \in Mandates \ charged : Payments[m] = 0
    <2>1. spent \in [Mandates -> Nat] /\ spent' \in [Mandates -> Nat]
      BY DEF BooksInv, RegistryInv, RegistryTypeOK, Charging
    <2> QED BY <2>1 DEF Charging, Payments, Paid
  <1>2. [m \in Mandates |-> status'[m] # "Revoked"] = [m \in Mandates |-> status[m] # "Revoked"]
    BY <1>0
  <1>3. spent' = [m \in Mandates |-> IF m \in charged THEN spent[m] + Payments[m]
                                                      ELSE spent[m]]
    BY <1>0, <1>1
  <1>4. drawn' = [a \in Assets |-> [u \in Users |-> [w \in Payees |->
                    drawn[a][u][w] + Sum(Payments, charged \intersect Naming(a, u, w))]]]
    BY DEF Charging, Moves
  <1>5. CASE charged # {}
    <2>1. \A m \in charged : Ledger!Chargeable(m)
      BY <1>0 DEF Ledger!Chargeable, Ledger!Granted, Registered
    <2>2. drawn' = [a \in Assets |-> [u \in Users |-> [w \in Payees |->
                      drawn[a][u][w] + Ledger!Moved(charged, Payments, a, u, w)]]]
      <3>1. \A a, u, w : Ledger!Moved(charged, Payments, a, u, w) =
                           Sum(Payments, charged \intersect Naming(a, u, w))
        BY <1>0, LedgerMoves
      <3>2. \A a \in Assets, u \in Users, w \in Payees :
              drawn[a][u][w] + Ledger!Moved(charged, Payments, a, u, w) =
                drawn[a][u][w] + Sum(Payments, charged \intersect Naming(a, u, w))
        BY <3>1
      <3> QED BY <1>4, <3>2, Zenon
    <2>3. Ledger!Charge(charged, Payments)
      BY <1>0, <1>2, <1>3, <1>5, <2>1, <2>2, Zenon DEF Ledger!Charge
    <2>4. Payments = [m \in Mandates |-> spent'[m] - spent[m]]
      BY DEF Payments, Paid
    <2> QED BY <1>0, <2>3, <2>4 DEF Ledger!Next
  <1>6. CASE charged = {}
    <2>1. spent' = spent
      BY <1>1, <1>3, <1>6
    <2>2. \A a, u, w : Sum(Payments, charged \intersect Naming(a, u, w)) = 0
      <3>1. \A a, u, w : charged \intersect Naming(a, u, w) = {}
        BY <1>6
      <3> QED BY <3>1, SumOfNone
    <2>3. drawn \in [Assets -> [Users -> [Payees -> Int]]]
      BY DEF BooksInv, DrawnTypeOK
    <2>4. \A a \in Assets, u \in Users, w \in Payees :
            drawn[a][u][w] + Sum(Payments, charged \intersect Naming(a, u, w))
              = drawn[a][u][w]
      <3> TAKE a \in Assets, u \in Users, w \in Payees
      <3>1. drawn[a][u][w] \in Int
        BY <2>3
      <3>2. Sum(Payments, charged \intersect Naming(a, u, w)) = 0
        BY <2>2
      <3> QED BY <3>1, <3>2
    <2>5. drawn' = [a \in Assets |-> [u \in Users |-> [w \in Payees |-> drawn[a][u][w]]]]
      BY <1>4, <2>4, Zenon
    <2>6. drawn' = drawn
      BY <2>3, <2>5
    <2> QED BY <1>0, <1>2, <2>1, <2>6, Zenon DEF Ledger!ledgerVars
  <1> QED BY <1>5, <1>6

LEMMA LedgerGrant ==
  ASSUME BooksInv, NEW m \in Mandates, NEW t \in MandateTerms, RegisterMandate(m, t)
  PROVE  Ledger!Next
  <1>1. /\ t.maxAmount > 0 /\ now < t.expiry /\ ~Registered(m)
        /\ status' = [status EXCEPT ![m] = "Active"]
        /\ terms' = [terms EXCEPT ![m] = t]
        /\ UNCHANGED <<now, drawn>>
        /\ status[m] = "None"
        /\ status \in [Mandates -> {"None", "Active", "Revoked", "Exhausted"}]
    <2>1. t.expiry \in Int /\ now \in Int
      BY RegistryConstants DEF MandateTermsType, BooksInv, RegistryInv, RegistryTypeOK
    <2> QED BY <2>1 DEF RegisterMandate, tokenVars, BooksInv, RegistryInv, RegistryTypeOK,
                        EntriesCoherent
  <1>2. spent' = spent
    BY RegistrationKeepsBooks
  <1>3. [n \in Mandates |-> status'[n] # "Revoked"] = [n \in Mandates |-> status[n] # "Revoked"]
    BY <1>1
  <1>4. Ledger!GrantMandate(m, t)
    BY <1>1, <1>2, <1>3, Zenon DEF Ledger!GrantMandate, Ledger!Granted, Registered
  <1> QED BY <1>4 DEF Ledger!Next

LEMMA LedgerWithdraw ==
  ASSUME BooksInv, NEW m \in Mandates, RevokeMandate(m)
  PROVE  Ledger!Next
  <1>1. /\ Registered(m) /\ UNCHANGED <<now, terms, spent, drawn>>
        /\ status' = [status EXCEPT ![m] = "Revoked"]
        /\ status \in [Mandates -> {"None", "Active", "Revoked", "Exhausted"}]
    BY DEF RevokeMandate, tokenVars, BooksInv, RegistryInv, RegistryTypeOK
  <1>2. [n \in Mandates |-> status'[n] # "Revoked"] =
          [[n \in Mandates |-> status[n] # "Revoked"] EXCEPT ![m] = FALSE]
    BY <1>1
  <1>3. Ledger!Withdraw(m)
    BY <1>1, <1>2, Zenon DEF Ledger!Withdraw, Ledger!Granted, Registered
  <1> QED BY <1>3 DEF Ledger!Next

LEMMA LedgerInit == Init => Ledger!Init
  BY DEF Init, TokenInit, Ledger!Init

LEMMA LedgerStep == BooksInv /\ [Next]_vars => [Ledger!Next]_(Ledger!ledgerVars)
  <1> SUFFICES ASSUME BooksInv, [Next]_vars PROVE [Ledger!Next]_(Ledger!ledgerVars)
    OBVIOUS
  <1>1. ASSUME NEW m \in Mandates, NEW t \in MandateTerms, RegisterMandate(m, t)
        PROVE  Ledger!Next
    BY <1>1, LedgerGrant
  <1>2. ASSUME NEW m \in Mandates, RevokeMandate(m) PROVE Ledger!Next
    BY <1>2, LedgerWithdraw
  <1>3. ASSUME NEW p \in Pools, ClearPool(p)
        PROVE  [Ledger!Next]_(Ledger!ledgerVars)
    <2>1. CASE Outcome(p).fires
      BY <1>3, <2>1, CaptureCharges, LedgerCharge DEF BooksInv
    <2>2. CASE ~Outcome(p).fires
      BY <1>3, <2>2 DEF ClearPool, Abort, tokenVars, Ledger!ledgerVars
    <2> QED BY <2>1, <2>2
  <1>4. ASSUME NEW m \in Mandates, NEW amount \in PaymentAmounts, NEW n \in 0..MaxSeq,
               ExecutePayment(m, amount, n)
        PROVE  [Ledger!Next]_(Ledger!ledgerVars)
    BY <1>4, PaymentCharges, LedgerCharge DEF BooksInv
  <1>5. CASE Tick
    BY <1>5 DEF Tick, Ledger!Next, Ledger!Pass, tokenVars, mandateVars
  <1>6. ASSUME UNCHANGED <<now, terms, status, spent, drawn>>
        PROVE  UNCHANGED Ledger!ledgerVars
    BY <1>6 DEF Ledger!ledgerVars
  <1>7. ASSUME TokenStep PROVE UNCHANGED <<now, terms, status, spent, drawn>>
    BY <1>7 DEF TokenStep, Environment, Approve, MoveFunds, SetAuthorized, mandateVars
  <1>8. ASSUME \/ \E p \in Pools : RegisterPool(p)
               \/ \E m \in Mandates : CommitChild(m)
               \/ \E p \in Pools, m \in Mandates : EvictChild(p, m)
               \/ Pause \/ Unpause \/ UNCHANGED vars
        PROVE  UNCHANGED <<now, terms, status, spent, drawn>>
    BY <1>8 DEF RegisterPool, CommitChild, EvictChild, Pause, Unpause, vars, mandateVars,
                tokenVars
  <1> QED BY <1>1, <1>2, <1>3, <1>4, <1>5, <1>6, <1>7, <1>8 DEF Next

\* Pools, auctions, eviction and the emergency stop are only ways of charging
\* and of not charging: the registry is a mandate ledger.
THEOREM ImplementsLedger == Spec => ImplementsMandateLedger
  BY LedgerInit, LedgerStep, BooksInvariant, PTL DEF Spec, ImplementsMandateLedger, Ledger!Spec

--------------------------------------------------------------------------------
\* Entry lifetimes.

LEMMA TimesOrders ==
  ASSUME NEW a \in Int, NEW b \in Int, a <= b
  PROVE  MinPace * a \in Int /\ MinPace * b \in Int /\ MinPace * a <= MinPace * b
  <1>1. MinPace \in Nat
    BY LifetimeConstants
  <1>2. \E d \in Nat : b = a + d
    <2>1. b - a \in Nat /\ b = a + (b - a)
      OBVIOUS
    <2> QED BY <2>1
  <1>3. PICK d \in Nat : b = a + d
    BY <1>2
  <1>4. MinPace * b = MinPace * a + MinPace * d /\ MinPace * d \in Nat
    BY <1>1, <1>3
  <1> QED BY <1>1, <1>4

\* A horizon is a number of ledgers, never below the standard extension.
LEMMA HorizonCounts ==
  ASSUME NEW secs \in Nat
  PROVE  HorizonLedgers(secs) \in Nat
  <1>1. SecsPerLedger \in Nat \ {0} /\ TtlExtend \in Nat
    BY LifetimeConstants
  <1>2. secs \div SecsPerLedger \in Nat
    BY <1>1
  <1> QED BY <1>1, <1>2 DEF HorizonLedgers

\* extend_ttl only ever extends, and to at least what it is asked for when its
\* threshold is its extension.
LEMMA ExtendsOnly ==
  ASSUME NEW life \in Nat, NEW secs \in Nat, ledger \in Nat \ {0}
  PROVE  /\ Stored(life) \in Nat \ {0} /\ life <= Stored(life)
         /\ StoredFor(life, secs) \in Nat \ {0} /\ life <= StoredFor(life, secs)
         /\ ledger + HorizonLedgers(secs) <= StoredFor(life, secs)
         /\ ToHorizon(life, secs) \in Nat /\ life <= ToHorizon(life, secs)
         /\ life # 0 => ToHorizon(life, secs) # 0
  <1> DEFINE base == IF life = 0 THEN FreshLife ELSE life
             n == HorizonLedgers(secs)
  <1>1. TtlThreshold \in Nat /\ TtlExtend \in Nat /\ MinTtl \in Nat \ {0}
    BY LifetimeConstants
  <1>2. base \in Nat \ {0} /\ life <= base
    BY <1>1 DEF FreshLife
  <1>3. n \in Nat
    BY HorizonCounts
  <1> HIDE DEF base, n
  <1>4. Stored(life) = Extended(base, TtlThreshold, TtlExtend)
    BY DEF Stored, base
  <1>5. Stored(life) \in Nat \ {0} /\ base <= Stored(life)
    BY <1>1, <1>2, <1>4 DEF Extended
  <1>6. \A l \in Nat : /\ ToHorizon(l, secs) \in Nat /\ l <= ToHorizon(l, secs)
                       /\ ledger + n <= ToHorizon(l, secs)
    BY <1>3 DEF ToHorizon, Extended, n
  <1>7. StoredFor(life, secs) = ToHorizon(Stored(life), secs)
    BY DEF StoredFor
  <1> QED BY <1>2, <1>5, <1>6, <1>7 DEF n

\* An entry stored for a horizon that covers the window outlasts the window.
LEMMA HorizonOutlasts ==
  ASSUME RegistryTypeOK, NEW p \in Pools, NEW life \in Nat,
         NEW secs \in 0..MaxPoolHorizon, WindowEnd(p) - now <= secs,
         ledger \in Nat \ {0}, age = 0
  PROVE  Outlasts(StoredFor(life, secs), p)
  <1> DEFINE n == HorizonLedgers(secs)
             l == StoredFor(life, secs)
  <1>1. /\ secs \in Nat /\ MinPace * (n + 1) > secs /\ now \in Nat /\ WindowEnd(p) \in Nat
    BY LifetimeConstants, RegistryConstants, PoolTermsTyped DEF RegistryTypeOK, WindowEnd, Deadline
  <1>2. n \in Nat /\ l \in Nat \ {0} /\ ledger + n <= l
    BY <1>1, ExtendsOnly, HorizonCounts
  <1> HIDE DEF n, l
  <1>3. n + 1 <= l + 1 - ledger /\ n + 1 \in Int /\ l + 1 - ledger \in Int
    BY <1>2
  <1>4. /\ MinPace * (n + 1) <= MinPace * (l + 1 - ledger)
        /\ MinPace * (n + 1) \in Int /\ MinPace * (l + 1 - ledger) \in Int
    BY <1>3, TimesOrders
  <1>5. MinPace * (l + 1 - ledger) > WindowEnd(p) - now + age
    BY <1>1, <1>4
  <1> QED BY <1>2, <1>5 DEF Outlasts, l

\* A longer life outlasts whatever a shorter one does.
LEMMA LongerOutlasts ==
  ASSUME RegistryTypeOK, NEW p \in Pools, NEW l \in Nat, NEW k \in Nat, l <= k,
         ledger \in Nat, age \in Nat, Outlasts(l, p)
  PROVE  Outlasts(k, p)
  <1>1. /\ MinPace * (l + 1 - ledger) <= MinPace * (k + 1 - ledger)
        /\ MinPace * (l + 1 - ledger) \in Int /\ MinPace * (k + 1 - ledger) \in Int
    BY TimesOrders
  <1>2. now \in Nat /\ WindowEnd(p) \in Nat
    BY RegistryConstants, PoolTermsTyped DEF RegistryTypeOK, WindowEnd, Deadline
  <1>3. MinPace * (k + 1 - ledger) > WindowEnd(p) - now + age
    BY <1>1, <1>2 DEF Outlasts
  <1> QED BY <1>3 DEF Outlasts

\* What a live entry leaves standing until the end of the window.
LEMMA OutlastingIsLive ==
  ASSUME RegistryTypeOK, NEW p \in Pools, NEW l \in Nat, now <= WindowEnd(p),
         ledger \in Nat, age \in Nat, Outlasts(l, p)
  PROVE  ~Archived(l)
  <1> SUFFICES ASSUME l < ledger PROVE FALSE
    BY DEF Archived
  <1>1. MinPace * (l + 1 - ledger) <= MinPace * 0
    BY TimesOrders
  <1>2. MinPace * 0 = 0 /\ MinPace * (l + 1 - ledger) \in Int
    BY LifetimeConstants
  <1>3. now \in Nat /\ WindowEnd(p) \in Nat
    BY RegistryConstants, PoolTermsTyped DEF RegistryTypeOK
  <1> QED BY <1>1, <1>2, <1>3 DEF Outlasts

\* What the touches do to the entries' lives.
LEMMA PoolTouched ==
  ASSUME LivesTypeOK, NEW p \in Pools, NEW secs \in Nat, TouchPool(p, secs)
  PROVE  /\ poolLife' \in [Pools -> Nat] /\ membersLife' \in [Pools -> Nat]
         /\ poolLife'[p] = StoredFor(poolLife[p], secs) /\ poolLife'[p] # 0
         /\ membersLife'[p] = StoredFor(membersLife[p], secs) /\ membersLife'[p] # 0
         /\ \A q \in Pools \ {p} : /\ poolLife'[q] = poolLife[q]
                                   /\ membersLife'[q] = membersLife[q]
         /\ \A q \in Pools : /\ poolLife[q] <= poolLife'[q]
                             /\ membersLife[q] <= membersLife'[q]
  <1>1. /\ ledger \in Nat \ {0}
        /\ poolLife \in [Pools -> Nat] /\ membersLife \in [Pools -> Nat]
    BY DEF LivesTypeOK
  <1>2. /\ StoredFor(poolLife[p], secs) \in Nat \ {0}
        /\ poolLife[p] <= StoredFor(poolLife[p], secs)
        /\ StoredFor(membersLife[p], secs) \in Nat \ {0}
        /\ membersLife[p] <= StoredFor(membersLife[p], secs)
    BY <1>1, ExtendsOnly
  <1> QED BY <1>1, <1>2 DEF TouchPool

LEMMA MandateTouched ==
  ASSUME LivesTypeOK, NEW m \in Mandates, NEW secs \in Nat,
         TouchMandate(m) \/ TouchMember(m, secs)
  PROVE  /\ mandateLife' \in [Mandates -> Nat] /\ mandateLife'[m] # 0
         /\ TouchMember(m, secs) => mandateLife'[m] = StoredFor(mandateLife[m], secs)
         /\ \A n \in Mandates \ {m} : mandateLife'[n] = mandateLife[n]
         /\ \A n \in Mandates : mandateLife[n] <= mandateLife'[n]
  <1>1. ledger \in Nat \ {0} /\ mandateLife \in [Mandates -> Nat]
    BY DEF LivesTypeOK
  <1>2. /\ StoredFor(mandateLife[m], secs) \in Nat \ {0}
        /\ mandateLife[m] <= StoredFor(mandateLife[m], secs)
        /\ Stored(mandateLife[m]) \in Nat \ {0}
        /\ mandateLife[m] <= Stored(mandateLife[m])
    BY <1>1, ExtendsOnly
  <1> QED BY <1>1, <1>2 DEF TouchMandate, TouchMember

\* Within a ledger the invariant can only be broken by a pool that opens, by a
\* mandate that joins one, or by an entry whose life got shorter.
LEMMA GrowthPreserves ==
  ASSUME LifetimeInv, RegistryTypeOK, LivesTypeOK',
         UNCHANGED <<now, ledger, age>>,
         \A p \in Pools : poolStatus'[p] = "Open" =>
           \/ /\ poolStatus[p] = "Open"
              /\ poolLife[p] <= poolLife'[p] /\ membersLife[p] <= membersLife'[p]
           \/ /\ WindowEnd(p) - now <= MaxPoolHorizon
              /\ Outlasts(poolLife'[p], p) /\ Outlasts(membersLife'[p], p),
         \A m \in Mandates, p \in Pools :
           poolState'[m] = "Committed" /\ terms'[m].pool = p /\ poolStatus'[p] = "Open" =>
             \/ /\ poolState[m] = "Committed" /\ terms[m].pool = p
                /\ poolStatus[p] = "Open" /\ mandateLife[m] <= mandateLife'[m]
             \/ Outlasts(mandateLife'[m], p)
  PROVE  LifetimeInv'
  <1>1. /\ LivesTypeOK /\ ledger \in Nat /\ age \in Nat
        /\ poolLife \in [Pools -> Nat] /\ membersLife \in [Pools -> Nat]
        /\ mandateLife \in [Mandates -> Nat]
        /\ poolLife' \in [Pools -> Nat] /\ membersLife' \in [Pools -> Nat]
        /\ mandateLife' \in [Mandates -> Nat]
    BY DEF LifetimeInv, LivesTypeOK
  <1>2. ASSUME NEW p \in Pools, poolStatus'[p] = "Open"
        PROVE  /\ WindowEnd(p) - now <= MaxPoolHorizon
               /\ Outlasts(poolLife'[p], p) /\ Outlasts(membersLife'[p], p)
    BY <1>1, <1>2, LongerOutlasts DEF LifetimeInv
  <1>3. ASSUME NEW p \in Pools, NEW m \in Mandates, poolStatus'[p] = "Open",
               poolState'[m] = "Committed", terms'[m].pool = p
        PROVE  Outlasts(mandateLife'[m], p)
    BY <1>1, <1>3, LongerOutlasts DEF LifetimeInv
  <1> QED BY <1>2, <1>3 DEF LifetimeInv, Outlasts, WindowEnd, Deadline

LEMMA StoredInitEstablishes == StoredInit => LifetimeInv
  BY RegistryConstants
  DEF StoredInit, Init, LifetimeInv, LivesTypeOK, Registered

LEMMA RegisterPoolKeepsLives ==
  ASSUME LifetimeInv, RegistryInv, NEW p \in Pools,
         RegisterPool(p), RegisterPoolLives(p)
  PROVE  LifetimeInv'
  <1> DEFINE secs == WindowEnd(p) - now
  <1>1. /\ RegistryTypeOK /\ LivesTypeOK /\ now \in Nat
        /\ secs \in 0..MaxPoolHorizon /\ age = 0 /\ ledger \in Nat \ {0}
        /\ poolLife[p] \in Nat /\ membersLife[p] \in Nat
        /\ UNCHANGED <<now, terms, poolState, ledger, age, mandateLife>>
        /\ TouchPool(p, secs) /\ secs \in Nat
    BY PoolTermsTyped, RegistryConstants
    DEF RegistryInv, RegistryTypeOK, LifetimeInv, LivesTypeOK, RegisterPool,
        RegisterPoolLives, InLedger, mandateVars, Deadline
  <1>2. /\ poolStatus'[p] = "Open"
        /\ \A q \in Pools \ {p} : poolStatus'[q] = poolStatus[q]
    BY <1>1 DEF RegisterPool, RegistryTypeOK
  <1> HIDE DEF secs
  <1>3. Outlasts(poolLife'[p], p) /\ Outlasts(membersLife'[p], p)
    BY <1>1, PoolTouched, HorizonOutlasts DEF secs
  <1>4. LivesTypeOK'
    BY <1>1, <1>2, PoolTouched DEF LivesTypeOK, Registered
  <1>5. ASSUME NEW m \in Mandates, poolState[m] = "Committed" PROVE terms[m].pool # p
    BY <1>5 DEF RegistryInv, MembershipAgrees, RegisterPool
  <1>6. WindowEnd(p) - now <= MaxPoolHorizon
    BY <1>1, RegistryConstants DEF secs
  <1> QED BY <1>1, <1>2, <1>3, <1>4, <1>5, <1>6, PoolTouched, GrowthPreserves
          DEF LivesTypeOK

LEMMA RegisterMandateKeepsLives ==
  ASSUME LifetimeInv, RegistryInv, NEW m \in Mandates, NEW t \in MandateTerms,
         RegisterMandate(m, t), RegisterMandateLives(m, t)
  PROVE  LifetimeInv'
  <1>1. /\ RegistryTypeOK /\ LivesTypeOK /\ ledger \in Nat
        /\ poolLife \in [Pools -> Nat] /\ membersLife \in [Pools -> Nat]
        /\ UNCHANGED <<now, ledger, age, poolLife, membersLife, poolStatus>>
        /\ TouchMandate(m) /\ t # NoTerms /\ 0 \in Nat
    BY RegistryConstants
    DEF RegistryInv, LifetimeInv, LivesTypeOK, RegisterMandate,
        RegisterMandateLives, InLedger, poolVars
  <1>2. /\ poolState'[m] = "Unlinked" /\ terms'[m] = t
        /\ \A n \in Mandates \ {m} : poolState'[n] = poolState[n] /\ terms'[n] = terms[n]
    BY <1>1 DEF RegisterMandate, RegistryTypeOK
  <1>3. LivesTypeOK'
    BY <1>1, <1>2, MandateTouched DEF LivesTypeOK, Registered
  <1> QED BY <1>1, <1>2, <1>3, MandateTouched, GrowthPreserves

LEMMA CommitChildKeepsLives ==
  ASSUME LifetimeInv, RegistryInv, NEW m \in Mandates,
         CommitChild(m), CommitChildLives(m)
  PROVE  LifetimeInv'
  <1> DEFINE p == terms[m].pool
             secs == WindowEnd(p) - now
  <1>1. /\ RegistryTypeOK /\ LivesTypeOK /\ p \in Pools
        /\ poolStatus[p] = "Open" /\ now < Deadline(p)
    BY SignedTerms DEF RegistryInv, LifetimeInv, CommitChild
  <1>2. /\ secs \in 0..MaxPoolHorizon /\ secs \in Nat
        /\ WindowEnd(p) - now <= secs
    BY <1>1, PoolTermsTyped, RegistryConstants DEF LifetimeInv, RegistryTypeOK
  <1> HIDE DEF p, secs
  <1>3. /\ TouchPool(p, secs) /\ TouchMember(m, secs)
        /\ age = 0 /\ UNCHANGED <<now, ledger, age, terms, poolStatus>>
        /\ ledger \in Nat \ {0} /\ mandateLife[m] \in Nat
    BY <1>1, RegistryConstants
    DEF CommitChild, CommitChildLives, InLedger, LivesTypeOK, p, secs
  <1>4. /\ \A n \in Mandates \ {m} : poolState'[n] = poolState[n]
    BY <1>1 DEF CommitChild, RegistryTypeOK
  <1>5. Outlasts(mandateLife'[m], p)
    BY <1>1, <1>2, <1>3, MandateTouched, HorizonOutlasts
  <1>6. \A n \in Mandates : Registered(n) <=> mandateLife'[n] # 0
    BY <1>1, <1>2, <1>3, MandateTouched DEF LivesTypeOK, CommitChild
  <1>7. LivesTypeOK'
    BY <1>1, <1>2, <1>3, <1>6, PoolTouched, MandateTouched DEF LivesTypeOK, Registered
  <1> QED BY <1>1, <1>2, <1>3, <1>4, <1>5, <1>7, PoolTouched, MandateTouched,
             GrowthPreserves DEF p

\* Every other transaction: no pool opens, nobody joins one, and what is touched
\* lives longer.
LEMMA OtherStepsKeepLives ==
  ASSUME LifetimeInv, RegistryInv,
         \/ \E p \in Pools, m \in Mandates : EvictChild(p, m) /\ EvictChildLives(p, m)
         \/ \E m \in Mandates : RevokeMandate(m) /\ RevokeMandateLives(m)
         \/ \E p \in Pools : ClearPool(p) /\ ClearPoolLives(p)
         \/ \E m \in Mandates, amount \in PaymentAmounts, n \in 0..MaxSeq :
               ExecutePayment(m, amount, n) /\ ExecutePaymentLives(m)
         \/ (Pause \/ Unpause \/ TokenStep) /\ UntouchedLives
         \/ Restore
  PROVE  LifetimeInv'
  <1>1. /\ RegistryTypeOK /\ LivesTypeOK /\ ledger \in Nat \ {0} /\ 0 \in Nat
        /\ poolLife \in [Pools -> Nat] /\ membersLife \in [Pools -> Nat]
        /\ mandateLife \in [Mandates -> Nat]
    BY DEF RegistryInv, LifetimeInv, LivesTypeOK
  <1>2. \A p \in Pools : Remaining(p) \in Nat
    BY PoolTermsTyped, RegistryConstants DEF Remaining, RegistryInv, RegistryTypeOK
  <1> DEFINE Longer ==
        /\ poolLife' \in [Pools -> Nat] /\ membersLife' \in [Pools -> Nat]
        /\ mandateLife' \in [Mandates -> Nat]
        /\ \A p \in Pools : /\ poolLife[p] <= poolLife'[p]
                            /\ membersLife[p] <= membersLife'[p]
                            /\ poolStatus[p] = "None" =>
                                 poolLife'[p] = poolLife[p] /\ membersLife'[p] = membersLife[p]
        /\ \A m \in Mandates : /\ mandateLife[m] <= mandateLife'[m]
                               /\ ~Registered(m) => mandateLife'[m] = mandateLife[m]
             Quiet ==
        /\ UNCHANGED <<now, terms, ledger, age>>
        /\ \A p \in Pools : poolStatus'[p] = "Open" => poolStatus[p] = "Open"
        /\ \A p \in Pools : poolStatus'[p] = "None" <=> poolStatus[p] = "None"
        /\ \A m \in Mandates : poolState'[m] = "Committed" => poolState[m] = "Committed"
  <1>3. ASSUME NEW p \in Pools, NEW m \in Mandates, EvictChild(p, m), EvictChildLives(p, m)
        PROVE  Longer /\ Quiet
    <2>1. TouchPool(p, Remaining(p)) /\ TouchMember(m, Remaining(p))
      BY <1>3 DEF EvictChildLives
    <2>2. Longer
      BY <1>1, <1>2, <1>3, <2>1, PoolTouched, MandateTouched DEF EvictChild
    <2>3. Quiet
      BY <1>1, <1>3 DEF EvictChild, EvictChildLives, InLedger, Unlink, RegistryTypeOK
    <2> QED BY <2>2, <2>3
  <1>4. ASSUME NEW m \in Mandates, RevokeMandate(m), RevokeMandateLives(m)
        PROVE  Longer /\ Quiet
    <2>1. Quiet
      BY <1>1, <1>4 DEF RevokeMandate, RevokeMandateLives, InLedger, Unlink,
                        RegistryTypeOK, poolVars
    <2>2. CASE TouchMandate(m) /\ UNCHANGED <<poolLife, membersLife>>
      BY <1>1, <1>4, <2>2, <2>1, MandateTouched DEF RevokeMandate
    <2>3. CASE /\ poolState[m] = "Committed"
               /\ TouchPool(terms[m].pool, Remaining(terms[m].pool))
               /\ TouchMember(m, Remaining(terms[m].pool))
      <3>1. terms[m].pool \in Pools /\ poolStatus[terms[m].pool] = "Open"
        BY <2>3 DEF RegistryInv, MembershipAgrees
      <3>2. Longer
        BY <1>1, <1>2, <1>4, <2>3, <3>1, PoolTouched, MandateTouched DEF RevokeMandate
      <3> QED BY <2>1, <3>2
    <2> QED BY <1>4, <2>1, <2>2, <2>3 DEF RevokeMandateLives
  <1>5. ASSUME NEW p \in Pools, ClearPool(p), ClearPoolLives(p)
        PROVE  Longer /\ Quiet
    <2>1. /\ UNCHANGED <<now, terms, ledger, age>>
          /\ \A q \in Pools \ {p} : poolStatus'[q] = poolStatus[q]
          /\ poolStatus[p] = "Open" /\ poolStatus'[p] \in {"Cleared", "Aborted"}
      BY <1>1, <1>5 DEF ClearPool, ClearPoolLives, InLedger, Abort, Capture,
                        CaptureLegs, RegistryTypeOK
    <2>2. \A m \in Mandates : poolState'[m] = "Committed" => poolState[m] = "Committed"
      BY <1>1, <1>5 DEF ClearPool, Abort, Capture, CaptureLegs, PoolStateAfter
    <2>3. Quiet
      BY <2>1, <2>2
    <2>4. \A m \in Committed(p) : Registered(m)
      BY CommittedMember, <2>1 DEF Committed
    <2>5. /\ \A life \in Nat : Stored(life) \in Nat /\ life <= Stored(life)
          /\ StoredFor(poolLife[p], 0) \in Nat /\ poolLife[p] <= StoredFor(poolLife[p], 0)
          /\ ToHorizon(membersLife[p], 0) \in Nat
          /\ membersLife[p] <= ToHorizon(membersLife[p], 0)
      BY <1>1, ExtendsOnly
    <2>6. /\ poolLife' = [poolLife EXCEPT ![p] = StoredFor(@, 0)]
          /\ membersLife' = [membersLife EXCEPT ![p] = ToHorizon(@, 0)]
          /\ mandateLife' = [m \in Mandates |->
                               IF m \in Committed(p) THEN Stored(mandateLife[m])
                                                     ELSE mandateLife[m]]
      BY <1>5 DEF ClearPoolLives
    <2>7. Longer
      BY <1>1, <2>1, <2>4, <2>5, <2>6
    <2> QED BY <2>3, <2>7
  <1>6. ASSUME NEW m \in Mandates, NEW amount, NEW n,
               ExecutePayment(m, amount, n), ExecutePaymentLives(m)
        PROVE  Longer /\ Quiet
    BY <1>1, <1>6, MandateTouched
    DEF ExecutePayment, PaymentAccepted, PaymentFits, Pay, ExecutePaymentLives,
        InLedger, poolVars
  <1>7. ASSUME (Pause \/ Unpause \/ TokenStep) /\ UntouchedLives
        PROVE  Longer /\ Quiet
    <2>1. /\ now' = now /\ terms' = terms /\ ledger' = ledger /\ age' = age
          /\ poolStatus' = poolStatus /\ poolState' = poolState
          /\ mandateLife' = mandateLife /\ poolLife' = poolLife
          /\ membersLife' = membersLife
      BY <1>7 DEF Pause, Unpause, TokenStep, UntouchedLives, InLedger, lives,
                  mandateVars, poolVars
    <2> QED BY <1>1, <2>1
  <1>8. ASSUME Restore PROVE Longer /\ Quiet
    <2>1. Quiet
      BY <1>8 DEF Restore, InLedger, vars, mandateVars, poolVars
    <2>2. FreshLife \in Nat /\ \A life \in Nat : Archived(life) => life <= FreshLife
      BY <1>1, LifetimeConstants DEF FreshLife, Archived
    <2>3. \A m \in Mandates : Archived(mandateLife[m]) => Registered(m)
      BY <1>1 DEF Archived, LivesTypeOK
    <2>4. \A p \in Pools : Archived(poolLife[p]) \/ Archived(membersLife[p]) =>
                             poolStatus[p] # "None"
      BY <1>1 DEF Archived, LivesTypeOK
    <2>5. Longer
      BY <1>1, <1>8, <2>2, <2>3, <2>4 DEF Restore
    <2> QED BY <2>1, <2>5
  <1> HIDE DEF Longer, Quiet
  <1>9. Longer /\ Quiet
    BY <1>3, <1>4, <1>5, <1>6, <1>7, <1>8
  <1>10. LivesTypeOK'
    <2>1. /\ poolLife' \in [Pools -> Nat] /\ membersLife' \in [Pools -> Nat]
          /\ mandateLife' \in [Mandates -> Nat]
      BY <1>9 DEF Longer
    <2>2. /\ \A m \in Mandates : Registered(m)' <=> mandateLife'[m] # 0
          /\ \A p \in Pools : /\ poolStatus'[p] # "None" <=> poolLife'[p] # 0
                              /\ poolStatus'[p] # "None" <=> membersLife'[p] # 0
      BY <1>1, <1>9 DEF LivesTypeOK, Registered, Longer, Quiet
    <2> QED BY <1>1, <1>9, <2>1, <2>2 DEF LivesTypeOK, Quiet
  <1> QED BY <1>1, <1>9, <1>10, GrowthPreserves DEF Longer, Quiet

\* Time: an entry loses a ledger at most every MinPace seconds.
LEMMA SecondKeepsLives ==
  ASSUME LifetimeInv, RegistryInv, Second
  PROVE  LifetimeInv'
  <1>1. /\ RegistryTypeOK /\ LivesTypeOK /\ now \in Nat /\ now' = now + 1
        /\ ledger \in Nat \ {0} /\ age \in Nat /\ MinPace \in Nat \ {0}
        /\ mandateLife' = mandateLife /\ poolLife' = poolLife
        /\ membersLife' = membersLife /\ terms' = terms
        /\ poolStatus' = poolStatus /\ poolState' = poolState
    BY LifetimeConstants
    DEF RegistryInv, RegistryTypeOK, LifetimeInv, LivesTypeOK, Second, Tick, lives,
        mandateVars, poolVars
  <1>2. ASSUME NEW p \in Pools, NEW l \in Nat, Outlasts(l, p)
        PROVE  l # 0 /\ MinPace * (l + 1 - ledger') > WindowEnd(p) - now' + age'
    <2>1. WindowEnd(p) \in Nat
      BY PoolTermsTyped
    <2>2. CASE age' = age + 1 /\ ledger' = ledger
      BY <1>1, <1>2, <2>1, <2>2 DEF Outlasts
    <2>3. CASE age + 1 >= MinPace /\ age' = 0 /\ ledger' = ledger + 1
      <3>1. /\ MinPace * (l + 1 - ledger) \in Int
            /\ MinPace * (l + 1 - ledger') = MinPace * (l + 1 - ledger) - MinPace
        BY <1>1, <2>3
      <3> QED BY <1>1, <1>2, <2>1, <2>3, <3>1 DEF Outlasts
    <2> QED BY <2>2, <2>3 DEF Second
  <1>3. LivesTypeOK'
    BY <1>1 DEF LivesTypeOK, Second, Registered
  <1>4. \A p \in Pools : WindowEnd(p) \in Nat
    BY PoolTermsTyped
  <1>5. ASSUME NEW p \in Pools, poolStatus[p] = "Open"
        PROVE  /\ WindowEnd(p) - now' <= MaxPoolHorizon
               /\ Outlasts(poolLife[p], p)' /\ Outlasts(membersLife[p], p)'
    <2>1. /\ WindowEnd(p) - now <= MaxPoolHorizon
          /\ Outlasts(poolLife[p], p) /\ Outlasts(membersLife[p], p)
          /\ poolLife[p] \in Nat /\ membersLife[p] \in Nat
      BY <1>5 DEF LifetimeInv, LivesTypeOK
    <2>2. WindowEnd(p) - now' <= MaxPoolHorizon
      BY <1>1, <1>4, <2>1, RegistryConstants
    <2> QED BY <1>1, <1>2, <2>1, <2>2 DEF Outlasts, WindowEnd, Deadline
  <1>6. ASSUME NEW p \in Pools, NEW m \in Mandates, poolStatus[p] = "Open",
               poolState[m] = "Committed", terms[m].pool = p
        PROVE  Outlasts(mandateLife[m], p)'
    <2>1. Outlasts(mandateLife[m], p) /\ mandateLife[m] \in Nat
      BY <1>6 DEF LifetimeInv, LivesTypeOK
    <2> QED BY <1>1, <1>2, <2>1 DEF Outlasts, WindowEnd, Deadline
  <1> QED BY <1>1, <1>3, <1>5, <1>6 DEF LifetimeInv, WindowEnd, Deadline

\* With lifetimes or without, the registry takes the same steps.
LEMMA StoredIsRegistry == StoredSpec => Spec
  <1>1. StoredInit => Init
    BY DEF StoredInit
  <1>2. [StoredNext]_storedVars => [Next]_vars
    <2> SUFFICES ASSUME [StoredNext]_storedVars PROVE [Next]_vars
      OBVIOUS
    <2>1. CASE UNCHANGED storedVars
      BY <2>1 DEF storedVars
    <2>2. CASE StoredNext
      BY <2>2 DEF StoredNext, Next, Restore, Second
    <2> QED BY <2>1, <2>2
  <1> QED BY <1>1, <1>2, PTL DEF StoredSpec, Spec

\* An entry's remaining life outlasts its pool's window, by induction over all
\* transactions and over the passing of seconds and ledgers.
THEOREM LifetimesOutlast == StoredSpec => []LifetimeInv
  <1>1. StoredInit => LifetimeInv
    BY StoredInitEstablishes
  <1>2. LifetimeInv /\ RegistryInv /\ [StoredNext]_storedVars => LifetimeInv'
    <2> SUFFICES ASSUME LifetimeInv, RegistryInv, [StoredNext]_storedVars
                 PROVE  LifetimeInv'
      OBVIOUS
    <2>1. CASE UNCHANGED storedVars
      BY <2>1 DEF storedVars, lives, vars, mandateVars, poolVars, LifetimeInv,
                  LivesTypeOK, Registered, Outlasts, WindowEnd, Deadline
    <2>2. CASE StoredNext
      BY <2>2, RegisterPoolKeepsLives, RegisterMandateKeepsLives,
         CommitChildKeepsLives, OtherStepsKeepLives, SecondKeepsLives
         DEF StoredNext
    <2> QED BY <2>1, <2>2
  <1> QED BY <1>1, <1>2, StoredIsRegistry, RegistryInvariant, PTL DEF StoredSpec

\* "a pool can never be archived inside its own live window" (storage.rs).
THEOREM OpenPoolsAreLive == StoredSpec => []OpenPoolsLive
  <1>1. LifetimeInv /\ RegistryInv => OpenPoolsLive
    <2> SUFFICES ASSUME LifetimeInv, RegistryInv, NEW p \in Pools,
                        poolStatus[p] = "Open", now <= WindowEnd(p)
                 PROVE  PoolAtHand(p) /\ MembersAtHand(p)
      BY DEF OpenPoolsLive
    <2>1. /\ RegistryTypeOK /\ ledger \in Nat /\ age \in Nat
          /\ poolLife[p] \in Nat /\ membersLife[p] \in Nat
          /\ mandateLife \in [Mandates -> Nat]
          /\ Outlasts(poolLife[p], p) /\ Outlasts(membersLife[p], p)
      BY DEF LifetimeInv, LivesTypeOK, RegistryInv
    <2>2. PoolAtHand(p)
      BY <2>1, OutlastingIsLive DEF PoolAtHand
    <2>3. ASSUME NEW m \in MemberSet(p) PROVE MandateAtHand(m)
      <3>1. m \in Mandates /\ poolState[m] = "Committed" /\ terms[m].pool = p
        BY CommittedMember
      <3>2. Outlasts(mandateLife[m], p) /\ mandateLife[m] \in Nat
        BY <2>1, <3>1 DEF LifetimeInv
      <3> QED BY <2>1, <3>2, OutlastingIsLive DEF MandateAtHand
    <2> QED BY <2>2, <2>3 DEF MembersAtHand
  <1> QED BY <1>1, LifetimesOutlast, StoredIsRegistry, RegistryInvariant, PTL

--------------------------------------------------------------------------------
\* The legacy registry is the composites registry that is never stopped.
LEMMA LegacyIsStored == LegacySpec => StoredSpec
  <1>1. StoredInit => ~paused
    BY DEF StoredInit, Init
  <1>2. ~paused /\ [LegacyNext]_storedVars => ~paused' /\ [StoredNext]_storedVars
    <2> SUFFICES ASSUME ~paused, [LegacyNext]_storedVars
                 PROVE  ~paused' /\ [StoredNext]_storedVars
      OBVIOUS
    <2>1. CASE UNCHANGED storedVars
      BY <2>1 DEF storedVars, vars
    <2>2. ASSUME NEW p \in Pools, LegacyClearPool(p)
          PROVE  ClearPool(p) /\ ClearPoolLives(p) /\ paused' = paused
      BY <2>2 DEF LegacyClearPool, LegacyClose, LegacyOutcome, LegacyClear, LegacyViews,
                  ClearPool, Outcome, Capture
    <2>3. ASSUME NEW m \in Mandates, NEW amount, NEW n,
                 LegacyExecutePayment(m, amount, n)
          PROVE  /\ ExecutePayment(m, amount, n) /\ ExecutePaymentLives(m)
                 /\ paused' = paused
      BY <2>3 DEF LegacyExecutePayment, LegacyCheck, ExecutePayment, PaymentAccepted,
                  PaymentFits, Pay
    <2>4. CASE \E p \in Pools : LegacyClearPool(p)
      BY <2>2, <2>4 DEF StoredNext
    <2>5. CASE \E m \in Mandates, amount \in PaymentAmounts, n \in 0..MaxSeq :
                  LegacyExecutePayment(m, amount, n)
      BY <2>3, <2>5 DEF StoredNext
    <2>6. CASE \/ \E p \in Pools : LegacyRegisterPool(p)
               \/ \E m \in Mandates, t \in MandateTerms : LegacyRegisterMandate(m, t)
               \/ \E m \in Mandates : LegacyCommitChild(m) \/ LegacyRevokeMandate(m)
               \/ \E p \in Pools, m \in Mandates : LegacyEvictChild(p, m)
      <3>1. StoredNext
        BY <2>6 DEF StoredNext, LegacyRegisterPool, LegacyRegisterMandate,
                    LegacyCommitChild, LegacyEvictChild, LegacyRevokeMandate
      <3>2. paused' = paused
        BY <2>6 DEF LegacyRegisterPool, LegacyRegisterMandate, LegacyCommitChild,
                    LegacyEvictChild, LegacyRevokeMandate, RegisterPool,
                    RegisterMandate, CommitChild, EvictChild, RevokeMandate
      <3> QED BY <3>1, <3>2
    <2>7. CASE (TokenStep /\ UntouchedLives) \/ Restore \/ Second
      <3>1. StoredNext
        BY <2>7 DEF StoredNext
      <3>2. paused' = paused
        BY <2>7 DEF TokenStep, Restore, Second, Tick, vars
      <3> QED BY <3>1, <3>2
    <2> QED BY <2>1, <2>4, <2>5, <2>6, <2>7 DEF LegacyNext
  <1> QED BY <1>1, <1>2, PTL DEF LegacySpec, StoredSpec

\* The legacy registry implements the composites registry, for every instance.
THEOREM LegacyImplements == LegacySpec => ImplementsComposites
  BY LegacyIsStored, StoredIsRegistry, PTL DEF ImplementsComposites

\* And its pools, too, are live inside their windows.
THEOREM LegacyPoolsAreLive == LegacySpec => [](LifetimeInv /\ OpenPoolsLive)
  BY LegacyIsStored, LifetimesOutlast, OpenPoolsAreLive, PTL

--------------------------------------------------------------------------------
\* Liveness, with the guards of the closing action in the place of ENABLED and
\* the passing of time as a hypothesis.

CanClose(p) == poolStatus[p] = "Open" /\ now > WindowEnd(p)

\* Nothing but these guards stands between a pool and its close: once the window
\* is over no transfer, budget, count or stop can refuse it.
LEMMA ClosingCannotFail ==
  ASSUME RegistryInv, NEW p \in Pools, CanClose(p), Abort(p),
         UNCHANGED <<now, paused, terms, members, memberCount>>
  PROVE  CloseExpired(p) /\ vars' # vars
  <1>1. now \in Int /\ WindowEnd(p) \in Int /\ Deadline(p) \in Int
        /\ WindowEnd(p) >= Deadline(p)
    BY PoolTermsTyped, RegistryConstants DEF RegistryInv, RegistryTypeOK, WindowEnd, Deadline
  <1>2. now >= Deadline(p) /\ ~(now <= WindowEnd(p))
    BY <1>1 DEF CanClose
  <1>3. ~Outcome(p).fires
    BY <1>2 DEF Outcome, NoFire
  <1>4. ClearPool(p)
    BY <1>2, <1>3 DEF ClearPool, CanClose
  <1>5. poolStatus' # poolStatus
    BY DEF Abort, CanClose, RegistryInv, RegistryTypeOK
  <1> QED BY <1>4, <1>5 DEF CloseExpired, CanClose, vars, poolVars

\* WF_vars(CloseExpired(p)) with CanClose(p) for ENABLED: a pool that can be
\* closed for ever is closed.
ClosedWhenDue(p) == []<>(~CanClose(p)) \/ []<><<CloseExpired(p)>>_vars

TimePasses(p) == <>(now > WindowEnd(p))

InPool(m, p) == poolState[m] = "Committed" /\ terms[m].pool = p

Resolved(m) == poolState[m] \in {"Captured", "Released"}

\* A step either leaves the commitment as it is or resolves it.
LEMMA CommitmentStep ==
  ASSUME RegistryInv, [Next]_vars, NEW m \in Mandates, NEW p \in Pools, InPool(m, p)
  PROVE  InPool(m, p)' \/ Resolved(m)'
  <1>1. Registered(m) /\ poolStatus[p] = "Open" /\ m \in MemberSet(p)
    BY DEF InPool, RegistryInv, MembershipAgrees
  <1>2. poolState \in [Mandates -> {"None", "Unlinked", "Committed", "Captured", "Released"}]
    BY DEF RegistryInv, RegistryTypeOK
  <1>3. CASE UNCHANGED vars
    BY <1>3 DEF vars, mandateVars, InPool
  <1>4. ASSUME NEW q \in Pools, RegisterPool(q) PROVE InPool(m, p)'
    BY <1>4 DEF RegisterPool, mandateVars, InPool
  <1>5. ASSUME NEW n \in Mandates, NEW t \in MandateTerms, RegisterMandate(n, t)
        PROVE  InPool(m, p)'
    <2>1. n # m
      BY <1>1, <1>5 DEF RegisterMandate
    <2> QED BY <1>2, <1>5, <2>1 DEF RegisterMandate, InPool, RegistryInv, RegistryTypeOK
  <1>6. ASSUME NEW n \in Mandates, CommitChild(n) PROVE InPool(m, p)'
    BY <1>2, <1>6 DEF CommitChild, InPool
  <1>7. ASSUME NEW q \in Pools, NEW n \in Mandates, EvictChild(q, n)
        PROVE  InPool(m, p)' \/ Resolved(m)'
    BY <1>2, <1>7 DEF EvictChild, Unlink, InPool, Resolved
  <1>8. ASSUME NEW n \in Mandates, RevokeMandate(n) PROVE InPool(m, p)' \/ Resolved(m)'
    BY <1>2, <1>8 DEF RevokeMandate, Unlink, InPool, Resolved
  <1>9. ASSUME NEW q \in Pools, ClearPool(q) PROVE InPool(m, p)' \/ Resolved(m)'
    BY <1>2, <1>9
       DEF ClearPool, Capture, CaptureLegs, Abort, PoolStateAfter, InPool, Resolved
  <1>10. ASSUME NEW n \in Mandates, NEW amount, NEW k, ExecutePayment(n, amount, k)
         PROVE  InPool(m, p)'
    BY <1>10 DEF ExecutePayment, Pay, InPool
  <1>11. CASE Pause \/ Unpause \/ TokenStep \/ Tick
    BY <1>11 DEF Pause, Unpause, TokenStep, Tick, mandateVars, InPool
  <1> QED BY <1>3, <1>4, <1>5, <1>6, <1>7, <1>8, <1>9, <1>10, <1>11 DEF Next

\* Time does not run backwards.
LEMMA WindowStaysOver ==
  ASSUME RegistryInv, [Next]_vars, NEW p \in Pools, now > WindowEnd(p)
  PROVE  (now > WindowEnd(p))'
  <1>1. now \in Int /\ WindowEnd(p) \in Int
    BY PoolTermsTyped, RegistryConstants DEF RegistryInv, RegistryTypeOK, WindowEnd, Deadline
  <1>2. now' = now \/ now' = now + 1
    BY DEF Next, vars, RegisterPool, RegisterMandate, CommitChild, EvictChild,
           RevokeMandate, ClearPool, ExecutePayment, Pay, Pause, Unpause, TokenStep, Tick
  <1> QED BY <1>1, <1>2 DEF WindowEnd, Deadline

\* The close of an expired pool releases its members.
LEMMA ExpiredCloseReleases ==
  ASSUME RegistryInv, NEW m \in Mandates, NEW p \in Pools, InPool(m, p), CloseExpired(p)
  PROVE  Resolved(m)'
  <1>1. now \in Int /\ WindowEnd(p) \in Int
    BY PoolTermsTyped, RegistryConstants DEF RegistryInv, RegistryTypeOK, WindowEnd, Deadline
  <1>2. ~(now <= WindowEnd(p))
    BY <1>1 DEF CloseExpired
  <1>3. ~Outcome(p).fires
    BY <1>2 DEF Outcome, NoFire
  <1>4. Abort(p)
    BY <1>3 DEF CloseExpired, ClearPool
  <1>5. m \in Committed(p)
    BY DEF InPool, Committed, RegistryInv, MembershipAgrees
  <1> QED BY <1>4, <1>5 DEF Abort, Resolved

\* One mandate and one pool.
LEMMA CommitmentResolves ==
  ASSUME NEW m \in Mandates, NEW p \in Pools
  PROVE  Spec /\ TimePasses(p) /\ ClosedWhenDue(p) => (InPool(m, p) ~> Resolved(m))
  <1> DEFINE Late == now > WindowEnd(p)
             In == InPool(m, p)
             Out == Resolved(m)
             Can == CanClose(p)
             Close == CloseExpired(p)
  <1>1. RegistryInv /\ [Next]_vars /\ In => In' \/ Out'
    BY CommitmentStep
  <1>2. RegistryInv /\ [Next]_vars /\ Late => Late'
    BY WindowStaysOver
  <1>3. RegistryInv /\ In /\ Late => Can
    BY DEF InPool, CanClose, RegistryInv, MembershipAgrees
  <1>4. RegistryInv /\ In /\ <<Close>>_vars => Out'
    BY ExpiredCloseReleases
  <1>5. Spec => []RegistryInv
    BY RegistryInvariant
  <1>6. TimePasses(p) => <>Late
    BY DEF TimePasses
  <1>7. ClosedWhenDue(p) => []<>(~Can) \/ []<><<Close>>_vars
    BY DEF ClosedWhenDue
  <1>8. Spec => [][Next]_vars
    BY DEF Spec
  <1> HIDE DEF Late, In, Out, Can, Close
  <1>9. Spec /\ TimePasses(p) /\ ClosedWhenDue(p) => (In ~> Out)
    BY <1>1, <1>2, <1>3, <1>4, <1>5, <1>6, <1>7, <1>8, PTL
  <1> QED BY <1>9 DEF In, Out

\* What every pool leads to, some pool leads to.
LEMMA SomePoolWillDo ==
  ASSUME NEW m \in Mandates
  PROVE  [](\A p \in Pools : InPool(m, p) => <>Resolved(m))
         => []((\E p \in Pools : InPool(m, p)) => <>Resolved(m))
  <1> SUFFICES ASSUME [](\A p \in Pools : InPool(m, p) => <>Resolved(m))
               PROVE  []((\E p \in Pools : InPool(m, p)) => <>Resolved(m))
    OBVIOUS
  <1>1. (\E p \in Pools : InPool(m, p)) => <>Resolved(m)
    <2>1. \A p \in Pools : InPool(m, p) => <>Resolved(m)
      BY PTL
    <2> QED BY <2>1
  <1> QED BY <1>1, PTL

\* A committed mandate is in some pool.
LEMMA PoolsAreAllThereIs ==
  ASSUME NEW m \in Mandates
  PROVE  Spec /\ []((\E p \in Pools : InPool(m, p)) => <>Resolved(m))
         => (poolState[m] = "Committed" ~> poolState[m] \in {"Captured", "Released"})
  <1>1. RegistryInv => (poolState[m] = "Committed" => \E p \in Pools : InPool(m, p))
    <2> SUFFICES ASSUME RegistryInv, poolState[m] = "Committed"
                 PROVE  \E p \in Pools : InPool(m, p)
      OBVIOUS
    <2>1. terms[m].pool \in Pools
      BY DEF RegistryInv, MembershipAgrees
    <2> QED BY <2>1 DEF InPool
  <1>2. Resolved(m) => poolState[m] \in {"Captured", "Released"}
    BY DEF Resolved
  <1> QED BY <1>1, <1>2, RegistryInvariant, PTL

\* No commitment is open-ended: if time reaches the end of every pool's window and
\* whoever wants out may have clear_pool taken, every committed mandate is captured
\* or released, whoever paused, froze or refused to act (pool.rs, clear_pool).
THEOREM CommitmentsResolve ==
  Spec /\ (\A p \in Pools : TimePasses(p) /\ ClosedWhenDue(p)) => EveryCommitmentResolves
  <1> SUFFICES ASSUME Spec, \A p \in Pools : TimePasses(p) /\ ClosedWhenDue(p),
                      NEW m \in Mandates
               PROVE  poolState[m] = "Committed" ~> poolState[m] \in {"Captured", "Released"}
    BY DEF EveryCommitmentResolves
  <1>1. \A p \in Pools : [](InPool(m, p) => <>Resolved(m))
    <2> SUFFICES ASSUME NEW p \in Pools PROVE [](InPool(m, p) => <>Resolved(m))
      OBVIOUS
    <2>1. InPool(m, p) ~> Resolved(m)
      BY CommitmentResolves
    <2> QED BY <2>1, PTL
  <1>2. [](\A p \in Pools : InPool(m, p) => <>Resolved(m))
    BY <1>1
  <1> QED BY <1>2, SomePoolWillDo, PoolsAreAllThereIs

\* WF_vars(Tick) with its guard for ENABLED.
TicksGoOn == []<>(~(now < MaxTime)) \/ []<><<Tick>>_vars

\* What lies behind TimePasses: one second leads to the next, up to the bound of
\* the model.  That any instant is reached is an induction over this.
THEOREM TimeAdvances ==
  ASSUME NEW n \in Nat, n < MaxTime
  PROVE  Spec /\ TicksGoOn => (now = n ~> now = n + 1)
  <1> DEFINE Here == now = n
             There == now = n + 1
             Can == now < MaxTime
             Step == Tick
  <1>1. [Next]_vars /\ Here => Here' \/ There'
    BY DEF Next, vars, RegisterPool, RegisterMandate, CommitChild, EvictChild,
           RevokeMandate, ClearPool, ExecutePayment, Pay, Pause, Unpause, TokenStep, Tick
  <1>2. Here /\ <<Step>>_vars => There'
    BY DEF Tick
  <1>3. Here => Can
    OBVIOUS
  <1>4. Spec => [][Next]_vars
    BY DEF Spec
  <1>5. TicksGoOn => []<>(~Can) \/ []<><<Step>>_vars
    BY DEF TicksGoOn
  <1> HIDE DEF Here, There, Can, Step
  <1>6. Spec /\ TicksGoOn => (Here ~> There)
    BY <1>1, <1>2, <1>3, <1>4, <1>5, PTL
  <1> QED BY <1>6 DEF Here, There

--------------------------------------------------------------------------------
\* Nothing can hold an open pool up, with the guards of the two actions in the
\* place of ENABLED.

\* What revoke_mandate asks of the state, and what it writes: one value for each
\* variable, whatever the state.
RevokeAllowed(m) ==
  /\ Registered(m)
  /\ age = 0 /\ MandateAtHand(m)
  /\ poolState[m] = "Committed" /\ terms[m].pool # NoPool => PoolAtHand(terms[m].pool)

RevokeWrites(m) ==
  LET p == terms[m].pool IN
  /\ status' = [status EXCEPT ![m] = "Revoked"]
  /\ IF poolState[m] = "Committed" /\ p # NoPool /\ poolStatus[p] = "Open"
     THEN Unlink(p, m)
     ELSE UNCHANGED <<poolVars, poolState>>
  /\ IF poolState[m] = "Committed" /\ p # NoPool
     THEN TouchPool(p, Remaining(p)) /\ TouchMember(m, Remaining(p))
     ELSE TouchMandate(m) /\ UNCHANGED <<poolLife, membersLife>>
  /\ UNCHANGED <<now, paused, terms, spent, seq, tokenVars, ledger, age>>

\* What clear_pool asks of the state once the outcome is known, and writes.
CloseAllowed(p, outcome) ==
  /\ poolStatus[p] = "Open" /\ now >= Deadline(p)
  /\ age = 0 /\ PoolAtHand(p) /\ MembersAtHand(p)
  /\ outcome.fires =>
       /\ \A m \in Committed(p) \intersect DOMAIN outcome.alloc :
             spent[m] + Leg(outcome, m) <= terms[m].maxAmount /\ seq[m] < MaxSeq
       /\ CanSettle(CaptureBatch(p, outcome))

SettleWrites(batch) ==
  /\ allowance' = [a \in Assets |-> [u \in Users |-> allowance[a][u] - Due(batch, a, u)]]
  /\ balance' = [a \in Assets |-> [u \in Users |-> balance[a][u] - Due(batch, a, u)]]
  /\ drawn' = [a \in Assets |-> [u \in Users |-> [w \in Payees |->
                 drawn[a][u][w] + Flow(batch, a, u, w)]]]
  /\ UNCHANGED authorized

CaptureWrites(p, outcome) ==
  LET fired == Committed(p) \intersect DOMAIN outcome.alloc
      SpentAfter(m) == spent[m] + Leg(outcome, m)
  IN
  /\ poolStatus' = [poolStatus EXCEPT ![p] = "Cleared"]
  /\ spent' = [m \in Mandates |-> IF m \in fired THEN SpentAfter(m) ELSE spent[m]]
  /\ seq' = [m \in Mandates |-> IF m \in fired THEN seq[m] + 1 ELSE seq[m]]
  /\ status' = [m \in Mandates |-> IF m \in fired THEN StatusAfter(m, SpentAfter(m))
                                                  ELSE status[m]]
  /\ poolState' = PoolStateAfter(p, fired)
  /\ SettleWrites(CaptureBatch(p, outcome))

CloseWrites(p, outcome) ==
  /\ IF outcome.fires THEN CaptureWrites(p, outcome) ELSE Abort(p)
  /\ UNCHANGED <<now, paused, terms, members, memberCount, ledger, age>>
  /\ poolLife' = [poolLife EXCEPT ![p] = StoredFor(@, 0)]
  /\ membersLife' = [membersLife EXCEPT ![p] = ToHorizon(@, 0)]
  /\ mandateLife' = [m \in Mandates |->
                       IF m \in Committed(p) THEN Stored(mandateLife[m])
                                             ELSE mandateLife[m]]

\* Guards and writes are all there is to the two actions.
LEMMA RevokeIsGuarded ==
  ASSUME NEW m PROVE LegacyRevokeMandate(m) <=> RevokeAllowed(m) /\ RevokeWrites(m)
  BY DEF LegacyRevokeMandate, RevokeMandate, RevokeMandateLives, RevokeAllowed,
         RevokeWrites, InLedger

LEMMA CloseIsGuarded ==
  ASSUME NEW p, NEW outcome, outcome.fires \in BOOLEAN
  PROVE  LegacyClose(p, outcome) <=> CloseAllowed(p, outcome) /\ CloseWrites(p, outcome)
  <1>1. CASE outcome.fires
    <2>1. CaptureLegs(p, outcome) <=>
            /\ \A m \in Committed(p) \intersect DOMAIN outcome.alloc :
                  spent[m] + Leg(outcome, m) <= terms[m].maxAmount /\ seq[m] < MaxSeq
            /\ CanSettle(CaptureBatch(p, outcome))
            /\ CaptureWrites(p, outcome)
      BY Zenon DEF CaptureLegs, CaptureWrites, Settle, SettleWrites
    <2> QED BY <1>1, <2>1, Zenon
            DEF LegacyClose, ClearPoolLives, CloseAllowed, CloseWrites, InLedger
  <1>2. CASE ~outcome.fires
    BY <1>2, Zenon DEF LegacyClose, ClearPoolLives, CloseAllowed, CloseWrites, InLedger
  <1> QED BY <1>1, <1>2

\* OpenPoolsStayUsable with the guards in the place of ENABLED.
UsablePools ==
  \A p \in Pools :
    poolStatus[p] = "Open" /\ now <= WindowEnd(p) /\ age = 0 =>
      /\ \A m \in MemberSet(p) : RevokeAllowed(m)
      /\ now >= Deadline(p) =>
           (CanCapture(p, LegacyOutcome(p)) \/ ~LegacyOutcome(p).fires
              => CloseAllowed(p, LegacyOutcome(p)))

\* Nothing and nobody can hold an open pool up while its window lasts: in every
\* ledger its members can be revoked ("Never blockable", registry.rs); from the
\* deadline on it can be closed, and if its auction is met it is captured unless
\* the merchant is frozen, a sequence number is used up or, of a token that does
\* not answer the probe, a member to be charged is blocked.
THEOREM OpenPoolsUsable == LegacySpec => []UsablePools
  <1>1. RegistryInv /\ OpenPoolsLive /\ MetPoolSettles => UsablePools
    <2> SUFFICES ASSUME RegistryInv, OpenPoolsLive, MetPoolSettles, NEW p \in Pools,
                        poolStatus[p] = "Open", now <= WindowEnd(p), age = 0
                 PROVE  /\ \A m \in MemberSet(p) : RevokeAllowed(m)
                        /\ /\ now >= Deadline(p)
                           /\ CanCapture(p, LegacyOutcome(p)) \/ ~LegacyOutcome(p).fires
                           => CloseAllowed(p, LegacyOutcome(p))
      BY DEF UsablePools
    <2>1. PoolAtHand(p) /\ MembersAtHand(p)
      BY DEF OpenPoolsLive
    <2>2. ASSUME NEW m \in MemberSet(p) PROVE RevokeAllowed(m)
      <3>1. Registered(m) /\ terms[m].pool = p
        BY CommittedMember
      <3> QED BY <2>1, <3>1 DEF RevokeAllowed, MembersAtHand
    <2>3. LegacyOutcome(p) = Outcome(p)
      BY DEF LegacyOutcome, LegacyClear, LegacyViews, Outcome
    <2>4. ASSUME now >= Deadline(p), ~Outcome(p).fires
          PROVE  CloseAllowed(p, Outcome(p))
      BY <2>1, <2>4 DEF CloseAllowed
    <2>5. ASSUME now >= Deadline(p), CanCapture(p, Outcome(p))
          PROVE  CloseAllowed(p, Outcome(p))
      <3> DEFINE outcome == Outcome(p)
      <3>1. /\ outcome.fires
            /\ authorized[PoolTerms[p].asset][PoolTerms[p].merchant]
            /\ \A m \in DOMAIN outcome.alloc : seq[m] < MaxSeq
            /\ ProbedOrUnblocked(p, DOMAIN outcome.alloc)
        BY <2>5 DEF CanCapture
      <3>2. Deadline(p) <= now
        BY <2>5, PoolTermsTyped DEF RegistryInv, RegistryTypeOK, Deadline
      <3>3. /\ \A m \in DOMAIN outcome.alloc :
                 spent[m] + Leg(outcome, m) <= terms[m].maxAmount
            /\ CanSettle(CaptureBatch(p, outcome))
        BY <3>1, <3>2, Zenon DEF MetPoolSettles
      <3> HIDE DEF outcome
      <3>4. CloseAllowed(p, outcome)
        BY <2>1, <2>5, <3>1, <3>3 DEF CloseAllowed
      <3> QED BY <3>4 DEF outcome
    <2> QED BY <2>2, <2>3, <2>4, <2>5
  <1>2. LegacySpec => Spec
    BY LegacyImplements DEF ImplementsComposites
  <1> QED BY <1>1, <1>2, RegistryInvariant, MetPoolsSettle, LegacyPoolsAreLive, PTL

================================================================================
