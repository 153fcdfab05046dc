--------------------------- MODULE CompositeRegistry ---------------------------
(***************************************************************************)
(* The composites mandate registry: standalone and pooled mandates, solo   *)
(* payments, clearing pools closed by a deadline auction, and the          *)
(* emergency stop, over SEP-41 tokens that change underneath them.         *)
(*                                                                         *)
(* Every action is one host transaction.  The host runs transactions one   *)
(* at a time, refuses re-entry and reverts every write of one that returns *)
(* an error or panics, so a handler that fails is an action that is not    *)
(* enabled, and a handler's checks, writes and token calls are one step.   *)
(* Callers are not modelled: require_auth has the host refuse the call     *)
(* before any of the handler's effects; commit_child, evict_child and      *)
(* clear_pool ask for no authorisation, anyone may take them at any time.  *)
(***************************************************************************)
EXTENDS Clearing, Sep41Token, SequencesExt

CONSTANTS
  Mandates,        \* mandate ids (vc_hash)
  MandateTerms,    \* the terms users sign; a vc_hash is not bound to any
  NoTerms,
  Pools,           \* pool ids
  PoolTerms,       \* [Pools -> terms]: the id is the hash of terms and nonce
  NoPool,
  MaxPoolMembers,  \* MAX_POOL_MEMBERS (8)
  CaptureWindow,   \* CAPTURE_WINDOW_SECS (86_400)
  MaxPoolHorizon,  \* MAX_POOL_HORIZON_SECS (30 days)
  ProbedAssets,    \* assets that answer `authorized(id)' as they transfer (SACs)
  PaymentAmounts,  \* amounts agents ask to pay, bounded for TLC
  MaxSeq,          \* u32::MAX: at it `seq += 1' panics and reverts
  MaxTime          \* bound on ledger time, for TLC

PoolTermsType ==
  [merchant : Payees, asset : Assets,
   kind : {"ThresholdFloor", "SpendCeiling", "CapacityCeiling"},
   thresholdQty : Nat, thresholdValue : Nat, minChildValue : Nat,
   deadline : Nat]

MandateTermsType ==
  [user : Users, merchant : Payees, asset : Assets, maxAmount : Int,
   expiry : Nat, pool : Pools \union {NoPool},
   schedule : Seq([price : Int, qty : Nat])]

ASSUME RegistryConstants ==
  /\ IsFiniteSet(Mandates)
  /\ PoolTerms \in [Pools -> PoolTermsType]
  /\ \A t \in MandateTerms : t \in MandateTermsType
  /\ NoTerms \notin MandateTerms
  /\ NoPool \notin Pools
  /\ MaxPoolMembers \in Nat \ {0}
  /\ CaptureWindow \in Nat /\ MaxPoolHorizon \in Nat
  /\ ProbedAssets \subseteq Assets
  /\ PaymentAmounts \subseteq Int
  /\ MaxSeq \in Nat /\ MaxTime \in Nat

VARIABLES
  now,          \* ledger timestamp
  paused,       \* DataKey::Paused
  terms,        \* signed fields of the stored Mandate; NoTerms = no entry
  status,       \* Mandate.status
  spent,        \* Mandate.spent
  seq,          \* Mandate.seq
  poolState,    \* Mandate.pool_state
  poolStatus,   \* ClearingPool.status; "None" = no entry
  members,      \* DataKey::PoolMembers
  memberCount   \* ClearingPool.member_count

mandateVars == <<terms, status, spent, seq, poolState>>
poolVars == <<poolStatus, members, memberCount>>
vars == <<now, paused, mandateVars, poolVars, tokenVars>>

Registered(m) == terms[m] # NoTerms
Deadline(p) == PoolTerms[p].deadline
WindowEnd(p) == Deadline(p) + CaptureWindow
Room(m) == terms[m].maxAmount - spent[m]
MandateWorstCase(m) == WorstCase(terms[m].schedule)

--------------------------------------------------------------------------------
\* Registration.

Init ==
  /\ now = 0
  /\ paused = FALSE
  /\ terms = [m \in Mandates |-> NoTerms]
  /\ status = [m \in Mandates |-> "None"]
  /\ spent = [m \in Mandates |-> 0]
  /\ seq = [m \in Mandates |-> 0]
  /\ poolState = [m \in Mandates |-> "None"]
  /\ poolStatus = [p \in Pools |-> "None"]
  /\ members = [p \in Pools |-> << >>]
  /\ memberCount = [p \in Pools |-> 0]
  /\ TokenInit

MaxPoolValue == MaxPoolMembers * MaxUnitPrice * MaxQty

RegisterPool(p) ==
  LET t == PoolTerms[p] IN
  /\ t.kind = "ThresholdFloor"
  /\ ~(t.thresholdQty = 0 /\ t.thresholdValue = 0)
  /\ t.thresholdQty <= MaxPoolMembers * MaxQty
  /\ t.thresholdValue <= MaxPoolValue
  /\ t.minChildValue <= MaxUnitPrice * MaxQty
  /\ now < t.deadline
  /\ WindowEnd(p) - now <= MaxPoolHorizon
  /\ poolStatus[p] = "None"
  /\ poolStatus' = [poolStatus EXCEPT ![p] = "Open"]
  /\ members' = [members EXCEPT ![p] = << >>]
  /\ memberCount' = [memberCount EXCEPT ![p] = 0]
  /\ UNCHANGED <<now, paused, mandateVars, tokenVars>>

\* Mutant: a child may expire inside the capture window.
PoolAcceptsUntilDeadline(p, t) ==
  /\ poolStatus[p] = "Open" /\ now < Deadline(p)
  /\ t.merchant = PoolTerms[p].merchant /\ t.asset = PoolTerms[p].asset
  /\ ValidSchedule(t.schedule)
  /\ WorstCase(t.schedule) <= t.maxAmount
  /\ WorstCase(t.schedule) >= PoolTerms[p].minChildValue
  /\ t.expiry > Deadline(p)

PoolAccepts(p, t) ==
  /\ poolStatus[p] = "Open"
  /\ now < Deadline(p)
  /\ t.merchant = PoolTerms[p].merchant
  /\ t.asset = PoolTerms[p].asset
  /\ ValidSchedule(t.schedule)
  /\ WorstCase(t.schedule) <= t.maxAmount
  /\ WorstCase(t.schedule) >= PoolTerms[p].minChildValue
  /\ t.expiry > WindowEnd(p)

\* Mutant: a vc_hash already on file is registered over.
RegisterMandateOver(m, t) ==
  /\ t.maxAmount > 0
  /\ t.expiry > now
  /\ \/ t.pool = NoPool /\ t.schedule = << >>
     \/ t.pool \in Pools /\ PoolAccepts(t.pool, t)
  /\ terms' = [terms EXCEPT ![m] = t]
  /\ status' = [status EXCEPT ![m] = "Active"]
  /\ spent' = [spent EXCEPT ![m] = 0]
  /\ seq' = [seq EXCEPT ![m] = 0]
  /\ poolState' = [poolState EXCEPT ![m] = "Unlinked"]
  /\ UNCHANGED <<now, paused, poolVars, tokenVars>>

RegisterMandate(m, t) ==
  /\ t.maxAmount > 0
  /\ t.expiry > now
  /\ ~Registered(m)
  /\ \/ t.pool = NoPool /\ t.schedule = << >>
     \/ t.pool \in Pools /\ PoolAccepts(t.pool, t)
  /\ terms' = [terms EXCEPT ![m] = t]
  /\ status' = [status EXCEPT ![m] = "Active"]
  /\ spent' = [spent EXCEPT ![m] = 0]
  /\ seq' = [seq EXCEPT ![m] = 0]
  /\ poolState' = [poolState EXCEPT ![m] = "Unlinked"]
  /\ UNCHANGED <<now, paused, poolVars, tokenVars>>

--------------------------------------------------------------------------------
\* Pool membership.

\* Mutant: the last member is popped, whichever it is.
PopMember(list, m) == Front(list)

\* first_index_of and remove: the first occurrence only.
RemoveMember(list, m) ==
  LET at == {i \in DOMAIN list : list[i] = m}
  IN  IF at = {} THEN list ELSE RemoveAt(list, Min(at))

Saturating(n) == IF n = 0 THEN 0 ELSE n - 1

\* Mutant: a second committed mandate of the same user is let in.
AnyMayJoin(m, p) == memberCount[p] < MaxPoolMembers

\* A free slot, and no other committed mandate of the same user in the pool.
MayJoin(m, p) ==
  /\ memberCount[p] < MaxPoolMembers
  /\ \A i \in DOMAIN members[p] :
        ~ /\ poolState[members[p][i]] = "Committed"
          /\ terms[members[p][i]].user = terms[m].user

\* The probe is tolerant: a token without the method, or whose answer fails,
\* counts every account as authorized, one that it blocks included.
TrustlineAuthorized(a, u) == a \in ProbedAssets => authorized[a][u]

\* The funds test of commit_child and is_eligible: two live reads and the probe.
Funded(a, u, amount) ==
  /\ allowance[a][u] >= amount
  /\ balance[a][u] >= amount
  /\ TrustlineAuthorized(a, u)

CommitChild(m) ==
  LET p == terms[m].pool IN
  /\ Registered(m)
  /\ p # NoPool
  /\ status[m] = "Active"
  /\ now < terms[m].expiry
  /\ poolState[m] = "Unlinked"
  /\ poolStatus[p] = "Open"
  /\ now < Deadline(p)
  /\ MayJoin(m, p)
  /\ Room(m) >= MandateWorstCase(m)
  /\ Funded(PoolTerms[p].asset, terms[m].user, MandateWorstCase(m))
  /\ poolState' = [poolState EXCEPT ![m] = "Committed"]
  /\ members' = [members EXCEPT ![p] = Append(@, m)]
  /\ memberCount' = [memberCount EXCEPT ![p] = @ + 1]
  /\ UNCHANGED <<now, paused, terms, status, spent, seq, poolStatus, tokenVars>>

\* Mutant: eligibility reads the mandate and not the live token state.
EligibleOnPaper(m, p) ==
  /\ poolState[m] = "Committed" /\ status[m] = "Active"
  /\ now < terms[m].expiry
  /\ Room(m) >= MandateWorstCase(m)

\* The capture-time filter, on live token state and the schedule's worst case.
IsEligible(m, p) ==
  /\ poolState[m] = "Committed"
  /\ status[m] = "Active"
  /\ now < terms[m].expiry
  /\ Room(m) >= MandateWorstCase(m)
  /\ Funded(PoolTerms[p].asset, terms[m].user, MandateWorstCase(m))

\* The member list and count without m; what eviction and revocation share.
Unlink(p, m) ==
  /\ members' = [members EXCEPT ![p] = RemoveMember(@, m)]
  /\ memberCount' = [memberCount EXCEPT ![p] = Saturating(@)]
  /\ poolState' = [poolState EXCEPT ![m] = "Released"]
  /\ UNCHANGED poolStatus

\* Mutant: any committed member can be evicted.
EvictAnyChild(p, m) ==
  /\ poolStatus[p] = "Open"
  /\ Registered(m)
  /\ terms[m].pool = p
  /\ poolState[m] = "Committed"
  /\ Unlink(p, m)
  /\ UNCHANGED <<now, paused, terms, status, spent, seq, tokenVars>>

EvictChild(p, m) ==
  /\ poolStatus[p] = "Open"
  /\ Registered(m)
  /\ terms[m].pool = p
  /\ poolState[m] = "Committed"
  /\ ~IsEligible(m, p)
  /\ Unlink(p, m)
  /\ UNCHANGED <<now, paused, terms, status, spent, seq, tokenVars>>

RevokeMandate(m) ==
  /\ Registered(m)
  /\ status' = [status EXCEPT ![m] = "Revoked"]
  /\ IF /\ poolState[m] = "Committed"
        /\ terms[m].pool # NoPool
        /\ poolStatus[terms[m].pool] = "Open"
     THEN Unlink(terms[m].pool, m)
     ELSE UNCHANGED <<poolVars, poolState>>
  /\ UNCHANGED <<now, paused, terms, spent, seq, tokenVars>>

--------------------------------------------------------------------------------
\* Closing a pool.

MemberSet(p) == {members[p][i] : i \in DOMAIN members[p]}

\* Fee rate 0: every pool this build registers pins it (fee_bps_pinned).
FeeBpsPinned == 0

EligibleSchedules(p) ==
  [m \in {c \in MemberSet(p) : IsEligible(c, p)} |-> terms[m].schedule]

\* Mutant: the auction stays open after the capture window.
OutcomeAnyTime(p) ==
  Clear(EligibleSchedules(p), PoolTerms[p].thresholdQty,
        PoolTerms[p].thresholdValue, FeeBpsPinned)

\* What simulate_clear reports, and clear_pool executes, in this ledger.
Outcome(p) ==
  IF now <= WindowEnd(p)
  THEN Clear(EligibleSchedules(p), PoolTerms[p].thresholdQty,
             PoolTerms[p].thresholdValue, FeeBpsPinned)
  ELSE NoFire

Committed(p) == {m \in MemberSet(p) : poolState[m] = "Committed"}

Abort(p) ==
  /\ poolStatus' = [poolStatus EXCEPT ![p] = "Aborted"]
  /\ poolState' = [m \in Mandates |->
                     IF m \in Committed(p) THEN "Released" ELSE poolState[m]]
  /\ UNCHANGED <<status, spent, seq, tokenVars>>

Leg(outcome, m) == outcome.price * outcome.alloc[m]

\* Mutant: the worst case is transferred instead of the leg.
CaptureBatchWorstCase(p, outcome) ==
  [m \in DOMAIN outcome.alloc |->
     [asset |-> PoolTerms[p].asset, from |-> terms[m].user,
      to |-> PoolTerms[p].merchant, amount |-> MandateWorstCase(m)]]

\* The transfers of a capture; FeeOf(leg, 0) = 0, so each is the whole leg.
CaptureBatch(p, outcome) ==
  [m \in DOMAIN outcome.alloc |->
     [asset |-> PoolTerms[p].asset, from |-> terms[m].user,
      to |-> PoolTerms[p].merchant,
      amount |-> Leg(outcome, m) - FeeOf(Leg(outcome, m), FeeBpsPinned)]]

\* Mutant: a used-up mandate is not marked Exhausted.
StatusKept(m, newSpent) == status[m]

StatusAfter(m, newSpent) ==
  IF newSpent = terms[m].maxAmount THEN "Exhausted" ELSE status[m]

\* Mutant: the members priced out of the auction stay Committed.
PoolStateAfterFiredOnly(p, fired) ==
  [m \in Mandates |-> IF m \in fired THEN "Captured" ELSE poolState[m]]

\* Captured if charged; released, never charged, if excluded or priced out.
PoolStateAfter(p, fired) ==
  [m \in Mandates |-> IF m \in fired THEN "Captured"
                      ELSE IF m \in Committed(p) THEN "Released"
                      ELSE poolState[m]]

CaptureLegs(p, outcome) ==
  LET fired == Committed(p) \intersect DOMAIN outcome.alloc
      SpentAfter(m) == spent[m] + Leg(outcome, m)
  IN
  /\ \A m \in fired : SpentAfter(m) <= terms[m].maxAmount /\ seq[m] < MaxSeq
  /\ poolStatus' = [poolStatus EXCEPT ![p] = "Cleared"]
  /\ spent' = [m \in Mandates |-> IF m \in fired THEN SpentAfter(m) ELSE spent[m]]
  /\ seq' = [m \in Mandates |-> IF m \in fired THEN seq[m] + 1 ELSE seq[m]]
  /\ status' = [m \in Mandates |-> IF m \in fired THEN StatusAfter(m, SpentAfter(m))
                                                  ELSE status[m]]
  /\ poolState' = PoolStateAfter(p, fired)
  /\ Settle(CaptureBatch(p, outcome))

\* The stop is read once the outcome is known: it holds captures, never aborts.
Capture(p, outcome) == ~paused /\ CaptureLegs(p, outcome)

ClearPool(p) ==
  LET outcome == Outcome(p) IN
  /\ poolStatus[p] = "Open"
  /\ now >= Deadline(p)
  /\ IF outcome.fires THEN Capture(p, outcome) ELSE Abort(p)
  /\ UNCHANGED <<now, paused, terms, members, memberCount>>

--------------------------------------------------------------------------------
\* Solo payments.

\* Mutant: a committed mandate can be spent solo as well.
CheckIgnoresPool(m, amount) ==
  /\ amount > 0
  /\ status[m] = "Active"
  /\ now < terms[m].expiry
  /\ spent[m] + amount <= terms[m].maxAmount

\* Mutant: the expiry is not tested.
CheckIgnoresExpiry(m, amount) ==
  /\ amount > 0
  /\ status[m] = "Active"
  /\ poolState[m] \in {"Unlinked", "Released"}
  /\ spent[m] + amount <= terms[m].maxAmount

\* payment::check: all that the read-only validate_mandate tests, and the part
\* of execute_payment that is about the mandate.
Check(m, amount) ==
  /\ amount > 0
  /\ status[m] = "Active"
  /\ poolState[m] \in {"Unlinked", "Released"}
  /\ now < terms[m].expiry
  /\ spent[m] + amount <= terms[m].maxAmount

PaymentBatch(m, amount) ==
  [k \in {m} |-> [asset |-> terms[m].asset, from |-> terms[m].user,
                  to |-> terms[m].merchant, amount |-> amount]]

\* The conditions on the mandate for a payment; expected_seq is the replay guard.
PaymentFits(m, amount, expectedSeq) ==
  /\ Registered(m)
  /\ expectedSeq = seq[m]
  /\ Check(m, amount)
  /\ seq[m] < MaxSeq

PaymentAccepted(m, amount, expectedSeq) ==
  ~paused /\ PaymentFits(m, amount, expectedSeq)

\* The books first, then the transfer.
Pay(m, amount) ==
  /\ spent' = [spent EXCEPT ![m] = @ + amount]
  /\ seq' = [seq EXCEPT ![m] = @ + 1]
  /\ status' = [status EXCEPT ![m] = StatusAfter(m, spent[m] + amount)]
  /\ Settle(PaymentBatch(m, amount))
  /\ UNCHANGED <<now, paused, terms, poolState, poolVars>>

ExecutePayment(m, amount, expectedSeq) ==
  PaymentAccepted(m, amount, expectedSeq) /\ Pay(m, amount)

--------------------------------------------------------------------------------
\* The emergency stop, the environment, time.

Pause ==
  /\ ~paused
  /\ paused' = TRUE
  /\ UNCHANGED <<now, mandateVars, poolVars, tokenVars>>

Unpause ==
  /\ paused
  /\ paused' = FALSE
  /\ UNCHANGED <<now, mandateVars, poolVars, tokenVars>>

TokenStep == Environment /\ UNCHANGED <<now, paused, mandateVars, poolVars>>

Tick ==
  /\ now < MaxTime
  /\ now' = now + 1
  /\ UNCHANGED <<paused, mandateVars, poolVars, tokenVars>>

Next ==
  \/ \E p \in Pools : RegisterPool(p)
  \/ \E m \in Mandates, t \in MandateTerms : RegisterMandate(m, t)
  \/ \E m \in Mandates : CommitChild(m)
  \/ \E p \in Pools, m \in Mandates : EvictChild(p, m)
  \/ \E m \in Mandates : RevokeMandate(m)
  \/ \E p \in Pools : ClearPool(p)
  \/ \E m \in Mandates, amount \in PaymentAmounts, n \in 0..MaxSeq :
        ExecutePayment(m, amount, n)
  \/ Pause \/ Unpause
  \/ TokenStep
  \/ Tick

Spec == Init /\ [][Next]_vars

\* clear_pool taken after the capture window, when it can only abort.
CloseExpired(p) == now > WindowEnd(p) /\ ClearPool(p)

\* Ledgers keep closing, and closing a pool is permissionless and cannot fail
\* once the window is over: a member who wants out calls clear_pool.  Nobody
\* has to close a pool in time, to pay, to commit, to evict or to unpause.
FairSpec == Spec /\ WF_vars(Tick) /\ \A p \in Pools : WF_vars(CloseExpired(p))

================================================================================
