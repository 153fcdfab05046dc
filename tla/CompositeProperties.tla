-------------------------- MODULE CompositeProperties --------------------------
(***************************************************************************)
(* What the composites mandate registry promises its users, the merchants  *)
(* and whoever closes a pool.                                              *)
(***************************************************************************)
EXTENDS CompositeRegistry

\* Every stored field has its type; counters stay inside the width or the
\* capacity the code gives them.
RegistryTypeOK ==
  /\ now \in 0..MaxTime
  /\ paused \in BOOLEAN
  /\ terms \in [Mandates -> MandateTerms \union {NoTerms}]
  /\ status \in [Mandates -> {"None", "Active", "Revoked", "Exhausted"}]
  /\ spent \in [Mandates -> Nat]
  /\ seq \in [Mandates -> 0..MaxSeq]
  /\ poolState \in [Mandates -> {"None", "Unlinked", "Committed", "Captured",
                                 "Released"}]
  /\ poolStatus \in [Pools -> {"None", "Open", "Cleared", "Aborted"}]
  /\ members \in [Pools -> Seq(Mandates)]
  /\ memberCount \in [Pools -> 0..MaxPoolMembers]

TypeOK == RegistryTypeOK /\ TokenTypeOK

--------------------------------------------------------------------------------
\* State invariants.

\* A mandate never consumes more than the user signed for, an Active one has
\* budget left and an Exhausted one has none (payment::check and the capture
\* loop of clear_pool keep this between them).
BudgetKept ==
  \A m \in Mandates : Registered(m) =>
    /\ spent[m] \in 0..terms[m].maxAmount
    /\ status[m] = "Active" => spent[m] < terms[m].maxAmount
    /\ status[m] = "Exhausted" => spent[m] = terms[m].maxAmount

\* The two records of a membership agree: the pool's member list and count on
\* one side, the mandates' own pool_state on the other.  commit, evict, revoke
\* and clear each write both, and none may let them part.
MembershipAgrees ==
  /\ \A p \in Pools :
       /\ memberCount[p] = Len(members[p])
       /\ \A i, j \in DOMAIN members[p] :
            members[p][i] = members[p][j] => i = j
       /\ poolStatus[p] = "Open" =>
            \A i \in DOMAIN members[p] :
               /\ poolState[members[p][i]] = "Committed"
               /\ terms[members[p][i]].pool = p
  /\ \A m \in Mandates : poolState[m] = "Committed" =>
       /\ Registered(m)
       /\ terms[m].pool \in Pools
       /\ poolStatus[terms[m].pool] = "Open"
       /\ m \in MemberSet(terms[m].pool)

\* One allowance is counted at most once toward a pool's threshold: no user
\* has two committed mandates in one pool (commit_child's dedup).
OneSeatPerUser ==
  \A m, n \in Mandates :
    /\ poolState[m] = "Committed" /\ poolState[n] = "Committed"
    /\ terms[m].pool = terms[n].pool
    /\ terms[m].user = terms[n].user
    => m = n

\* Until the capture window closes, the only thing that can make a committed
\* member ineligible is its funding: status, expiry and budget were settled at
\* registration and commit, and nothing done since can undo them.
CommittedStaysFit ==
  \A m \in Mandates :
    (poolState[m] = "Committed" /\ now <= WindowEnd(terms[m].pool)) =>
      /\ status[m] = "Active"
      /\ now < terms[m].expiry
      /\ Room(m) >= MandateWorstCase(m)
      /\ terms[m].asset = PoolTerms[terms[m].pool].asset
      /\ terms[m].merchant = PoolTerms[terms[m].pool].merchant

\* The registry's books and the tokens' agree: for every asset, payer and
\* payee, what was ever drawn is the sum of `spent' over the mandates that
\* name them.
BooksMatchLedger ==
  \A a \in Assets, u \in Users, w \in Payees :
    drawn[a][u][w] =
      MapThenSumSet(LAMBDA m : spent[m],
        {m \in Mandates : /\ Registered(m)
                          /\ terms[m].asset = a
                          /\ terms[m].user = u
                          /\ terms[m].merchant = w})

\* A token that does not answer the probe has blocked none of these payers.
ProbedOrUnblocked(p, charged) ==
  \/ PoolTerms[p].asset \in ProbedAssets
  \/ \A m \in charged : authorized[PoolTerms[p].asset][terms[m].user]

\* No member can wedge a met pool whose token answers the probe: when the
\* auction fires, every leg is within its mandate's budget and all the transfers
\* go through together, whatever the members did to their allowances, balances
\* and other mandates and whomever the issuer froze.  What can still stop it is
\* the pause, a frozen merchant, a sequence number at u32::MAX and, where the
\* token has no `authorized' method (trustline_authorized then lets everybody
\* pass), a member to be charged whose account the token blocks.
MetPoolSettles ==
  \A p \in Pools :
    LET outcome == Outcome(p)
        charged == DOMAIN outcome.alloc
    IN  /\ poolStatus[p] = "Open"
        /\ Deadline(p) <= now
        /\ outcome.fires
        /\ authorized[PoolTerms[p].asset][PoolTerms[p].merchant]
        /\ ProbedOrUnblocked(p, charged)
        => /\ \A m \in charged : spent[m] + Leg(outcome, m) <= terms[m].maxAmount
           /\ CanSettle(CaptureBatch(p, outcome))

\* What the inductive invariant adds.  Terms on file passed their registration;
\* an id with no entry has no history; only pooled mandates were ever in a
\* pool; a committed one still has its worst case left.
TermsAccepted ==
  \A m \in Mandates : Registered(m) =>
    /\ terms[m].maxAmount > 0
    /\ terms[m].pool # NoPool =>
         /\ ValidSchedule(terms[m].schedule)
         /\ terms[m].asset = PoolTerms[terms[m].pool].asset
         /\ terms[m].merchant = PoolTerms[terms[m].pool].merchant
         /\ terms[m].expiry > WindowEnd(terms[m].pool)

EntriesCoherent ==
  \A m \in Mandates :
    IF Registered(m)
    THEN /\ status[m] # "None"
         /\ poolState[m] \in {"Committed", "Captured", "Released"} =>
              terms[m].pool \in Pools
         /\ poolState[m] = "Committed" =>
              status[m] = "Active" /\ Room(m) >= MandateWorstCase(m)
    ELSE /\ status[m] = "None" /\ poolState[m] = "None"
         /\ spent[m] = 0 /\ seq[m] = 0

FundsTypeOK ==
  /\ allowance \in [Assets -> [Users -> Nat]]
  /\ balance \in [Assets -> [Users -> Nat]]

\* The inductive invariant of the registry.
RegistryInv ==
  /\ RegistryTypeOK
  /\ FundsTypeOK
  /\ TermsAccepted
  /\ EntriesCoherent
  /\ BudgetKept
  /\ MembershipAgrees
  /\ OneSeatPerUser

--------------------------------------------------------------------------------
\* Action properties.

\* The children the auction counts, found from the mandates themselves rather
\* than from the pool's member list.
Bidders(p) ==
  [m \in {c \in Mandates : Registered(c) /\ terms[c].pool = p /\ IsEligible(c, p)}
     |-> terms[m].schedule]

ClearingPrices(p) ==
  FeasiblePrices(Bidders(p), PoolTerms[p].thresholdQty,
                 PoolTerms[p].thresholdValue, FeeBpsPinned)

Paid(m) == spent'[m] - spent[m]

\* What a closing step must do to be honest.
HonestClose ==
  \A p \in Pools : poolStatus[p] = "Open" =>
    /\ poolStatus'[p] = "Cleared" =>
         /\ now \in Deadline(p)..WindowEnd(p)
         /\ ClearingPrices(p) # {}
         /\ LET price == Min(ClearingPrices(p)) IN
            \A m \in Mandates :
              Paid(m) = IF m \in DOMAIN Bidders(p)
                        THEN price * Demand(Bidders(p)[m], price)
                        ELSE 0
    /\ poolStatus'[p] = "Aborted" =>
         /\ \/ now > WindowEnd(p)
            \/ now >= Deadline(p) /\ ClearingPrices(p) = {}
         /\ spent' = spent

\* The auction is honest: a pool clears only inside its window, at the globally
\* least price at which both thresholds are met, and charges every eligible
\* bidder exactly its demand at that one price and nobody else anything; it
\* aborts, charging nobody, only past the window or when no price works.
AuctionIsHonest == [][HonestClose]_vars

\* What a step must find, and do, to spend.
ConsentedSpend ==
  \A m \in Mandates :
    /\ Registered(m) => (Paid(m) # 0 <=> seq'[m] # seq[m])
    /\ Paid(m) # 0 =>
         /\ Paid(m) > 0 /\ seq'[m] = seq[m] + 1
         /\ ~paused /\ status[m] = "Active" /\ now < terms[m].expiry
         /\ \/ poolState[m] \in {"Unlinked", "Released"}
            \/ /\ poolState[m] = "Committed" /\ poolState'[m] = "Captured"
               /\ Paid(m) <= MandateWorstCase(m)

\* Nothing is spent without standing consent: the mandate is Active, unexpired
\* and the contract unpaused; a payment outside a pool finds the mandate free of
\* one, and a capture stays within what the schedule can cost.  Every spend
\* takes one sequence number, and no number is taken without one.
SpendNeedsConsent == [][ConsentedSpend]_vars

\* What a step must leave alone.
FinalStep ==
  /\ \A p \in Pools : poolStatus[p] \in {"Cleared", "Aborted"} =>
       /\ poolStatus'[p] = poolStatus[p]
       /\ members'[p] = members[p]
       /\ memberCount'[p] = memberCount[p]
  /\ \A m \in Mandates :
       /\ poolState[m] = "Captured" =>
            poolState'[m] = "Captured" /\ Paid(m) = 0
       /\ poolState[m] = "Released" => poolState'[m] = "Released"
       /\ status[m] = "Revoked" => status'[m] = "Revoked" /\ Paid(m) = 0
       /\ Registered(m) => terms'[m] = terms[m]

\* What is over stays over: a closed pool never changes again, a captured or
\* revoked mandate is never charged, revived or re-committed, and a member that
\* was released never goes back into a pool.
FinalityHolds == [][FinalStep]_vars

\* How a member may leave a pool that stays open.
FairExit ==
  \A p \in Pools, m \in Mandates :
    /\ poolStatus[p] = "Open" /\ poolStatus'[p] = "Open"
    /\ m \in MemberSet(p) /\ m \notin MemberSet(p)'
    => status'[m] = "Revoked" \/ ~IsEligible(m, p)

\* Eviction has no discretion: a member that leaves an open pool other than by
\* its own user's revocation could not have been captured at that moment.
OnlyIneligibleEvicted == [][FairExit]_vars

--------------------------------------------------------------------------------
\* Liveness.

\* No commitment is open-ended: a committed mandate is captured or released,
\* even if the contract stays paused, the merchant stays frozen and nobody
\* evicts or revokes.
EveryCommitmentResolves ==
  \A m \in Mandates :
    poolState[m] = "Committed" ~> poolState[m] \in {"Captured", "Released"}

\* The registry implements the plain promise of a mandate: pools, auctions,
\* eviction and the emergency stop are ways of charging and of not charging.
Ledger == INSTANCE MandateLedger WITH
  Grants <- MandateTerms, NoGrant <- NoTerms, LastInstant <- MaxTime,
  time <- now, grant <- terms, used <- spent,
  consent <- [m \in Mandates |-> status[m] # "Revoked"]

ImplementsMandateLedger == Ledger!Spec

--------------------------------------------------------------------------------
\* What the repository says and the code does not do.

\* A step that does not revoke a member once its deadline is reached.
BoundStep ==
  \A m \in Mandates :
    (poolState[m] = "Committed" /\ now >= Deadline(terms[m].pool))
    => ~(status[m] = "Active" /\ status'[m] = "Revoked")

\* "a commit stays revocable until the deadline" (pool.rs 12, 130; lib.rs 223):
\* from the deadline on, a member cannot leave by revocation.
CommitBindsFromDeadline == [][BoundStep]_vars

================================================================================
