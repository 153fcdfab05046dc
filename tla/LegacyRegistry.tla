---------------------------- MODULE LegacyRegistry ----------------------------
(***************************************************************************)
(* The legacy protocol registry: the composites registry before it had an  *)
(* administrator.  It has no constructor, no upgrade and no emergency      *)
(* stop; everything else is the composites code line for line, so its      *)
(* handlers are given by the composites operators, and the two that read   *)
(* the stop there are given here without it.  `paused' is no state of this *)
(* contract: it stays FALSE, for the composites specification to be what   *)
(* this one implements.                                                    *)
(***************************************************************************)
EXTENDS EntryLifetimes

--------------------------------------------------------------------------------
\* Registration, membership, revocation (registry.rs, pool.rs).

LegacyRegisterPool(p) == RegisterPool(p) /\ RegisterPoolLives(p)

\* Mutant: a vc_hash already on file is registered over.
LegacyRegisterOver(m, t) == RegisterMandateOver(m, t) /\ RegisterMandateLives(m, t)

LegacyRegisterMandate(m, t) == RegisterMandate(m, t) /\ RegisterMandateLives(m, t)

LegacyCommitChild(m) == CommitChild(m) /\ CommitChildLives(m)

LegacyEvictChild(p, m) == EvictChild(p, m) /\ EvictChildLives(p, m)

LegacyRevokeMandate(m) == RevokeMandate(m) /\ RevokeMandateLives(m)

--------------------------------------------------------------------------------
\* The auction (clearing.rs, pool.rs).

LegacyClear(kids, thresholdQty, thresholdValue, feeBps) ==
  Clear(kids, thresholdQty, thresholdValue, feeBps)

\* Mutant: the views hold every committed member, funded or not.
LegacyViewsUnfiltered(p) == [m \in Committed(p) |-> terms[m].schedule]

\* is_eligible and build_child_views: the schedules of the members that could
\* be captured in this ledger.
LegacyViews(p) == EligibleSchedules(p)

LegacyOutcome(p) ==
  IF now <= WindowEnd(p)
  THEN LegacyClear(LegacyViews(p), PoolTerms[p].thresholdQty,
                   PoolTerms[p].thresholdValue, FeeBpsPinned)
  ELSE NoFire

\* No stop to read: an outcome that fires is settled.
LegacyClose(p, outcome) ==
  /\ poolStatus[p] = "Open"
  /\ now >= Deadline(p)
  /\ IF outcome.fires THEN CaptureLegs(p, outcome) ELSE Abort(p)
  /\ UNCHANGED <<now, paused, terms, members, memberCount>>
  /\ ClearPoolLives(p)

LegacyClearPool(p) == LegacyClose(p, LegacyOutcome(p))

--------------------------------------------------------------------------------
\* Solo payments (payment.rs).

LegacyCheck(m, amount) == Check(m, amount)

LegacyExecutePayment(m, amount, expectedSeq) ==
  /\ Registered(m)
  /\ expectedSeq = seq[m]
  /\ LegacyCheck(m, amount)
  /\ seq[m] < MaxSeq
  /\ Pay(m, amount)
  /\ ExecutePaymentLives(m)

--------------------------------------------------------------------------------
LegacyNext ==
  \/ \E p \in Pools : LegacyRegisterPool(p)
  \/ \E m \in Mandates, t \in MandateTerms : LegacyRegisterMandate(m, t)
  \/ \E m \in Mandates : LegacyCommitChild(m)
  \/ \E p \in Pools, m \in Mandates : LegacyEvictChild(p, m)
  \/ \E m \in Mandates : LegacyRevokeMandate(m)
  \/ \E p \in Pools : LegacyClearPool(p)
  \/ \E m \in Mandates, amount \in PaymentAmounts, n \in 0..MaxSeq :
        LegacyExecutePayment(m, amount, n)
  \/ TokenStep /\ UntouchedLives
  \/ Restore
  \/ Second

LegacySpec == StoredInit /\ [][LegacyNext]_storedVars

--------------------------------------------------------------------------------
\* Whatever the legacy registry does, the composites registry may do: every
\* promise of the latter holds of the former (the two share their handlers, and
\* the stop the composites contract added only ever refuses).
ImplementsComposites == Spec

\* A close captures, unless the merchant is frozen, a charged mandate has used
\* up its sequence numbers or, of a token that does not answer the probe, a
\* charged member is blocked: eligible, and its transfer reverts.
CanCapture(p, outcome) ==
  /\ outcome.fires
  /\ authorized[PoolTerms[p].asset][PoolTerms[p].merchant]
  /\ \A m \in DOMAIN outcome.alloc : seq[m] < MaxSeq
  /\ ProbedOrUnblocked(p, DOMAIN outcome.alloc)

\* Nothing and nobody can hold an open pool up while its window lasts: in every
\* ledger its members can be revoked ("Never blockable", registry.rs); from the
\* deadline on it can be closed, and if its auction is met it is captured, but for
\* what CanCapture leaves out.  This is where funds, books and entry lifetimes
\* meet: a leg that reverts, a budget that does not fit or an archived entry would
\* each break it.
OpenPoolsStayUsable ==
  \A p \in Pools :
    poolStatus[p] = "Open" /\ now <= WindowEnd(p) /\ age = 0 =>
      /\ \A m \in MemberSet(p) : ENABLED LegacyRevokeMandate(m)
      /\ now >= Deadline(p) =>
           \E outcome \in {LegacyOutcome(p)} :
             CanCapture(p, outcome) \/ ~outcome.fires =>
               ENABLED LegacyClose(p, outcome)

================================================================================
