---------------------------- MODULE EntryLifetimes ----------------------------
(***************************************************************************)
(* The composites registry on a ledger that archives what nobody touches   *)
(* (composites storage.rs).  A persistent entry lives until a ledger       *)
(* number; its handlers extend it when they write it, by an estimate of    *)
(* how many ledgers a number of seconds will take.  Once that ledger is    *)
(* past, the entry is archived: it keeps its content, and a transaction    *)
(* that touches it fails until somebody restores it.                       *)
(*                                                                         *)
(* Seconds pass (Tick); ledgers close, no faster than one in MinPace       *)
(* seconds, and transactions run in the second in which one closed.        *)
(***************************************************************************)
EXTENDS CompositeProperties

CONSTANTS
  SecsPerLedger,  \* SECS_PER_LEDGER (5): what the code takes a ledger to last
  TtlThreshold,   \* TTL_THRESHOLD (17_280 ledgers)
  TtlExtend,      \* TTL_EXTEND (30 * 17_280 ledgers)
  MinTtl,         \* the network's lifetime of a new or a restored entry
  MinPace         \* the least number of seconds a ledger really lasts

VARIABLES
  ledger,       \* sequence number of the last closed ledger
  age,          \* seconds since it closed
  mandateLife,  \* last ledger of each Mandate entry's life; 0 = no entry
  poolLife,     \* of each Pool entry
  membersLife   \* of each PoolMembers entry

lives == <<mandateLife, poolLife, membersLife>>
storedVars == <<vars, ledger, age, lives>>

\* extend_to_horizon's count: twice the estimate, never below the standard
\* extension.  The horizon of a pool is at most MaxPoolHorizon, far from u32.
HorizonLedgers(secs) ==
  LET needed == (secs \div SecsPerLedger) * 2
  IN  IF needed >= TtlExtend THEN needed ELSE TtlExtend

\* The pace at which the code's estimate is enough.  With 5 seconds per ledger,
\* 30 days and MAX_POOL_HORIZON_SECS it holds down to 3 seconds a ledger.
ASSUME LifetimeConstants ==
  /\ SecsPerLedger \in Nat \ {0} /\ TtlThreshold \in Nat /\ TtlExtend \in Nat
  /\ MinTtl \in Nat \ {0} /\ MinPace \in Nat \ {0}
  /\ \A h \in 0..MaxPoolHorizon : MinPace * (HorizonLedgers(h) + 1) > h

StoredInit ==
  /\ Init
  /\ ledger = 1 /\ age = 0
  /\ mandateLife = [m \in Mandates |-> 0]
  /\ poolLife = [p \in Pools |-> 0]
  /\ membersLife = [p \in Pools |-> 0]

Archived(life) == life # 0 /\ life < ledger
FreshLife == ledger + MinTtl - 1

\* The host's extend_ttl: nothing happens while more than `threshold' is left.
Extended(life, threshold, extendTo) ==
  IF life - ledger <= threshold /\ life < ledger + extendTo
  THEN ledger + extendTo ELSE life

\* set_mandate, set_pool and set_pool_members.
Stored(life) ==
  Extended(IF life = 0 THEN FreshLife ELSE life, TtlThreshold, TtlExtend)

ToHorizon(life, secs) == Extended(life, HorizonLedgers(secs), HorizonLedgers(secs))

Remaining(p) == IF now <= WindowEnd(p) THEN WindowEnd(p) - now ELSE 0

\* Mutant: entries written for a pool get the standard extension only.
StoredNoHorizon(life, secs) == Stored(life)

\* A write followed by a bump to the pool's horizon.
StoredFor(life, secs) == ToHorizon(Stored(life), secs)

\* set_pool, set_pool_members and bump_pool_horizon.
TouchPool(p, secs) ==
  /\ poolLife' = [poolLife EXCEPT ![p] = StoredFor(@, secs)]
  /\ membersLife' = [membersLife EXCEPT ![p] = StoredFor(@, secs)]

TouchMandate(m) == mandateLife' = [mandateLife EXCEPT ![m] = Stored(@)]

TouchMember(m, secs) ==
  mandateLife' = [mandateLife EXCEPT ![m] = StoredFor(@, secs)]

InLedger == age = 0 /\ UNCHANGED <<ledger, age>>
PoolAtHand(p) == ~Archived(poolLife[p]) /\ ~Archived(membersLife[p])
MandateAtHand(m) == ~Archived(mandateLife[m])
MembersAtHand(p) == \A m \in MemberSet(p) : MandateAtHand(m)

--------------------------------------------------------------------------------
\* What each handler needs at hand and what it does to the entries' lives.

RegisterPoolLives(p) ==
  InLedger /\ TouchPool(p, WindowEnd(p) - now) /\ UNCHANGED mandateLife

RegisterMandateLives(m, t) ==
  /\ InLedger
  /\ t.pool # NoPool => ~Archived(poolLife[t.pool])
  /\ TouchMandate(m) /\ UNCHANGED <<poolLife, membersLife>>

CommitChildLives(m) ==
  LET p == terms[m].pool IN
  /\ InLedger /\ MandateAtHand(m)
  /\ p # NoPool => /\ PoolAtHand(p) /\ MembersAtHand(p)
                   /\ TouchPool(p, WindowEnd(p) - now)
                   /\ TouchMember(m, WindowEnd(p) - now)

EvictChildLives(p, m) ==
  /\ InLedger /\ PoolAtHand(p) /\ MandateAtHand(m)
  /\ TouchPool(p, Remaining(p)) /\ TouchMember(m, Remaining(p))

\* The mandate alone, or with the open pool it is a committed member of.
RevokeMandateLives(m) ==
  LET p == terms[m].pool IN
  /\ InLedger /\ MandateAtHand(m)
  /\ \/ /\ poolState[m] = "Committed" /\ p # NoPool
        /\ PoolAtHand(p)
        /\ TouchPool(p, Remaining(p)) /\ TouchMember(m, Remaining(p))
     \/ /\ poolState[m] # "Committed" \/ p = NoPool
        /\ TouchMandate(m) /\ UNCHANGED <<poolLife, membersLife>>

\* A closed pool is kept for the standard extension.
ClearPoolLives(p) ==
  /\ InLedger /\ PoolAtHand(p) /\ MembersAtHand(p)
  /\ poolLife' = [poolLife EXCEPT ![p] = StoredFor(@, 0)]
  /\ membersLife' = [membersLife EXCEPT ![p] = ToHorizon(@, 0)]
  /\ mandateLife' = [m \in Mandates |->
                       IF m \in Committed(p) THEN Stored(mandateLife[m])
                                             ELSE mandateLife[m]]

ExecutePaymentLives(m) ==
  /\ InLedger /\ MandateAtHand(m)
  /\ TouchMandate(m) /\ UNCHANGED <<poolLife, membersLife>>

UntouchedLives == InLedger /\ UNCHANGED lives

\* Somebody restores an archived entry.
Restore ==
  /\ InLedger /\ UNCHANGED vars
  /\ \/ /\ \E m \in Mandates : /\ Archived(mandateLife[m])
                               /\ mandateLife' = [mandateLife EXCEPT ![m] = FreshLife]
        /\ UNCHANGED <<poolLife, membersLife>>
     \/ /\ \E p \in Pools : /\ Archived(poolLife[p])
                            /\ poolLife' = [poolLife EXCEPT ![p] = FreshLife]
        /\ UNCHANGED <<mandateLife, membersLife>>
     \/ /\ \E p \in Pools : /\ Archived(membersLife[p])
                            /\ membersLife' = [membersLife EXCEPT ![p] = FreshLife]
        /\ UNCHANGED <<mandateLife, poolLife>>

\* A second passes, in which a ledger may close.
Second ==
  /\ Tick /\ UNCHANGED lives
  /\ \/ age' = age + 1 /\ UNCHANGED ledger
     \/ age + 1 >= MinPace /\ age' = 0 /\ ledger' = ledger + 1

StoredNext ==
  \/ \E p \in Pools : RegisterPool(p) /\ RegisterPoolLives(p)
  \/ \E m \in Mandates, t \in MandateTerms :
        RegisterMandate(m, t) /\ RegisterMandateLives(m, t)
  \/ \E m \in Mandates : CommitChild(m) /\ CommitChildLives(m)
  \/ \E p \in Pools, m \in Mandates : EvictChild(p, m) /\ EvictChildLives(p, m)
  \/ \E m \in Mandates : RevokeMandate(m) /\ RevokeMandateLives(m)
  \/ \E p \in Pools : ClearPool(p) /\ ClearPoolLives(p)
  \/ \E m \in Mandates, amount \in PaymentAmounts, n \in 0..MaxSeq :
        ExecutePayment(m, amount, n) /\ ExecutePaymentLives(m)
  \/ (Pause \/ Unpause \/ TokenStep) /\ UntouchedLives
  \/ Restore
  \/ Second

StoredSpec == StoredInit /\ [][StoredNext]_storedVars

--------------------------------------------------------------------------------
\* Lives are ledger numbers; an entry has one exactly when it is on file.
LivesTypeOK ==
  /\ ledger \in Nat \ {0} /\ age \in Nat
  /\ mandateLife \in [Mandates -> Nat]
  /\ poolLife \in [Pools -> Nat]
  /\ membersLife \in [Pools -> Nat]
  /\ \A m \in Mandates : Registered(m) <=> mandateLife[m] # 0
  /\ \A p \in Pools : /\ poolStatus[p] # "None" <=> poolLife[p] # 0
                      /\ poolStatus[p] # "None" <=> membersLife[p] # 0

\* "a pool can never be archived inside its own live window" (storage.rs,
\* extend_to_horizon): until an open pool's capture window is over, the pool,
\* its member list and every member's mandate are live, however the handlers
\* that touched them were interleaved.
OpenPoolsLive ==
  \A p \in Pools :
    poolStatus[p] = "Open" /\ now <= WindowEnd(p) =>
      PoolAtHand(p) /\ MembersAtHand(p)

\* Why: at the fastest pace of ledgers allowed for, what is left of an entry's
\* life outlasts what is left of the window.
Outlasts(life, p) ==
  life # 0 /\ MinPace * (life + 1 - ledger) > WindowEnd(p) - now + age

LifetimeInv ==
  /\ LivesTypeOK
  /\ \A p \in Pools : poolStatus[p] = "Open" =>
       /\ WindowEnd(p) - now <= MaxPoolHorizon
       /\ Outlasts(poolLife[p], p)
       /\ Outlasts(membersLife[p], p)
       /\ \A m \in Mandates :
            (poolState[m] = "Committed" /\ terms[m].pool = p) =>
               Outlasts(mandateLife[m], p)

================================================================================
