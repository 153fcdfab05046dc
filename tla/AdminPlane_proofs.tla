--------------------------- MODULE AdminPlane_proofs ---------------------------
(***************************************************************************)
(* No upgrade without its full notice, for every delay and every set of    *)
(* administrators and executables.                                         *)
(***************************************************************************)
EXTENDS AdminPlane, TLAPS

LEMMA SaturatingAddBounded ==
  ASSUME NEW a \in 0..MaxTime
  PROVE  /\ SaturatingAdd(a, UpgradeDelay) \in 0..MaxTimestamp
         /\ \/ SaturatingAdd(a, UpgradeDelay) = MaxTimestamp
            \/ SaturatingAdd(a, UpgradeDelay) = a + UpgradeDelay
  BY AdminConstants DEF SaturatingAdd

\* A proposal is a record, and the absence of one is not.
LEMMA ProposalIsNotNone ==
  ASSUME NEW h \in WasmHashes, NEW t \in 0..MaxTimestamp
  PROVE  [wasmHash |-> h, executeAfter |-> t] # NoUpgrade
  BY AdminConstants

LEMMA NoticeInit == Init => NoticeCountsDown
  <1> SUFFICES ASSUME Init PROVE NoticeCountsDown
    OBVIOUS
  <1>1. 0 \in 0..MaxTime
    BY AdminConstants
  <1>2. TypeOK
    BY <1>1 DEF Init, TypeOK
  <1> QED BY <1>2 DEF Init, NoticeCountsDown

LEMMA ScheduleKeepsNotice ==
  ASSUME NoticeCountsDown, NEW caller \in Addresses, NEW h \in WasmHashes,
         ScheduleUpgrade(caller, h)
  PROVE  NoticeCountsDown'
  <1>1. now \in 0..MaxTime
    BY DEF NoticeCountsDown, TypeOK
  <1> DEFINE ready == SaturatingAdd(now, UpgradeDelay)
  <1>2. ready \in 0..MaxTimestamp /\ (ready = MaxTimestamp \/ ready = now + UpgradeDelay)
    BY <1>1, SaturatingAddBounded
  <1>3. /\ pending' = [wasmHash |-> h, executeAfter |-> ready] /\ notice' = 0
        /\ UNCHANGED <<now, admin, paused, code>>
    BY DEF ScheduleUpgrade
  <1> HIDE DEF ready
  <1>4. TypeOK'
    BY <1>1, <1>2, <1>3, AdminConstants DEF NoticeCountsDown, TypeOK
  <1>5. notice' <= now' /\ pending'.executeAfter = ready
    BY <1>1, <1>3
  <1>6. ready = MaxTimestamp \/ now' - notice' + UpgradeDelay = ready
    BY <1>1, <1>2, <1>3, AdminConstants
  <1> QED BY <1>4, <1>5, <1>6 DEF NoticeCountsDown

LEMMA TickKeepsNotice == NoticeCountsDown /\ Tick => NoticeCountsDown'
  <1> SUFFICES ASSUME NoticeCountsDown, Tick PROVE NoticeCountsDown'
    OBVIOUS
  <1>1. /\ now \in Nat /\ notice \in Nat /\ notice <= now /\ now < MaxTime
        /\ MaxTime \in Nat /\ UpgradeDelay \in Nat
    BY AdminConstants DEF NoticeCountsDown, TypeOK, Tick
  <1>2. /\ now' = now + 1 /\ UNCHANGED <<admin, paused, pending, code>>
        /\ notice' = IF pending = NoUpgrade THEN 0 ELSE notice + 1
    BY DEF Tick
  <1>3. TypeOK' /\ notice' <= now'
    BY <1>1, <1>2 DEF NoticeCountsDown, TypeOK
  <1>4. pending # NoUpgrade =>
          \/ pending.executeAfter = MaxTimestamp
          \/ now' - notice' + UpgradeDelay = pending.executeAfter
    <2>1. pending # NoUpgrade => now' - notice' = now - notice
      BY <1>1, <1>2
    <2> QED BY <2>1 DEF NoticeCountsDown
  <1> QED BY <1>2, <1>3, <1>4 DEF NoticeCountsDown

\* An upgrade's waiting time is exactly the notice it has not had yet.
THEOREM NoticeInvariant == Spec => []NoticeCountsDown
  <1>1. NoticeCountsDown /\ [Next]_vars => NoticeCountsDown'
    <2> SUFFICES ASSUME NoticeCountsDown, [Next]_vars PROVE NoticeCountsDown'
      OBVIOUS
    <2> USE DEF NoticeCountsDown, TypeOK
    <2>1. CASE UNCHANGED vars
      BY <2>1 DEF vars
    <2>2. ASSUME NEW caller \in Addresses, NEW newAdmin \in Addresses,
                 SetAdmin(caller, newAdmin)
          PROVE  NoticeCountsDown'
      BY <2>2 DEF SetAdmin
    <2>3. ASSUME NEW caller \in Addresses, Pause(caller) \/ Unpause(caller)
          PROVE  NoticeCountsDown'
      BY <2>3 DEF Pause, Unpause
    <2>4. ASSUME NEW caller \in Addresses, CancelUpgrade(caller)
          PROVE  NoticeCountsDown'
      BY <2>4, AdminConstants DEF CancelUpgrade
    <2>5. ASSUME NEW caller \in Addresses, ExecuteUpgrade(caller)
          PROVE  NoticeCountsDown'
      <3>1. pending.wasmHash \in WasmHashes
        BY <2>5 DEF ExecuteUpgrade
      <3> QED BY <2>5, <3>1, AdminConstants DEF ExecuteUpgrade
    <2> HIDE DEF NoticeCountsDown, TypeOK
    <2> QED BY <2>1, <2>2, <2>3, <2>4, <2>5, ScheduleKeepsNotice, TickKeepsNotice
            DEF Next
  <1> QED BY NoticeInit, <1>1, PTL DEF Spec

\* New code runs only after its own hash stood unreplaced for the whole delay
\* (admin.rs, schedule_upgrade and execute_upgrade), and only when paused.
THEOREM UpgradesAreNoticed == Spec => UpgradeHasFullNotice
  <1>1. NoticeCountsDown /\ [Next]_vars => [NoticedUpgrade]_vars
    <2> SUFFICES ASSUME NoticeCountsDown, Next, code' # code PROVE NoticedUpgrade
      BY DEF NoticedUpgrade
    <2>1. PICK caller \in Addresses : ExecuteUpgrade(caller)
      BY DEF Next, SetAdmin, Pause, Unpause, ScheduleUpgrade, CancelUpgrade, Tick
    <2>2. /\ pending # NoUpgrade /\ code' = pending.wasmHash
          /\ paused /\ paused' = paused /\ now >= pending.executeAfter
      BY <2>1 DEF ExecuteUpgrade
    <2>3. CASE pending.executeAfter = MaxTimestamp
      BY <2>2, <2>3 DEF NoticedUpgrade
    <2>4. CASE now - notice + UpgradeDelay = pending.executeAfter
      <3>1. now \in Nat /\ notice \in Nat /\ UpgradeDelay \in Nat
        BY AdminConstants DEF NoticeCountsDown, TypeOK
      <3>2. notice >= UpgradeDelay
        BY <2>2, <2>4, <3>1
      <3> QED BY <2>2, <3>2 DEF NoticedUpgrade
    <2> QED BY <2>2, <2>3, <2>4 DEF NoticeCountsDown
  <1> QED BY <1>1, NoticeInvariant, PTL DEF Spec, UpgradeHasFullNotice

================================================================================
