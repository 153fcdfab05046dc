------------------------------ MODULE AdminPlane -------------------------------
(***************************************************************************)
(* The administration plane of the composites and simple registries        *)
(* (admin.rs, the same file but for the delay): authority rotation, the    *)
(* emergency stop and the delayed same-address WASM upgrade.               *)
(*                                                                         *)
(* The caller is part of every action here, since who may act changes:     *)
(* require_auth(get_admin()) is the conjunct caller = admin.  The WASM     *)
(* that runs is the host's state, changed by update_current_contract_wasm; *)
(* an upgrade keeps the contract's storage, and the model takes the new    *)
(* code to have the same administration plane.                             *)
(***************************************************************************)
EXTENDS Integers

CONSTANTS Addresses,      \* who may be, or become, the administrator
          WasmHashes,     \* uploaded executables
          NoUpgrade,
          UpgradeDelay,   \* UPGRADE_DELAY_SECONDS: 86_400, simple 3_600
          MaxTimestamp,   \* u64::MAX, where saturating_add stops
          MaxTime         \* bound on ledger time, for TLC

ASSUME AdminConstants ==
  /\ NoUpgrade \notin [wasmHash : WasmHashes, executeAfter : Nat]
  /\ UpgradeDelay \in Nat
  /\ MaxTimestamp \in Nat /\ MaxTime \in 0..MaxTimestamp

VARIABLES now,
          admin,      \* DataKey::Admin
          paused,     \* DataKey::Paused
          pending,    \* DataKey::PendingUpgrade
          code,       \* hash of the executable the contract runs
          notice      \* for how long `pending' has been what it is: not in the
                      \* contract, it measures what an observer gets to see

vars == <<now, admin, paused, pending, code, notice>>

SaturatingAdd(a, b) == IF a + b > MaxTimestamp THEN MaxTimestamp ELSE a + b

Init ==
  /\ now = 0
  /\ admin \in Addresses
  /\ paused = FALSE
  /\ pending = NoUpgrade
  /\ code \in WasmHashes
  /\ notice = 0

SetAdmin(caller, newAdmin) ==
  /\ caller = admin
  /\ admin' = newAdmin
  /\ UNCHANGED <<now, paused, pending, code, notice>>

Pause(caller) ==
  /\ caller = admin
  /\ paused' = TRUE
  /\ UNCHANGED <<now, admin, pending, code, notice>>

Unpause(caller) ==
  /\ caller = admin
  /\ paused' = FALSE
  /\ UNCHANGED <<now, admin, pending, code, notice>>

\* Mutant: a new hash takes over the time slot of the one already scheduled.
ScheduleUpgradeOver(caller, wasmHash) ==
  /\ caller = admin
  /\ pending' = [wasmHash |-> wasmHash,
                 executeAfter |-> IF pending = NoUpgrade
                                  THEN SaturatingAdd(now, UpgradeDelay)
                                  ELSE pending.executeAfter]
  /\ notice' = 0
  /\ UNCHANGED <<now, admin, paused, code>>

ScheduleUpgrade(caller, wasmHash) ==
  /\ caller = admin
  /\ pending = NoUpgrade
  /\ pending' = [wasmHash |-> wasmHash,
                 executeAfter |-> SaturatingAdd(now, UpgradeDelay)]
  /\ notice' = 0
  /\ UNCHANGED <<now, admin, paused, code>>

CancelUpgrade(caller) ==
  /\ caller = admin
  /\ pending # NoUpgrade
  /\ pending' = NoUpgrade
  /\ notice' = 0
  /\ UNCHANGED <<now, admin, paused, code>>

ExecuteUpgrade(caller) ==
  /\ caller = admin
  /\ pending # NoUpgrade
  /\ now >= pending.executeAfter
  /\ paused
  /\ pending' = NoUpgrade
  /\ code' = pending.wasmHash
  /\ notice' = 0
  /\ UNCHANGED <<now, admin, paused>>

Tick ==
  /\ now < MaxTime
  /\ now' = now + 1
  /\ notice' = IF pending = NoUpgrade THEN 0 ELSE notice + 1
  /\ UNCHANGED <<admin, paused, pending, code>>

Next ==
  \/ \E caller \in Addresses :
       \/ \E newAdmin \in Addresses : SetAdmin(caller, newAdmin)
       \/ Pause(caller)
       \/ Unpause(caller)
       \/ \E wasmHash \in WasmHashes : ScheduleUpgrade(caller, wasmHash)
       \/ CancelUpgrade(caller)
       \/ ExecuteUpgrade(caller)
  \/ Tick

Spec == Init /\ [][Next]_vars

--------------------------------------------------------------------------------

TypeOK ==
  /\ now \in 0..MaxTime
  /\ admin \in Addresses
  /\ paused \in BOOLEAN
  /\ pending \in [wasmHash : WasmHashes, executeAfter : 0..MaxTimestamp]
                   \union {NoUpgrade}
  /\ code \in WasmHashes
  /\ notice \in 0..MaxTime

\* What a step must find to put new code in charge.
NoticedUpgrade ==
  code' # code =>
    /\ pending # NoUpgrade /\ code' = pending.wasmHash
    /\ paused /\ paused'
    /\ notice >= UpgradeDelay \/ pending.executeAfter = MaxTimestamp

\* New code runs only after its own hash has stood in public view, unreplaced,
\* for the whole delay, and only while payments are stopped; cancelling,
\* rescheduling and rotating the administrator never shorten the notice.  (The
\* end of u64 time is the exception: there saturating_add cuts the delay.)
UpgradeHasFullNotice == [][NoticedUpgrade]_vars

\* What makes it so (the inductive invariant): the waiting time left and the
\* notice given add up, and no notice is older than the ledger.
NoticeCountsDown ==
  /\ TypeOK
  /\ notice <= now
  /\ pending # NoUpgrade =>
       \/ pending.executeAfter = MaxTimestamp
       \/ now - notice + UpgradeDelay = pending.executeAfter

================================================================================
