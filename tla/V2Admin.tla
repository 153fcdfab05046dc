-------------------------------- MODULE V2Admin ---------------------------------
(***************************************************************************)
(* The administration plane of the Mainnet V2 registry: the two-step       *)
(* handoff of authority, the emergency stop, the asset allow list and the  *)
(* same-address upgrade.  It is the part of the registry that a timelock   *)
(* controller calls into, so it is a module of its own.                    *)
(*                                                                         *)
(* `caller' is whoever authorised the call; require_admin is the conjunct  *)
(* caller = admin.  An upgrade keeps the contract's storage, and the model *)
(* takes the new code to have the same entry points.                       *)
(***************************************************************************)

CONSTANTS Principals,     \* addresses that can authorise a call
          Listable,       \* token contracts that may be put on the allow list
          WasmHashes,     \* uploaded executables
          Nobody          \* the absent pending administrator

ASSUME AdminConstants == Nobody \notin Principals

VARIABLES admin,          \* DataKey::Admin
          pendingAdmin,   \* DataKey::PendingAdmin
          paused,         \* DataKey::Paused
          allowed,        \* the assets with a DataKey::AllowedAsset entry
          code            \* hash of the executable the contract runs

adminVars == <<admin, pendingAdmin, paused, allowed, code>>

AdminTypeOK ==
  /\ admin \in Principals
  /\ pendingAdmin \in Principals \union {Nobody}
  /\ paused \in BOOLEAN
  /\ allowed \subseteq Listable
  /\ code \in WasmHashes

AdminInit ==
  /\ admin \in Principals
  /\ pendingAdmin = Nobody
  /\ paused = FALSE
  /\ \E initialAsset \in Listable : allowed = {initialAsset}
  /\ code \in WasmHashes

\* A later proposal replaces an earlier one that nobody has accepted.
ProposeAdmin(caller, newAdmin) ==
  /\ caller = admin
  /\ pendingAdmin' = newAdmin
  /\ UNCHANGED <<admin, paused, allowed, code>>

\* Mutant: the nomination is left in place.
AcceptAdminAgain(caller) ==
  /\ pendingAdmin # Nobody
  /\ caller = pendingAdmin
  /\ admin' = pendingAdmin
  /\ UNCHANGED <<pendingAdmin, paused, allowed, code>>

AcceptAdmin(caller) ==
  /\ pendingAdmin # Nobody
  /\ caller = pendingAdmin
  /\ admin' = pendingAdmin
  /\ pendingAdmin' = Nobody
  /\ UNCHANGED <<paused, allowed, code>>

Pause(caller) ==
  /\ caller = admin
  /\ paused' = TRUE
  /\ UNCHANGED <<admin, pendingAdmin, allowed, code>>

Unpause(caller) ==
  /\ caller = admin
  /\ paused' = FALSE
  /\ UNCHANGED <<admin, pendingAdmin, allowed, code>>

SetAssetAllowed(caller, asset, permit) ==
  /\ caller = admin
  /\ paused
  /\ allowed' = IF permit THEN allowed \union {asset} ELSE allowed \ {asset}
  /\ UNCHANGED <<admin, pendingAdmin, paused, code>>

Upgrade(caller, newWasmHash) ==
  /\ caller = admin
  /\ paused
  /\ code' = newWasmHash
  /\ UNCHANGED <<admin, pendingAdmin, paused, allowed>>

\* What a principal can do by calling the registry itself.
AdminStep(caller) ==
  \/ \E newAdmin \in Principals : ProposeAdmin(caller, newAdmin)
  \/ AcceptAdmin(caller)
  \/ Pause(caller)
  \/ Unpause(caller)
  \/ \E asset \in Listable, permit \in BOOLEAN : SetAssetAllowed(caller, asset, permit)
  \/ \E newWasmHash \in WasmHashes : Upgrade(caller, newWasmHash)

================================================================================
