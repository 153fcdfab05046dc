--------------------------- MODULE TimelockController ---------------------------
(***************************************************************************)
(* Timelock controllers over one managed V2 registry.  A controller is     *)
(* deployed, its governance may be handed over until it adopts the target, *)
(* it adopts the target by accepting the administrator's role, and from    *)
(* then on everything but the emergency stop goes through a delay.  An     *)
(* adopted controller is replaced by a fresh one that it nominates, so     *)
(* several controllers live side by side.                                  *)
(*                                                                         *)
(* Classic accounts sign whatever they like; a controller authorises only  *)
(* the calls it makes to the target itself, as the direct invoker.  The    *)
(* call into the target is part of the action: if the target refuses, the  *)
(* whole transaction is reverted and the operation stays as it was.        *)
(*                                                                         *)
(* The stored ready ledger of an operation is a number, as in the library: *)
(* 0 when the operation is not set, 1 when it is done, otherwise the       *)
(* ledger from which it is ready.                                          *)
(***************************************************************************)
EXTENDS V2Admin, Integers

CONSTANTS Controllers,    \* addresses of controller contracts
          Accounts,       \* classic accounts (Ed25519 payload)
          Operations,     \* operation ids: hashes of action, predecessor, salt
          ActionOf,       \* [Operations -> action]
          PredecessorOf,  \* [Operations -> Operations \union {NoOperation}]
          NoOperation,    \* the all-zero predecessor
          Delay,          \* Config.delay, in ledgers
          MaxSequence,    \* u32::MAX
          MaxLedger       \* bound on the ledger sequence, for TLC

Actions ==
  [kind : {"Upgrade"}, hash : WasmHashes]
    \union [kind : {"Unpause"}]
    \union [kind : {"AssetPolicy"}, asset : Listable, permit : BOOLEAN]
    \union [kind : {"TransferAdmin"}, newAdmin : Principals]

ASSUME ControllerConstants ==
  /\ Principals = Controllers \union Accounts
  /\ Controllers \intersect Accounts = {}
  /\ ActionOf \in [Operations -> Actions]
  /\ PredecessorOf \in [Operations -> Operations \union {NoOperation}]
  /\ NoOperation \notin Operations
  /\ Delay \in Nat \ {0}
  /\ MaxSequence \in Nat /\ MaxLedger \in 0..MaxSequence

VARIABLES ledger,             \* sequence number of the ledger
          deployed,           \* [Controllers -> BOOLEAN]
          governance,         \* Config.governance
          initialAdmin,       \* Config.initial_admin
          pendingGovernance,  \* "pending"
          adopted,            \* "adopted"
          readyLedger,        \* TimelockStorageKey::OperationLedger
          announced           \* ledger of the schedule call that stands, -1 when
                              \* none does: what an observer has seen, not stored

controllerVars == <<deployed, governance, initialAdmin, pendingGovernance, adopted>>
operationVars == <<readyLedger, announced>>
vars == <<adminVars, ledger, controllerVars, operationVars>>

UnsetLedger == 0
DoneLedger == 1
Pending(c, op) == readyLedger[c][op] \notin {UnsetLedger, DoneLedger}
Done(c, op) == readyLedger[c][op] = DoneLedger

Init ==
  /\ AdminInit /\ admin \in Accounts
  /\ ledger = 0
  /\ deployed = [c \in Controllers |-> FALSE]
  /\ governance = [c \in Controllers |-> Nobody]
  /\ initialAdmin = [c \in Controllers |-> Nobody]
  /\ pendingGovernance = [c \in Controllers |-> Nobody]
  /\ adopted = [c \in Controllers |-> FALSE]
  /\ readyLedger = [c \in Controllers |-> [op \in Operations |-> UnsetLedger]]
  /\ announced = [c \in Controllers |-> [op \in Operations |-> -1]]

--------------------------------------------------------------------------------
\* Deployment and adoption.

\* The constructor; anybody may deploy a controller for the target.
Deploy(c, governor) ==
  /\ ~deployed[c]
  /\ deployed' = [deployed EXCEPT ![c] = TRUE]
  /\ governance' = [governance EXCEPT ![c] = governor]
  /\ initialAdmin' = [initialAdmin EXCEPT ![c] = admin]
  /\ UNCHANGED <<adminVars, ledger, pendingGovernance, adopted, operationVars>>

Bootstrap(c) ==
  /\ deployed[c]
  /\ ~adopted[c]
  /\ admin = initialAdmin[c]
  /\ pendingAdmin = Nobody

ProposeGovernance(c, successor) ==
  /\ Bootstrap(c)
  /\ successor # governance[c]
  /\ pendingGovernance' = [pendingGovernance EXCEPT ![c] = successor]
  /\ UNCHANGED <<adminVars, ledger, deployed, governance, initialAdmin, adopted,
                 operationVars>>

AcceptGovernance(c) ==
  /\ Bootstrap(c)
  /\ pendingGovernance[c] # Nobody
  /\ governance' = [governance EXCEPT ![c] = pendingGovernance[c]]
  /\ pendingGovernance' = [pendingGovernance EXCEPT ![c] = Nobody]
  /\ UNCHANGED <<adminVars, ledger, deployed, initialAdmin, adopted, operationVars>>

\* Mutant: neither the single adoption nor the administrator the controller was
\* deployed under is checked.
HandoffIsNominated(c) ==
  /\ deployed[c]
  /\ pendingGovernance[c] = Nobody
  /\ pendingAdmin = c

\* Mutant: a governance handover may be in flight.
HandoffMidGovernance(c) ==
  /\ deployed[c]
  /\ ~adopted[c]
  /\ admin = initialAdmin[c]
  /\ pendingAdmin = c

HandoffIsValid(c) ==
  /\ deployed[c]
  /\ ~adopted[c]
  /\ pendingGovernance[c] = Nobody
  /\ admin = initialAdmin[c]
  /\ pendingAdmin = c

AcceptManagement(c) ==
  /\ HandoffIsValid(c)
  /\ AcceptAdmin(c)
  /\ adopted' = [adopted EXCEPT ![c] = TRUE]
  /\ UNCHANGED <<ledger, deployed, governance, initialAdmin, pendingGovernance,
                 operationVars>>

--------------------------------------------------------------------------------
\* Operation.

Owned(c) == deployed[c] /\ admin = c

PauseNow(c) ==
  /\ Owned(c)
  /\ Pause(c)
  /\ UNCHANGED <<ledger, controllerVars, operationVars>>

\* Mutant: the sum is left to the library, which saturates it.
DelayFits == TRUE

\* The sum must not overflow, and must not be a number that means "done".
DelayIsRepresentable ==
  /\ ledger + Delay <= MaxSequence
  /\ ledger + Delay > DoneLedger

\* The ledger that schedule_operation stores.
ReadyAt == IF ledger + Delay <= MaxSequence THEN ledger + Delay ELSE MaxSequence

\* Mutant: an operation already set is set again.
ScheduleAgain(c, op) ==
  /\ Owned(c)
  /\ DelayIsRepresentable
  /\ readyLedger' = [readyLedger EXCEPT ![c][op] = ReadyAt]
  /\ announced' = [announced EXCEPT ![c][op] = ledger]
  /\ UNCHANGED <<adminVars, ledger, controllerVars>>

Schedule(c, op) ==
  /\ Owned(c)
  /\ DelayIsRepresentable
  /\ readyLedger[c][op] = UnsetLedger
  /\ readyLedger' = [readyLedger EXCEPT ![c][op] = ReadyAt]
  /\ announced' = [announced EXCEPT ![c][op] = ledger]
  /\ UNCHANGED <<adminVars, ledger, controllerVars>>

\* Governance may cancel whether or not the controller still owns the target.
Cancel(c, op) ==
  /\ deployed[c]
  /\ Pending(c, op)
  /\ readyLedger' = [readyLedger EXCEPT ![c][op] = UnsetLedger]
  /\ announced' = [announced EXCEPT ![c][op] = -1]
  /\ UNCHANGED <<adminVars, ledger, controllerVars>>

\* execute_operation of the library: ready, and its predecessor done.
IsReady(c, op) ==
  /\ Pending(c, op)
  /\ readyLedger[c][op] <= ledger
  /\ PredecessorOf[op] # NoOperation => Done(c, PredecessorOf[op])

\* The call an action stands for, made by the controller.
Perform(c, action) ==
  \/ action.kind = "Upgrade" /\ Upgrade(c, action.hash)
  \/ action.kind = "Unpause" /\ Unpause(c)
  \/ action.kind = "AssetPolicy" /\ SetAssetAllowed(c, action.asset, action.permit)
  \/ action.kind = "TransferAdmin" /\ ProposeAdmin(c, action.newAdmin)

\* Mutant: the operation is rebuilt without its predecessor.
ExecuteUnordered(c, op) ==
  /\ Owned(c)
  /\ Pending(c, op) /\ readyLedger[c][op] <= ledger
  /\ Perform(c, ActionOf[op])
  /\ readyLedger' = [readyLedger EXCEPT ![c][op] = DoneLedger]
  /\ UNCHANGED <<ledger, controllerVars, announced>>

\* Anyone may execute.
Execute(c, op) ==
  /\ Owned(c)
  /\ IsReady(c, op)
  /\ Perform(c, ActionOf[op])
  /\ readyLedger' = [readyLedger EXCEPT ![c][op] = DoneLedger]
  /\ UNCHANGED <<ledger, controllerVars, announced>>

\* A classic account calls the registry directly.
DirectCall(caller) ==
  /\ AdminStep(caller)
  /\ UNCHANGED <<ledger, controllerVars, operationVars>>

CloseLedger ==
  /\ ledger < MaxLedger
  /\ ledger' = ledger + 1
  /\ UNCHANGED <<adminVars, controllerVars, operationVars>>

Next ==
  \/ \E c \in Controllers :
       \/ \E a \in Accounts : Deploy(c, a) \/ ProposeGovernance(c, a)
       \/ AcceptGovernance(c)
       \/ AcceptManagement(c)
       \/ PauseNow(c)
       \/ \E op \in Operations : Schedule(c, op) \/ Cancel(c, op) \/ Execute(c, op)
  \/ \E a \in Accounts : DirectCall(a)
  \/ CloseLedger

Spec == Init /\ [][Next]_vars

--------------------------------------------------------------------------------

TypeOK ==
  /\ AdminTypeOK
  /\ ledger \in 0..MaxLedger
  /\ deployed \in [Controllers -> BOOLEAN]
  /\ adopted \in [Controllers -> BOOLEAN]
  /\ governance \in [Controllers -> Accounts \union {Nobody}]
  /\ initialAdmin \in [Controllers -> Principals \union {Nobody}]
  /\ pendingGovernance \in [Controllers -> Accounts \union {Nobody}]
  /\ readyLedger \in [Controllers -> [Operations -> 0..MaxSequence]]
  /\ announced \in [Controllers -> [Operations -> -1..MaxLedger]]

\* A controller holds the administrator's role only by an adoption that ended
\* every governance handover, and it has operations only if it adopted: there
\* is no other way for the target and a controller to come together.
ControlIsAdopted ==
  /\ admin \in Controllers => adopted[admin]
  /\ \A c \in Controllers :
       /\ adopted[c] => deployed[c] /\ pendingGovernance[c] = Nobody
       /\ \A op \in Operations : readyLedger[c][op] # UnsetLedger => adopted[c]

\* An operation is done only after the one it names as its predecessor, in
\* whatever order they were scheduled, cancelled and scheduled again.
PredecessorsFirst ==
  \A c \in Controllers, op \in Operations :
    Done(c, op) /\ PredecessorOf[op] # NoOperation => Done(c, PredecessorOf[op])

TransferOf(newAdmin) == [kind |-> "TransferAdmin", newAdmin |-> newAdmin]

\* While a controller is in charge, whoever is nominated to succeed it was
\* nominated by an operation that stood in public view for the whole delay; a
\* nomination from before the adoption does not survive it.
NominationIsNoticed ==
  admin \in Controllers /\ pendingAdmin # Nobody =>
    \E op \in Operations :
      /\ ActionOf[op] = TransferOf(pendingAdmin)
      /\ Done(admin, op)
      /\ announced[admin][op] # -1
      /\ announced[admin][op] + Delay <= ledger

\* The stored number says when the operation was announced: what is pending is
\* ready one delay after that, and what is done had its whole delay.
OperationsTimed ==
  \A c \in Controllers, op \in Operations :
    /\ Pending(c, op) => /\ announced[c][op] # -1
                         /\ readyLedger[c][op] = announced[c][op] + Delay
    /\ Done(c, op) => /\ announced[c][op] # -1
                      /\ announced[c][op] + Delay <= ledger

\* What every step keeps; the proofs' inductive invariant.
ControllerInv ==
  /\ TypeOK
  /\ ControlIsAdopted
  /\ PredecessorsFirst
  /\ OperationsTimed
  /\ NominationIsNoticed

\* An operation for `action' that has been standing for the delay is used up.
Noticed(c, action) ==
  \E op \in Operations :
    /\ ActionOf[op] = action
    /\ Pending(c, op)
    /\ announced[c][op] # -1
    /\ announced[c][op] + Delay <= ledger
    /\ readyLedger'[c][op] = DoneLedger

DelayedStep ==
  \A c \in Controllers : admin = c =>
    /\ code' # code => Noticed(c, [kind |-> "Upgrade", hash |-> code'])
    /\ paused /\ ~paused' => Noticed(c, [kind |-> "Unpause"])
    /\ \A asset \in Listable : (asset \in allowed') # (asset \in allowed) =>
         Noticed(c, [kind |-> "AssetPolicy", asset |-> asset,
                     permit |-> asset \in allowed'])
    /\ pendingAdmin' \notin {pendingAdmin, Nobody} =>
         Noticed(c, TransferOf(pendingAdmin'))

\* Under a controller nothing but the emergency stop is immediate: new code,
\* resumption, a change of the allow list and a nomination each use up an
\* operation for exactly that, announced at least the delay ago and not
\* cancelled since, whoever calls and however the ledger counter ends.
ChangesAreNoticed == [][DelayedStep]_vars

\* A done operation stays done: it cannot be scheduled, cancelled or executed
\* again, and so its payload takes effect at most once.
OperationsRunOnce ==
  [][\A c \in Controllers, op \in Operations : Done(c, op) => Done(c, op)']_vars

RetiredStep ==
  \A c \in Controllers : adopted[c] =>
    /\ adopted'[c]
    /\ governance'[c] = governance[c]
    /\ admin # c => admin' # c

\* A controller that lost the target never gets it back, even if the target
\* returns to the administrator it was adopted from, and who governs a
\* controller does not change once it has adopted.
RetirementIsFinal == [][RetiredStep]_vars

================================================================================
