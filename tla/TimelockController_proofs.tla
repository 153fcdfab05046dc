----------------------- MODULE TimelockController_proofs ------------------------
(***************************************************************************)
(* The timelock, for any number of controllers and operations and every    *)
(* delay.  The inductive invariant is ControllerInv: the stored ready      *)
(* ledger tells when an operation was announced (OperationsTimed), and     *)
(* only an adopted controller has operations at all (ControlIsAdopted);    *)
(* without these two neither the notice of a nomination nor that of a      *)
(* change follows from the state alone.                                    *)
(***************************************************************************)
EXTENDS TimelockController, TLAPS

\* The facts about the constants and the state that the steps rest on.
LEMMA Basics ==
  ASSUME ControllerInv
  PROVE  /\ ledger \in Nat /\ ledger <= MaxLedger
         /\ MaxLedger \in Nat /\ MaxSequence \in Nat /\ MaxLedger <= MaxSequence
         /\ Delay \in Nat /\ Delay > 0
         /\ Nobody \notin Principals
         /\ \A c \in Controllers : c \in Principals /\ c \notin Accounts
         /\ \A a \in Accounts : a \in Principals /\ a \notin Controllers
         /\ \A c \in Controllers, op \in Operations :
              /\ readyLedger[c][op] \in 0..MaxSequence
              /\ announced[c][op] \in -1..MaxLedger
  BY AdminConstants, ControllerConstants DEF ControllerInv, TypeOK

\* An entry point of the registry keeps the registry's types.
LEMMA AdminStepKeepsTypes ==
  ASSUME AdminTypeOK, NEW caller \in Principals, AdminStep(caller)
  PROVE  AdminTypeOK'
  <1>1. CASE \E newAdmin \in Principals : ProposeAdmin(caller, newAdmin)
    BY <1>1 DEF AdminTypeOK, ProposeAdmin
  <1>2. CASE AcceptAdmin(caller)
    BY <1>2 DEF AdminTypeOK, AcceptAdmin
  <1>3. CASE Pause(caller)
    BY <1>3 DEF AdminTypeOK, Pause
  <1>4. CASE Unpause(caller)
    BY <1>4 DEF AdminTypeOK, Unpause
  <1>5. CASE \E asset \in Listable, permit \in BOOLEAN :
               SetAssetAllowed(caller, asset, permit)
    BY <1>5 DEF AdminTypeOK, SetAssetAllowed
  <1>6. CASE \E newWasmHash \in WasmHashes : Upgrade(caller, newWasmHash)
    BY <1>6 DEF AdminTypeOK, Upgrade
  <1> QED BY <1>1, <1>2, <1>3, <1>4, <1>5, <1>6 DEF AdminStep

\* What an action stands for is an entry point of the registry.
LEMMA PerformIsAdminStep ==
  ASSUME NEW c \in Controllers, NEW op \in Operations, Perform(c, ActionOf[op])
  PROVE  AdminStep(c)
  <1> DEFINE action == ActionOf[op]
  <1>1. action \in Actions
    BY ControllerConstants
  <1> HIDE DEF action
  <1>2. action.kind = "Upgrade" => action.hash \in WasmHashes
    BY <1>1 DEF Actions
  <1>3. action.kind = "AssetPolicy" => action.asset \in Listable /\ action.permit \in BOOLEAN
    BY <1>1 DEF Actions
  <1>4. action.kind = "TransferAdmin" => action.newAdmin \in Principals
    BY <1>1 DEF Actions
  <1>5. Perform(c, action)
    BY DEF action
  <1> QED BY <1>2, <1>3, <1>4, <1>5 DEF Perform, AdminStep

LEMMA ControllerInit == Init => ControllerInv
  <1> SUFFICES ASSUME Init PROVE ControllerInv
    OBVIOUS
  <1>1. 0 \in 0..MaxLedger /\ 0 \in 0..MaxSequence /\ -1 \in -1..MaxLedger
    BY ControllerConstants
  <1>2. TypeOK
    BY <1>1, ControllerConstants DEF Init, AdminInit, TypeOK, AdminTypeOK, UnsetLedger
  <1>3. ControlIsAdopted
    BY ControllerConstants DEF Init, ControlIsAdopted, UnsetLedger
  <1>4. PredecessorsFirst /\ OperationsTimed
    BY DEF Init, PredecessorsFirst, OperationsTimed, Pending, Done, UnsetLedger, DoneLedger
  <1>5. NominationIsNoticed
    BY DEF Init, AdminInit, NominationIsNoticed
  <1> QED BY <1>2, <1>3, <1>4, <1>5 DEF ControllerInv

\* Nominations and operations are judged by the operations' state, the clock,
\* the administrator and the nominee alone.
LEMMA OperationsUnchanged ==
  ASSUME ControllerInv, UNCHANGED <<readyLedger, announced, ledger>>
  PROVE  PredecessorsFirst' /\ OperationsTimed'
  BY DEF ControllerInv, PredecessorsFirst, OperationsTimed, Pending, Done

LEMMA NominationUnchanged ==
  ASSUME ControllerInv, UNCHANGED <<readyLedger, announced, ledger, admin, pendingAdmin>>
  PROVE  NominationIsNoticed'
  BY DEF ControllerInv, NominationIsNoticed, Done

LEMMA GovernanceKeepsInv ==
  ASSUME ControllerInv, NEW c \in Controllers, NEW a \in Accounts,
         Deploy(c, a) \/ ProposeGovernance(c, a) \/ AcceptGovernance(c)
  PROVE  ControllerInv'
  <1>1. UNCHANGED <<adminVars, ledger, operationVars, adopted>>
    BY DEF Deploy, ProposeGovernance, AcceptGovernance
  <1>2. TypeOK'
    <2>1. AdminTypeOK'
      BY <1>1 DEF ControllerInv, TypeOK, AdminTypeOK, adminVars
    <2>2. CASE Deploy(c, a)
      BY <2>1, <2>2 DEF Deploy, ControllerInv, TypeOK, AdminTypeOK, operationVars
    <2>3. CASE ProposeGovernance(c, a)
      BY <2>1, <2>3 DEF ProposeGovernance, ControllerInv, TypeOK, operationVars
    <2>4. CASE AcceptGovernance(c)
      BY <2>1, <2>4 DEF AcceptGovernance, ControllerInv, TypeOK, operationVars
    <2> QED BY <2>2, <2>3, <2>4
  <1>3. ControlIsAdopted'
    <2>1. CASE Deploy(c, a)
      BY <2>1 DEF Deploy, ControllerInv, TypeOK, ControlIsAdopted, adminVars, operationVars
    <2>2. CASE ProposeGovernance(c, a)
      BY <2>2 DEF ProposeGovernance, Bootstrap, ControllerInv, TypeOK, ControlIsAdopted,
                  adminVars, operationVars
    <2>3. CASE AcceptGovernance(c)
      BY <2>3 DEF AcceptGovernance, Bootstrap, ControllerInv, TypeOK, ControlIsAdopted,
                  adminVars, operationVars
    <2> QED BY <2>1, <2>2, <2>3
  <1>4. PredecessorsFirst' /\ OperationsTimed'
    BY <1>1, OperationsUnchanged DEF operationVars
  <1>5. NominationIsNoticed'
    BY <1>1, NominationUnchanged DEF operationVars, adminVars
  <1> QED BY <1>2, <1>3, <1>4, <1>5 DEF ControllerInv

LEMMA AcceptManagementKeepsInv ==
  ASSUME ControllerInv, NEW c \in Controllers, AcceptManagement(c)
  PROVE  ControllerInv'
  <1>1. /\ HandoffIsValid(c) /\ AcceptAdmin(c)
        /\ adopted' = [adopted EXCEPT ![c] = TRUE]
        /\ UNCHANGED <<ledger, deployed, governance, initialAdmin, pendingGovernance>>
        /\ UNCHANGED <<readyLedger, announced>>
    BY DEF AcceptManagement, operationVars
  <1>2. TypeOK'
    <2>1. AdminTypeOK'
      BY <1>1 DEF ControllerInv, TypeOK, AdminTypeOK, AcceptAdmin
    <2> QED BY <1>1, <2>1 DEF ControllerInv, TypeOK
  <1>3. ControlIsAdopted'
    BY <1>1 DEF ControllerInv, TypeOK, ControlIsAdopted, HandoffIsValid, AcceptAdmin
  <1>4. PredecessorsFirst' /\ OperationsTimed'
    BY <1>1, OperationsUnchanged
  <1>5. NominationIsNoticed'
    BY <1>1 DEF AcceptAdmin, NominationIsNoticed
  <1> QED BY <1>2, <1>3, <1>4, <1>5 DEF ControllerInv

\* What is left of the work when only the registry's own state changes, under
\* the same administrator and the same nominee.
LEMMA RegistryOnly ==
  ASSUME ControllerInv, AdminTypeOK', UNCHANGED <<admin, pendingAdmin>>,
         UNCHANGED <<ledger, controllerVars, operationVars>>
  PROVE  ControllerInv'
  <1>1. TypeOK'
    BY DEF ControllerInv, TypeOK, controllerVars, operationVars
  <1>2. ControlIsAdopted'
    BY DEF ControllerInv, ControlIsAdopted, controllerVars, operationVars
  <1>3. PredecessorsFirst' /\ OperationsTimed' /\ NominationIsNoticed'
    BY OperationsUnchanged, NominationUnchanged DEF operationVars
  <1> QED BY <1>1, <1>2, <1>3 DEF ControllerInv

LEMMA PauseNowKeepsInv ==
  ASSUME ControllerInv, NEW c \in Controllers, PauseNow(c)
  PROVE  ControllerInv'
  <1>1. AdminTypeOK'
    BY DEF PauseNow, Pause, ControllerInv, TypeOK, AdminTypeOK
  <1> QED BY <1>1, RegistryOnly DEF PauseNow, Pause

LEMMA ScheduleKeepsInv ==
  ASSUME ControllerInv, NEW c \in Controllers, NEW op \in Operations, Schedule(c, op)
  PROVE  ControllerInv'
  <1>0. ReadyAt = ledger + Delay
    BY DEF Schedule, DelayIsRepresentable, ReadyAt
  <1>1. /\ Owned(c) /\ DelayIsRepresentable /\ readyLedger[c][op] = UnsetLedger
        /\ readyLedger' = [readyLedger EXCEPT ![c][op] = ledger + Delay]
        /\ announced' = [announced EXCEPT ![c][op] = ledger]
        /\ UNCHANGED <<admin, pendingAdmin, paused, allowed, code>>
        /\ UNCHANGED <<ledger, deployed, governance, initialAdmin, pendingGovernance, adopted>>
    BY <1>0 DEF Schedule, adminVars, controllerVars
  <1>2. ledger + Delay \in 0..MaxSequence /\ ledger + Delay > 1 /\ ledger \in 0..MaxLedger
    BY <1>1, Basics DEF DelayIsRepresentable, DoneLedger
  <1>3. TypeOK'
    BY <1>1, <1>2, Basics DEF ControllerInv, TypeOK, AdminTypeOK
  <1>4. /\ readyLedger'[c][op] = ledger + Delay
        /\ announced'[c][op] = ledger
        /\ \A d \in Controllers, o \in Operations :
             d # c \/ o # op => /\ readyLedger'[d][o] = readyLedger[d][o]
                                /\ announced'[d][o] = announced[d][o]
    BY <1>1 DEF ControllerInv, TypeOK
  <1>5. ControlIsAdopted'
    BY <1>1, <1>4 DEF ControllerInv, ControlIsAdopted, Owned
  <1>6. OperationsTimed'
    BY <1>1, <1>2, <1>4 DEF ControllerInv, OperationsTimed, Pending, Done, DoneLedger,
                            UnsetLedger
  <1>7. \A d \in Controllers, o \in Operations :
          /\ Done(d, o) => Done(d, o)' /\ announced'[d][o] = announced[d][o]
          /\ Done(d, o)' => Done(d, o)
    BY <1>1, <1>2, <1>4 DEF Done, DoneLedger, UnsetLedger
  <1>8. PredecessorsFirst'
    BY <1>7, ControllerConstants DEF ControllerInv, PredecessorsFirst
  <1>9. NominationIsNoticed'
    BY <1>1, <1>7 DEF ControllerInv, NominationIsNoticed
  <1> QED BY <1>3, <1>5, <1>6, <1>8, <1>9 DEF ControllerInv

LEMMA CancelKeepsInv ==
  ASSUME ControllerInv, NEW c \in Controllers, NEW op \in Operations, Cancel(c, op)
  PROVE  ControllerInv'
  <1>1. /\ Pending(c, op)
        /\ readyLedger' = [readyLedger EXCEPT ![c][op] = UnsetLedger]
        /\ announced' = [announced EXCEPT ![c][op] = -1]
        /\ UNCHANGED <<admin, pendingAdmin, paused, allowed, code>>
        /\ UNCHANGED <<ledger, deployed, governance, initialAdmin, pendingGovernance, adopted>>
    BY DEF Cancel, adminVars, controllerVars
  <1>2. UnsetLedger \in 0..MaxSequence /\ -1 \in -1..MaxLedger
    BY Basics DEF UnsetLedger
  <1>3. TypeOK'
    BY <1>1, <1>2, Basics DEF ControllerInv, TypeOK, AdminTypeOK
  <1>4. /\ readyLedger'[c][op] = UnsetLedger
        /\ \A d \in Controllers, o \in Operations :
             d # c \/ o # op => /\ readyLedger'[d][o] = readyLedger[d][o]
                                /\ announced'[d][o] = announced[d][o]
    BY <1>1 DEF ControllerInv, TypeOK
  <1>5. ControlIsAdopted'
    BY <1>1, <1>4 DEF ControllerInv, ControlIsAdopted
  <1>6. OperationsTimed'
    BY <1>1, <1>4 DEF ControllerInv, OperationsTimed, Pending, Done, DoneLedger, UnsetLedger
  <1>7. \A d \in Controllers, o \in Operations :
          /\ Done(d, o) => Done(d, o)' /\ announced'[d][o] = announced[d][o]
          /\ Done(d, o)' => Done(d, o)
    BY <1>1, <1>4 DEF Done, Pending, DoneLedger, UnsetLedger
  <1>8. PredecessorsFirst'
    BY <1>7, ControllerConstants DEF ControllerInv, PredecessorsFirst
  <1>9. NominationIsNoticed'
    BY <1>1, <1>7 DEF ControllerInv, NominationIsNoticed
  <1> QED BY <1>3, <1>5, <1>6, <1>8, <1>9 DEF ControllerInv

\* What a ready operation has behind it: the whole delay in public view.
LEMMA ReadyIsNoticed ==
  ASSUME ControllerInv, NEW c \in Controllers, NEW op \in Operations, IsReady(c, op)
  PROVE  announced[c][op] # -1 /\ announced[c][op] + Delay <= ledger
  BY Basics DEF ControllerInv, OperationsTimed, IsReady

\* Only the transfer action nominates anybody, and it nominates whom it names.
LEMMA PerformNominates ==
  ASSUME NEW c \in Controllers, NEW op \in Operations, Perform(c, ActionOf[op])
  PROVE  /\ admin' = admin
         /\ pendingAdmin' # pendingAdmin => ActionOf[op] = TransferOf(pendingAdmin')
  <1> DEFINE action == ActionOf[op]
  <1>1. action \in Actions
    BY ControllerConstants
  <1>2. Perform(c, action)
    OBVIOUS
  <1> HIDE DEF action
  <1>3. action.kind = "TransferAdmin" => action = TransferOf(action.newAdmin)
    BY <1>1 DEF Actions, TransferOf
  <1>4. /\ admin' = admin
        /\ pendingAdmin' # pendingAdmin =>
             action.kind = "TransferAdmin" /\ pendingAdmin' = action.newAdmin
    BY <1>2 DEF Perform, Upgrade, Unpause, SetAssetAllowed, ProposeAdmin
  <1> QED BY <1>3, <1>4 DEF action

LEMMA ExecuteKeepsInv ==
  ASSUME ControllerInv, NEW c \in Controllers, NEW op \in Operations, Execute(c, op)
  PROVE  ControllerInv'
  <1>1. /\ Owned(c) /\ IsReady(c, op) /\ Perform(c, ActionOf[op])
        /\ readyLedger' = [readyLedger EXCEPT ![c][op] = DoneLedger]
        /\ UNCHANGED <<ledger, announced>>
        /\ UNCHANGED <<deployed, governance, initialAdmin, pendingGovernance, adopted>>
    BY DEF Execute, controllerVars
  <1>2. DoneLedger \in 0..MaxSequence
    BY <1>1, Basics, ReadyIsNoticed DEF DoneLedger, IsReady, Pending, UnsetLedger
  <1>3. TypeOK'
    <2>1. AdminTypeOK'
      BY <1>1, PerformIsAdminStep, AdminStepKeepsTypes, Basics DEF ControllerInv, TypeOK
    <2> QED BY <1>1, <1>2, <2>1 DEF ControllerInv, TypeOK
  <1>4. /\ readyLedger'[c][op] = DoneLedger
        /\ \A d \in Controllers, o \in Operations :
             d # c \/ o # op => readyLedger'[d][o] = readyLedger[d][o]
    BY <1>1 DEF ControllerInv, TypeOK
  <1>5. admin' = admin
    BY <1>1, PerformNominates
  <1>6. ControlIsAdopted'
    BY <1>1, <1>4, <1>5 DEF ControllerInv, ControlIsAdopted, Owned
  <1>7. announced[c][op] # -1 /\ announced[c][op] + Delay <= ledger
    BY <1>1, ReadyIsNoticed
  <1>8. OperationsTimed'
    BY <1>1, <1>4, <1>7 DEF ControllerInv, OperationsTimed, Pending, Done, DoneLedger,
                            UnsetLedger
  <1>9. /\ Done(c, op)'
        /\ \A d \in Controllers, o \in Operations :
             /\ Done(d, o) => Done(d, o)'
             /\ d # c \/ o # op => (Done(d, o)' => Done(d, o))
    BY <1>4 DEF Done
  <1>10. PredecessorsFirst'
    <2> SUFFICES ASSUME NEW d \in Controllers, NEW o \in Operations,
                        Done(d, o)', PredecessorOf[o] # NoOperation
                 PROVE  Done(d, PredecessorOf[o])'
      BY DEF PredecessorsFirst
    <2>1. PredecessorOf[o] \in Operations
      BY ControllerConstants
    <2>2. CASE d = c /\ o = op
      BY <1>1, <1>9, <2>1, <2>2 DEF IsReady
    <2>3. CASE d # c \/ o # op
      BY <1>9, <2>1, <2>3 DEF ControllerInv, PredecessorsFirst
    <2> QED BY <2>2, <2>3
  <1>11. NominationIsNoticed'
    <2>1. CASE pendingAdmin' = pendingAdmin
      BY <1>1, <1>5, <1>9, <2>1 DEF ControllerInv, NominationIsNoticed
    <2>2. CASE pendingAdmin' # pendingAdmin
      <3>1. ActionOf[op] = TransferOf(pendingAdmin')
        BY <1>1, <2>2, PerformNominates
      <3>2. admin' = c
        BY <1>1, <1>5 DEF Owned
      <3> QED BY <1>1, <1>7, <1>9, <3>1, <3>2 DEF NominationIsNoticed, TransferOf
    <2> QED BY <2>1, <2>2
  <1> QED BY <1>3, <1>6, <1>8, <1>10, <1>11 DEF ControllerInv

\* A classic account can put itself in charge, never a controller, and it can
\* nominate nobody while a controller is in charge.
LEMMA DirectCallFacts ==
  ASSUME ControllerInv, NEW a \in Accounts, DirectCall(a)
  PROVE  /\ admin' = admin \/ (admin' = a /\ pendingAdmin' = Nobody)
         /\ admin \in Controllers =>
              /\ pendingAdmin' \in {pendingAdmin, Nobody}
              /\ UNCHANGED <<paused, allowed, code>>
  BY Basics DEF DirectCall, AdminStep, ProposeAdmin, AcceptAdmin, Pause, Unpause,
                SetAssetAllowed, Upgrade

LEMMA DirectCallKeepsInv ==
  ASSUME ControllerInv, NEW a \in Accounts, DirectCall(a)
  PROVE  ControllerInv'
  <1>1. /\ AdminStep(a)
        /\ UNCHANGED <<ledger, controllerVars, operationVars>>
    BY DEF DirectCall
  <1>2. AdminTypeOK'
    BY <1>1, AdminStepKeepsTypes, Basics DEF ControllerInv, TypeOK
  <1>3. TypeOK'
    BY <1>1, <1>2 DEF ControllerInv, TypeOK, controllerVars, operationVars
  <1>4. ControlIsAdopted'
    BY <1>1, DirectCallFacts, Basics DEF ControllerInv, ControlIsAdopted, controllerVars,
                                         operationVars
  <1>5. PredecessorsFirst' /\ OperationsTimed'
    BY <1>1, OperationsUnchanged DEF operationVars
  <1>6. NominationIsNoticed'
    <2> SUFFICES ASSUME admin' \in Controllers, pendingAdmin' # Nobody
                 PROVE  NominationIsNoticed'
      BY DEF NominationIsNoticed
    <2>1. admin' = admin /\ pendingAdmin' = pendingAdmin
      BY DirectCallFacts, Basics
    <2> QED BY <1>1, <2>1, NominationUnchanged DEF operationVars
  <1> QED BY <1>3, <1>4, <1>5, <1>6 DEF ControllerInv

LEMMA CloseLedgerKeepsInv == ControllerInv /\ CloseLedger => ControllerInv'
  <1> SUFFICES ASSUME ControllerInv, CloseLedger PROVE ControllerInv'
    OBVIOUS
  <1>1. /\ ledger' = ledger + 1 /\ ledger' \in 0..MaxLedger
        /\ UNCHANGED <<admin, pendingAdmin, paused, allowed, code>>
        /\ UNCHANGED <<deployed, governance, initialAdmin, pendingGovernance, adopted>>
        /\ UNCHANGED <<readyLedger, announced>>
    BY Basics DEF CloseLedger, adminVars, controllerVars, operationVars
  <1>2. TypeOK'
    BY <1>1 DEF ControllerInv, TypeOK, AdminTypeOK
  <1>3. ControlIsAdopted'
    BY <1>1 DEF ControllerInv, ControlIsAdopted
  <1>4. PredecessorsFirst'
    BY <1>1 DEF ControllerInv, PredecessorsFirst, Done
  <1>5. OperationsTimed'
    BY <1>1, Basics DEF ControllerInv, OperationsTimed, Pending, Done
  <1>6. NominationIsNoticed'
    <2> SUFFICES ASSUME admin \in Controllers, pendingAdmin # Nobody
                 PROVE  NominationIsNoticed'
      BY <1>1 DEF NominationIsNoticed
    <2>1. PICK op \in Operations : /\ ActionOf[op] = TransferOf(pendingAdmin)
                                   /\ Done(admin, op)
                                   /\ announced[admin][op] # -1
                                   /\ announced[admin][op] + Delay <= ledger
      BY DEF ControllerInv, NominationIsNoticed
    <2>2. announced[admin][op] + Delay <= ledger'
      BY <1>1, <2>1, Basics
    <2> QED BY <1>1, <2>1, <2>2 DEF NominationIsNoticed, Done, TransferOf
  <1> QED BY <1>2, <1>3, <1>4, <1>5, <1>6 DEF ControllerInv

LEMMA StutterKeepsInv == ControllerInv /\ UNCHANGED vars => ControllerInv'
  <1> SUFFICES ASSUME ControllerInv, UNCHANGED vars PROVE ControllerInv'
    OBVIOUS
  <1>1. AdminTypeOK'
    BY DEF ControllerInv, TypeOK, AdminTypeOK, vars, adminVars
  <1> QED BY <1>1, RegistryOnly DEF vars, adminVars

LEMMA ControllerStep == ControllerInv /\ [Next]_vars => ControllerInv'
  <1> SUFFICES ASSUME ControllerInv, [Next]_vars PROVE ControllerInv'
    OBVIOUS
  <1>1. ASSUME NEW c \in Controllers, NEW a \in Accounts, Deploy(c, a) \/ ProposeGovernance(c, a)
        PROVE  ControllerInv'
    BY <1>1, GovernanceKeepsInv
  <1>2. ASSUME NEW c \in Controllers, AcceptGovernance(c) PROVE ControllerInv'
    <2>1. governance[c] \in Accounts \union {Nobody} /\ pendingGovernance[c] \in Accounts
      BY <1>2 DEF AcceptGovernance, ControllerInv, TypeOK
    <2> QED BY <1>2, <2>1, GovernanceKeepsInv
  <1>3. ASSUME NEW c \in Controllers, AcceptManagement(c) PROVE ControllerInv'
    BY <1>3, AcceptManagementKeepsInv
  <1>4. ASSUME NEW c \in Controllers, PauseNow(c) PROVE ControllerInv'
    BY <1>4, PauseNowKeepsInv
  <1>5. ASSUME NEW c \in Controllers, NEW op \in Operations,
               Schedule(c, op) \/ Cancel(c, op) \/ Execute(c, op)
        PROVE  ControllerInv'
    BY <1>5, ScheduleKeepsInv, CancelKeepsInv, ExecuteKeepsInv
  <1>6. ASSUME NEW a \in Accounts, DirectCall(a) PROVE ControllerInv'
    BY <1>6, DirectCallKeepsInv
  <1>7. CASE CloseLedger
    BY <1>7, CloseLedgerKeepsInv
  <1>8. CASE UNCHANGED vars
    BY <1>8, StutterKeepsInv
  <1> QED BY <1>1, <1>2, <1>3, <1>4, <1>5, <1>6, <1>7, <1>8 DEF Next

\* Types, adoption, the order of operations, their timing and the notice of
\* nominations hold in every reachable state of any instance.
THEOREM ControllerInvariant == Spec => []ControllerInv
  BY ControllerInit, ControllerStep, PTL DEF Spec

\* No operation of the controller is done before its predecessor.
THEOREM PredecessorsAreFirst == Spec => []PredecessorsFirst
  <1>1. ControllerInv => PredecessorsFirst
    BY DEF ControllerInv
  <1> QED BY <1>1, ControllerInvariant, PTL

\* A controller is in charge by adoption only, and only then has operations.
THEOREM ControlNeedsAdoption == Spec => []ControlIsAdopted
  <1>1. ControllerInv => ControlIsAdopted
    BY DEF ControllerInv
  <1> QED BY <1>1, ControllerInvariant, PTL

\* Whoever may succeed a controller was nominated with the whole delay's notice.
THEOREM NominationsAreNoticed == Spec => []NominationIsNoticed
  <1>1. ControllerInv => NominationIsNoticed
    BY DEF ControllerInv
  <1> QED BY <1>1, ControllerInvariant, PTL

--------------------------------------------------------------------------------
\* What a step may do.

\* The three disjuncts that can reach the registry while c is in charge: the
\* stop, an execution, and a direct call, which changes nothing then.
LEMMA WhoTouchesTheTarget ==
  ASSUME ControllerInv, [Next]_vars, NEW c \in Controllers, admin = c
  PROVE  \/ /\ UNCHANGED <<allowed, code>>
            /\ paused => paused'
            /\ pendingAdmin' \in {pendingAdmin, Nobody}
         \/ \E op \in Operations : Execute(c, op)
  <1>1. ASSUME NEW d \in Controllers, NEW a \in Accounts,
               Deploy(d, a) \/ ProposeGovernance(d, a)
        PROVE  UNCHANGED <<allowed, code, paused, pendingAdmin>>
    BY <1>1 DEF Deploy, ProposeGovernance, adminVars
  <1>2. ASSUME NEW d \in Controllers, AcceptGovernance(d)
        PROVE  UNCHANGED <<allowed, code, paused, pendingAdmin>>
    BY <1>2 DEF AcceptGovernance, adminVars
  <1>3. ASSUME NEW d \in Controllers, AcceptManagement(d)
        PROVE  UNCHANGED <<allowed, code, paused>> /\ pendingAdmin' = Nobody
    BY <1>3 DEF AcceptManagement, AcceptAdmin
  <1>4. ASSUME NEW d \in Controllers, PauseNow(d)
        PROVE  UNCHANGED <<allowed, code, pendingAdmin>> /\ paused' = TRUE
    BY <1>4 DEF PauseNow, Pause
  <1>5. ASSUME NEW d \in Controllers, NEW op \in Operations, Schedule(d, op) \/ Cancel(d, op)
        PROVE  UNCHANGED <<allowed, code, paused, pendingAdmin>>
    BY <1>5 DEF Schedule, Cancel, adminVars
  <1>6. ASSUME NEW d \in Controllers, NEW op \in Operations, Execute(d, op)
        PROVE  Execute(c, op)
    BY <1>6 DEF Execute, Owned
  <1>7. ASSUME NEW a \in Accounts, DirectCall(a)
        PROVE  UNCHANGED <<allowed, code, paused>> /\ pendingAdmin' \in {pendingAdmin, Nobody}
    BY <1>7, DirectCallFacts
  <1>8. CASE CloseLedger
    BY <1>8 DEF CloseLedger, adminVars
  <1>9. CASE UNCHANGED vars
    BY <1>9 DEF vars, adminVars
  <1> QED BY <1>1, <1>2, <1>3, <1>4, <1>5, <1>6, <1>7, <1>8, <1>9 DEF Next

\* The effect of an execution is that of the action of the operation.
LEMMA ExecutionDoesWhatItSays ==
  ASSUME NEW c \in Controllers, NEW op \in Operations, Perform(c, ActionOf[op])
  PROVE  /\ code' # code => ActionOf[op] = [kind |-> "Upgrade", hash |-> code']
         /\ paused /\ ~paused' => ActionOf[op] = [kind |-> "Unpause"]
         /\ \A asset \in Listable : (asset \in allowed') # (asset \in allowed) =>
              ActionOf[op] = [kind |-> "AssetPolicy", asset |-> asset,
                              permit |-> asset \in allowed']
         /\ pendingAdmin' # pendingAdmin => ActionOf[op] = TransferOf(pendingAdmin')
  <1> DEFINE action == ActionOf[op]
  <1>1. action \in Actions /\ Perform(c, action)
    BY ControllerConstants
  <1>2. pendingAdmin' # pendingAdmin => action = TransferOf(pendingAdmin')
    BY PerformNominates
  <1> HIDE DEF action
  <1>3. CASE action.kind = "Upgrade"
    <2>1. action = [kind |-> "Upgrade", hash |-> action.hash]
      BY <1>1, <1>3 DEF Actions
    <2>2. code' = action.hash /\ UNCHANGED <<paused, allowed>>
      BY <1>1, <1>3 DEF Perform, Upgrade
    <2> QED BY <1>2, <2>1, <2>2 DEF action
  <1>4. CASE action.kind = "Unpause"
    <2>1. action = [kind |-> "Unpause"]
      BY <1>1, <1>4 DEF Actions
    <2>2. UNCHANGED <<code, allowed>>
      BY <1>1, <1>4 DEF Perform, Unpause
    <2> QED BY <1>2, <2>1, <2>2 DEF action
  <1>5. CASE action.kind = "AssetPolicy"
    <2>1. /\ action = [kind |-> "AssetPolicy", asset |-> action.asset, permit |-> action.permit]
          /\ action.permit \in BOOLEAN
      BY <1>1, <1>5 DEF Actions
    <2>2. /\ allowed' = IF action.permit THEN allowed \union {action.asset}
                                         ELSE allowed \ {action.asset}
          /\ UNCHANGED <<code, paused>>
      BY <1>1, <1>5 DEF Perform, SetAssetAllowed
    <2>3. ASSUME NEW asset \in Listable, (asset \in allowed') # (asset \in allowed)
          PROVE  action = [kind |-> "AssetPolicy", asset |-> asset,
                           permit |-> asset \in allowed']
      <3>1. asset = action.asset
        BY <2>2, <2>3
      <3>2. action.permit = (asset \in allowed')
        BY <2>1, <2>2, <3>1
      <3> QED BY <2>1, <3>1, <3>2
    <2> QED BY <1>2, <2>2, <2>3 DEF action
  <1>6. CASE action.kind = "TransferAdmin"
    <2>1. UNCHANGED <<code, paused, allowed>>
      BY <1>1, <1>6 DEF Perform, ProposeAdmin
    <2> QED BY <1>2, <2>1 DEF action
  <1> QED BY <1>1, <1>3, <1>4, <1>5, <1>6 DEF Perform

LEMMA DelayedStepHolds == ControllerInv /\ [Next]_vars => DelayedStep
  <1> SUFFICES ASSUME ControllerInv, [Next]_vars, NEW c \in Controllers, admin = c
               PROVE  /\ code' # code => Noticed(c, [kind |-> "Upgrade", hash |-> code'])
                      /\ paused /\ ~paused' => Noticed(c, [kind |-> "Unpause"])
                      /\ \A asset \in Listable : (asset \in allowed') # (asset \in allowed) =>
                           Noticed(c, [kind |-> "AssetPolicy", asset |-> asset,
                                       permit |-> asset \in allowed'])
                      /\ pendingAdmin' \notin {pendingAdmin, Nobody} =>
                           Noticed(c, TransferOf(pendingAdmin'))
    BY DEF DelayedStep
  <1>1. CASE /\ UNCHANGED <<allowed, code>>
             /\ paused => paused'
             /\ pendingAdmin' \in {pendingAdmin, Nobody}
    BY <1>1
  <1>2. ASSUME NEW op \in Operations, Execute(c, op)
        PROVE  Noticed(c, ActionOf[op]) /\ Perform(c, ActionOf[op])
    <2>1. /\ IsReady(c, op) /\ Perform(c, ActionOf[op])
          /\ readyLedger' = [readyLedger EXCEPT ![c][op] = DoneLedger]
      BY <1>2 DEF Execute
    <2>2. readyLedger'[c][op] = DoneLedger
      BY <2>1 DEF ControllerInv, TypeOK
    <2>3. Pending(c, op)
      BY <2>1 DEF IsReady
    <2> QED BY <2>1, <2>2, <2>3, ReadyIsNoticed DEF Noticed
  <1>3. ASSUME NEW op \in Operations, Execute(c, op)
        PROVE  /\ code' # code => Noticed(c, [kind |-> "Upgrade", hash |-> code'])
               /\ paused /\ ~paused' => Noticed(c, [kind |-> "Unpause"])
               /\ \A asset \in Listable : (asset \in allowed') # (asset \in allowed) =>
                    Noticed(c, [kind |-> "AssetPolicy", asset |-> asset,
                                permit |-> asset \in allowed'])
               /\ pendingAdmin' \notin {pendingAdmin, Nobody} =>
                    Noticed(c, TransferOf(pendingAdmin'))
    BY <1>2, <1>3, ExecutionDoesWhatItSays
  <1> QED BY <1>1, <1>3, WhoTouchesTheTarget

\* Under a controller new code, resumption, the allow list and the nomination
\* of a successor change only by operations noticed for the whole delay.
THEOREM DelayedChangesAreNoticed == Spec => ChangesAreNoticed
  <1>1. ControllerInv /\ [Next]_vars => [DelayedStep]_vars
    BY DelayedStepHolds
  <1> QED BY <1>1, ControllerInvariant, PTL DEF Spec, ChangesAreNoticed

LEMMA DoneStep ==
  ASSUME ControllerInv, [Next]_vars, NEW c \in Controllers, NEW op \in Operations, Done(c, op)
  PROVE  Done(c, op)'
  <1>1. readyLedger \in [Controllers -> [Operations -> 0..MaxSequence]]
    BY DEF ControllerInv, TypeOK
  <1>2. ASSUME NEW d \in Controllers, NEW o \in Operations, Schedule(d, o) \/ Cancel(d, o)
        PROVE  Done(c, op)'
    BY <1>1, <1>2 DEF Schedule, Cancel, Done, Pending, DoneLedger, UnsetLedger
  <1>3. ASSUME NEW d \in Controllers, NEW o \in Operations, Execute(d, o)
        PROVE  Done(c, op)'
    BY <1>1, <1>3 DEF Execute, Done
  <1>4. ASSUME UNCHANGED readyLedger PROVE Done(c, op)'
    BY <1>4 DEF Done
  <1> QED BY <1>2, <1>3, <1>4 DEF Next, Deploy, ProposeGovernance, AcceptGovernance,
             AcceptManagement, PauseNow, DirectCall, CloseLedger, vars, operationVars

\* An operation takes effect at most once.
THEOREM OperationsAreUsedOnce == Spec => OperationsRunOnce
  <1>1. ControllerInv /\ [Next]_vars =>
          [\A c \in Controllers, op \in Operations : Done(c, op) => Done(c, op)']_vars
    BY DoneStep
  <1> QED BY <1>1, ControllerInvariant, PTL DEF Spec, OperationsRunOnce

LEMMA RetiredStepHolds == ControllerInv /\ [Next]_vars => RetiredStep
  <1> SUFFICES ASSUME ControllerInv, [Next]_vars, NEW c \in Controllers, adopted[c]
               PROVE  /\ adopted'[c]
                      /\ governance'[c] = governance[c]
                      /\ admin # c => admin' # c
    BY DEF RetiredStep
  <1>1. /\ adopted \in [Controllers -> BOOLEAN] /\ deployed[c]
        /\ governance \in [Controllers -> Accounts \union {Nobody}]
    BY DEF ControllerInv, TypeOK, ControlIsAdopted
  <1>2. ASSUME NEW d \in Controllers, NEW a \in Accounts,
               Deploy(d, a) \/ ProposeGovernance(d, a) \/ AcceptGovernance(d)
        PROVE  /\ UNCHANGED <<admin, adopted>>
               /\ governance'[c] = governance[c]
    BY <1>1, <1>2 DEF Deploy, ProposeGovernance, AcceptGovernance, Bootstrap, adminVars
  <1>3. ASSUME NEW d \in Controllers, AcceptGovernance(d)
        PROVE  UNCHANGED <<admin, adopted>> /\ governance'[c] = governance[c]
    BY <1>1, <1>3 DEF AcceptGovernance, Bootstrap, adminVars
  <1>4. ASSUME NEW d \in Controllers, AcceptManagement(d)
        PROVE  /\ adopted'[c] /\ governance'[c] = governance[c]
               /\ admin # c => admin' # c
    BY <1>1, <1>4 DEF AcceptManagement, HandoffIsValid, AcceptAdmin
  <1>5. ASSUME NEW d \in Controllers, PauseNow(d)
        PROVE  UNCHANGED <<admin, adopted, governance>>
    BY <1>5 DEF PauseNow, Pause, controllerVars
  <1>6. ASSUME NEW d \in Controllers, NEW o \in Operations,
               Schedule(d, o) \/ Cancel(d, o) \/ Execute(d, o)
        PROVE  UNCHANGED <<admin, adopted, governance>>
    BY <1>6, PerformNominates DEF Schedule, Cancel, Execute, adminVars, controllerVars
  <1>7. ASSUME NEW a \in Accounts, DirectCall(a)
        PROVE  UNCHANGED <<adopted, governance>> /\ (admin # c => admin' # c)
    BY <1>7, DirectCallFacts, Basics DEF DirectCall, controllerVars
  <1>8. CASE CloseLedger
    BY <1>1, <1>8 DEF CloseLedger, adminVars, controllerVars
  <1>9. CASE UNCHANGED vars
    BY <1>1, <1>9 DEF vars, adminVars, controllerVars
  <1> QED BY <1>2, <1>3, <1>4, <1>5, <1>6, <1>7, <1>8, <1>9 DEF Next

\* A controller that lost the target never gets it back, and who governs it is
\* settled by its adoption.
THEOREM RetirementHolds == Spec => RetirementIsFinal
  <1>1. ControllerInv /\ [Next]_vars => [RetiredStep]_vars
    BY RetiredStepHolds
  <1> QED BY <1>1, ControllerInvariant, PTL DEF Spec, RetirementIsFinal

================================================================================
