---------------------------- MODULE ReferencePolicy -----------------------------
(***************************************************************************)
(* The reference policy extension over the simple registry.  A user makes  *)
(* the extension the agent of a mandate and installs one immutable policy  *)
(* for it; the policy's executor then pays by requests that the extension  *)
(* checks before it calls the registry as the mandate's agent.             *)
(*                                                                         *)
(* A policy hash covers every field of the policy (and the registry, the   *)
(* network and the mandate id): two policies have the same hash exactly    *)
(* when they are equal, so a hash is modelled by the policy.  The registry *)
(* is the one modelled here and its answers are honest.  A transaction     *)
(* that fails takes back the lock and the nonce: the Executing entry is    *)
(* never seen between two steps (CallFrames has the calls within one).     *)
(* The users' and the executors' require_auth are not modelled.            *)
(***************************************************************************)
EXTENDS SimpleRegistry

CONSTANTS
  Extension,           \* the extension's own address, one of the agents
  Caps,                \* max_per_payment values users ask for
  StartTimes,          \* not_before values users ask for
  Nonces,              \* request nonces
  NoPolicy,
  MaxPolicyLifetime,   \* MAX_POLICY_LIFETIME_SECS (30 days)
  MaxRequestLifetime   \* MAX_REQUEST_LIFETIME_SECS (900)

\* PolicyBinding: the mandate's own fields and what the policy adds.
Policies ==
  [mandate : Mandates, base : MandateTerms, cap : Caps, notBefore : StartTimes]

ASSUME PolicyConstants ==
  /\ Extension \in Agents
  /\ Caps \subseteq Int
  /\ StartTimes \subseteq Nat
  /\ NoPolicy \notin Policies
  /\ MaxPolicyLifetime \in Nat /\ MaxRequestLifetime \in Nat

VARIABLES policy,     \* DataKey::Policy, by mandate
          consumed    \* the DataKey::Consumed entries: <<policy hash, nonce>>

policyVars == <<policy, consumed>>
vars == <<registryVars, policyVars>>

Installed(m) == policy[m] # NoPolicy

Init ==
  /\ RegistryInit
  /\ policy = [m \in Mandates |-> NoPolicy]
  /\ consumed = {}

\* Mutant: an installed policy is replaced.
NotYetInstalledEver(m) == TRUE

NotYetInstalled(m) == ~Installed(m)

InstallPolicy(m, cap, notBefore) ==
  /\ NotYetInstalled(m)
  /\ Registered(m)
  /\ status[m] = "Active"
  /\ terms[m].agent = Extension
  /\ cap > 0 /\ cap <= terms[m].maxAmount
  /\ now < terms[m].expiry
  /\ notBefore < terms[m].expiry
  /\ terms[m].expiry - now <= MaxPolicyLifetime
  /\ policy' = [policy EXCEPT ![m] = [mandate |-> m, base |-> terms[m],
                                      cap |-> cap, notBefore |-> notBefore]]
  /\ UNCHANGED <<registryVars, consumed>>

\* validate_request_envelope.
EnvelopeIsValid(r) ==
  /\ r.amount > 0
  /\ r.validAfter <= now /\ now < r.validBefore
  /\ r.validAfter < r.validBefore
  /\ r.validBefore - r.validAfter <= MaxRequestLifetime

\* Mutant: the cap is not applied.
WithinPolicyUncapped(r) ==
  /\ Installed(r.mandate)
  /\ r.policyHash = policy[r.mandate]
  /\ now >= policy[r.mandate].notBefore
  /\ r.validBefore <= policy[r.mandate].base.expiry

\* validate_against_policy.
WithinPolicy(r) ==
  /\ Installed(r.mandate)
  /\ r.policyHash = policy[r.mandate]
  /\ now >= policy[r.mandate].notBefore
  /\ r.validBefore <= policy[r.mandate].base.expiry
  /\ r.amount <= policy[r.mandate].cap

\* Mutant: nonces are recorded and not looked at.
NonceIsFreshEver(r) == TRUE

NonceIsFresh(r) == <<r.policyHash, r.nonce>> \notin consumed

\* require_live_mandate_agrees: the binding is the live mandate's.
LiveMandateAgrees(m) ==
  /\ status[m] = "Active"
  /\ terms[m].agent = Extension
  /\ terms[m] = policy[m].base

RequestAdmitted(r) ==
  /\ EnvelopeIsValid(r)
  /\ WithinPolicy(r)
  /\ NonceIsFresh(r)
  /\ Registered(r.mandate)
  /\ LiveMandateAgrees(r.mandate)

Execute(r) ==
  /\ RequestAdmitted(r)
  /\ consumed' = consumed \union {<<r.policyHash, r.nonce>>}
  /\ ExecutePayment(Extension, r.mandate, r.amount, r.expectedSeq)
  /\ UNCHANGED policy

\* Executors sign requests under policies that are in force; a request under
\* any other hash is refused whatever else it says.
Requests ==
  [mandate : Mandates, amount : PaymentAmounts, expectedSeq : 0..MaxSeq,
   nonce : Nonces, validAfter : 0..MaxTime, validBefore : 0..MaxTime + 1,
   policyHash : {policy[m] : m \in Mandates} \ {NoPolicy}]

RegistryStep ==
  /\ \/ \E m \in Mandates, t \in MandateTerms : RegisterMandate(m, t)
     \/ \E m \in Mandates : RevokeMandate(m)
     \/ \E caller \in Agents \ {Extension}, m \in Mandates,
           amount \in PaymentAmounts, expectedSeq \in 0..MaxSeq :
             ExecutePayment(caller, m, amount, expectedSeq)
     \/ Pause \/ Unpause
     \/ TokenStep
     \/ Tick
  /\ UNCHANGED policyVars

Next ==
  \/ RegistryStep
  \/ \E m \in Mandates, cap \in Caps, notBefore \in StartTimes :
        InstallPolicy(m, cap, notBefore)
  \/ \E r \in Requests : Execute(r)

Spec == Init /\ [][Next]_vars

================================================================================
