------------------------------- MODULE CallFrames -------------------------------
(***************************************************************************)
(* The calls within a transaction.  The extension calls the registry, the  *)
(* registry calls the token, and the token is whatever contract the user   *)
(* chose as the asset: before it moves the funds it may call back, and     *)
(* swallow the answer (EvilToken, ReentrantToken).  The agent of a mandate *)
(* may be a contract that makes several calls in one transaction           *)
(* (HostileExtension).  A call that fails takes back what it wrote, and so *)
(* does its caller unless it used a try_ call.                             *)
(*                                                                         *)
(* The rest of the project takes a payment as one step.  Here it is taken  *)
(* apart, on a host that refuses re-entry and on one that does not: the    *)
(* code writes its books before it calls out and keeps a lock, not to rely *)
(* on the host alone.                                                      *)
(***************************************************************************)
EXTENDS PolicyProperties, SequencesExt

CONSTANTS
  AgentContract,  \* an agent that is a contract, of the untrusted kind
  MaxDepth,       \* the host's limit on nested calls
  MaxCalls        \* bound on the calls an untrusted frame makes, for TLC

VARIABLES
  frames,      \* the call stack, outermost first
  executing,   \* DataKey::Executing: mandates with a request in flight
  hostRefuses  \* does the host refuse to enter a contract again?

frameVars == <<frames, executing, hostRefuses>>

FramesInit ==
  /\ Init
  /\ frames = << >> /\ executing = {}
  /\ hostRefuses \in BOOLEAN

bookVars == <<spent, seq, status>>
storeVars == <<bookVars, consumed, executing, allowance, balance, drawn>>

\* What a transaction can write, and what the host takes back.
Store == [spent |-> spent, seq |-> seq, status |-> status, consumed |-> consumed,
          executing |-> executing, allowance |-> allowance, balance |-> balance,
          drawn |-> drawn]

Rollback(s) ==
  /\ spent' = s.spent /\ seq' = s.seq /\ status' = s.status
  /\ consumed' = s.consumed /\ executing' = s.executing
  /\ allowance' = s.allowance /\ balance' = s.balance /\ drawn' = s.drawn

AtRest == frames = << >>
Top == Last(frames)
Frame(contract, call) ==
  [contract |-> contract, call |-> call, step |-> "entered", made |-> 0,
   saved |-> Store]
At(step) == [frames EXCEPT ![Len(frames)].step = step]

\* The host's own rules.
Admits(contract) ==
  /\ Len(frames) < MaxDepth
  /\ hostRefuses => \A i \in DOMAIN frames : frames[i].contract # contract

Untrusted == {"token", "agent"}

\* Mutant: the extension calls the registry with a try_ call, and goes on.
CatchesRegistryErrors(f) == f.contract \in Untrusted \union {"extension"}

\* Which caller survives a call that failed: the extension's call of the
\* registry and the registry's call of the token are not try_ calls.
Catches(f) == f.contract \in Untrusted

\* The top frame fails, and so do its callers up to one that catches; `kept'
\* frames are left.
Unwind ==
  \E kept \in 0..Len(frames) - 1 :
    /\ kept > 0 => Catches(frames[kept])
    /\ \A i \in kept + 1..Len(frames) - 1 : ~Catches(frames[i])
    /\ frames' = SubSeq(frames, 1, kept)
    /\ Rollback(frames[kept + 1].saved)

--------------------------------------------------------------------------------
\* The handlers, up to their call and after it.

PayCall(caller, m, amount, n) ==
  [op |-> "pay", caller |-> caller, mandate |-> m, amount |-> amount, expectedSeq |-> n]

\* Mutant: the lock is not looked at.
AcceptsUnlocked(f) ==
  /\ f.contract = "extension" => RequestAdmitted(f.call) /\ Admits("registry")
  /\ f.contract = "registry" /\ f.call.op = "pay" =>
       PaymentAccepted(f.call.caller, f.call.mandate, f.call.amount, f.call.expectedSeq)
  /\ f.contract = "registry" /\ f.call.op = "revoke" => Registered(f.call.mandate)

\* What a handler tests.  The extension reads the mandate from the registry,
\* which the host may refuse as well.
Accepts(f) ==
  /\ f.contract = "extension" =>
       RequestAdmitted(f.call) /\ f.call.mandate \notin executing /\ Admits("registry")
  /\ f.contract = "registry" /\ f.call.op = "pay" =>
       PaymentAccepted(f.call.caller, f.call.mandate, f.call.amount, f.call.expectedSeq)
  /\ f.contract = "registry" /\ f.call.op = "revoke" => Registered(f.call.mandate)

\* Mutant: the registry writes its books when the token has answered.
RegistryWritesLate(f, moment) ==
  CASE f.call.op = "pay" /\ moment = "after" ->
         BookPayment(f.call.mandate, f.call.amount)
    [] f.call.op = "revoke" /\ moment = "before" ->
         status' = [status EXCEPT ![f.call.mandate] = "Revoked"] /\ UNCHANGED <<spent, seq>>
    [] OTHER -> UNCHANGED bookVars

\* What the registry writes, before it calls the token and after.
RegistryWrites(f, moment) ==
  CASE f.call.op = "pay" /\ moment = "before" ->
         BookPayment(f.call.mandate, f.call.amount)
    [] f.call.op = "revoke" /\ moment = "before" ->
         status' = [status EXCEPT ![f.call.mandate] = "Revoked"] /\ UNCHANGED <<spent, seq>>
    [] OTHER -> UNCHANGED bookVars

\* What the extension writes: the lock and the nonce, then the lock again.
ExtensionWrites(r, moment) ==
  IF moment = "before"
  THEN /\ executing' = executing \union {r.mandate}
       /\ consumed' = consumed \union {<<r.policyHash, r.nonce>>}
  ELSE executing' = executing \ {r.mandate} /\ UNCHANGED consumed

Writes(f, moment) ==
  /\ IF f.contract = "extension"
     THEN ExtensionWrites(f.call, moment) /\ UNCHANGED bookVars
     ELSE RegistryWrites(f, moment) /\ UNCHANGED <<consumed, executing>>
  /\ UNCHANGED <<allowance, balance, drawn>>

\* The checks, and what is written before calling out.
Handle ==
  /\ Top.contract \in {"extension", "registry"} /\ Top.step = "entered"
  /\ IF Accepts(Top)
     THEN /\ Writes(Top, "before")
          /\ frames' = At(IF Top.contract = "registry" /\ Top.call.op = "revoke"
                          THEN "waiting" ELSE "calling")
     ELSE Unwind

\* Whom a handler calls.
Callee(f) ==
  IF f.contract = "extension"
  THEN Frame("registry",
             PayCall(Extension, f.call.mandate, f.call.amount, f.call.expectedSeq))
  ELSE Frame("token", f.call)

Invoke ==
  /\ Top.step = "calling"
  /\ IF Admits(Callee(Top).contract)
     THEN frames' = Append(At("waiting"), Callee(Top)) /\ UNCHANGED storeVars
     ELSE Unwind

Return ==
  /\ Top.step = "waiting"
  /\ Writes(Top, "after")
  /\ frames' = Front(frames)

--------------------------------------------------------------------------------
\* The token and the agent contract.

\* transfer_from moves the funds and answers.
MoveAndReturn ==
  /\ Top.contract = "token"
  /\ Settle(Transfer(Top.call.mandate, Top.call.amount))
  /\ frames' = Front(frames)
  /\ UNCHANGED <<bookVars, consumed, executing>>

\* The agent contract has made its calls.
Finish ==
  /\ Top.contract = "agent"
  /\ frames' = Front(frames)
  /\ UNCHANGED storeVars

\* Either fails, for whatever reason.
Fail == Top.contract \in Untrusted /\ Unwind

\* An agent's require_auth: an account has signed; a contract is the caller.
MayAuthorise(caller) ==
  caller = AgentContract => ~AtRest /\ Top.contract = "agent"

\* The calls an outsider can make: the executor's requests, payments by agents
\* other than the extension, which authorises its own calls alone, revocations.
OutsideCalls ==
  {"extension"} \X Requests
  \union {<<"registry", PayCall(caller, m, amount, n)>> :
            caller \in {a \in Agents \ {Extension} : MayAuthorise(a)},
            m \in Mandates, amount \in PaymentAmounts, n \in 0..MaxSeq}
  \union {<<"registry", [op |-> "revoke", mandate |-> m]>> : m \in Mandates}

\* An untrusted contract makes a try_ call.  One the host refuses to admit is
\* answered by an error, and nothing changes.
CallOut ==
  /\ Top.contract \in Untrusted
  /\ Top.made < MaxCalls
  /\ \E c \in OutsideCalls :
       /\ Admits(c[1])
       /\ frames' = Append([frames EXCEPT ![Len(frames)].made = @ + 1],
                           Frame(c[1], c[2]))
  /\ UNCHANGED storeVars

Begin ==
  /\ AtRest
  /\ \/ \E c \in OutsideCalls : frames' = <<Frame(c[1], c[2])>>
     \/ frames' = <<Frame("agent", [op |-> "drive"])>>
  /\ UNCHANGED storeVars

InTransaction ==
  ~AtRest /\ (Handle \/ Invoke \/ Return \/ MoveAndReturn \/ CallOut \/ Finish \/ Fail)

\* Transactions that make no call are the steps they were.
WithoutCalls ==
  /\ AtRest
  /\ \/ /\ \/ \E m \in Mandates, t \in MandateTerms : RegisterMandate(m, t)
           \/ Pause \/ Unpause \/ TokenStep \/ Tick
        /\ UNCHANGED policyVars
     \/ \E m \in Mandates, cap \in Caps, notBefore \in StartTimes :
           InstallPolicy(m, cap, notBefore)
  /\ UNCHANGED frameVars

FramesNext ==
  \/ /\ Begin \/ InTransaction
     /\ UNCHANGED <<now, paused, terms, policy, authorized, hostRefuses>>
  \/ WithoutCalls

FramesSpec == FramesInit /\ [][FramesNext]_<<vars, frameVars>>

--------------------------------------------------------------------------------
\* What others can see: the state as of the last transaction that ended.
Committed == IF AtRest THEN Store ELSE frames[1].saved

Atomic == INSTANCE PolicyProperties WITH
  spent <- Committed.spent, seq <- Committed.seq, status <- Committed.status,
  consumed <- Committed.consumed, allowance <- Committed.allowance,
  balance <- Committed.balance, drawn <- Committed.drawn

Driven == ~AtRest /\ frames[1].contract = "agent"

\* On a host that refuses re-entry a transaction is one step of the registry
\* and its extension or none at all, whatever the token calls back and whoever
\* swallows an error on the way.  (A contract that makes several calls takes
\* several such steps in one transaction.)
TransactionsAreAtomic ==
  [][hostRefuses /\ ~Driven => Atomic!Next]_(Atomic!vars)

\* "State is consumed before transfer and Soroban rejects recursive entry"
\* (security-threat-model.md): either would do.  Whether or not the host admits
\* re-entry, a transaction that ends leaves no lock, a nonce for every payment
\* of the extension's, no mandate over its cap or budget, and books that agree
\* with what the tokens moved.
PaymentsSurviveReentry ==
  /\ Committed.executing = {}
  /\ Atomic!NoncesMatchPayments
  /\ Atomic!SpendWithinCaps

BooksSurviveReentry ==
  /\ PaymentsSurviveReentry
  /\ \A a \in Assets, u \in Users, w \in Payees :
       Committed.drawn[a][u][w] =
         MapThenSumSet(LAMBDA m : Committed.spent[m],
                       {m \in Mandates : /\ Registered(m)
                                         /\ terms[m].asset = a /\ terms[m].user = u
                                         /\ terms[m].merchant = w})

\* The extension is past its lock.
InFlight(f) == f.contract = "extension" /\ f.step # "entered"

\* A mandate has one request in flight at a time (ReentrantExecution), with the
\* host's help or without.
OneInFlight ==
  \A i, j \in DOMAIN frames :
    /\ InFlight(frames[i]) /\ InFlight(frames[j])
    /\ frames[i].call.mandate = frames[j].call.mandate
    => i = j

================================================================================
