-------------------------------- MODULE MCFrames --------------------------------
(***************************************************************************)
(* Instances of the calls within a transaction.                            *)
(***************************************************************************)
EXTENDS CallFrames

CONSTANTS u1, shop, usd, bot, policyContract, agentContract

Signed(agent, maxAmount) ==
  [user |-> u1, agent |-> agent, merchant |-> shop, asset |-> usd,
   maxAmount |-> maxAmount, expiry |-> 1]

\* A mandate under the extension, one of a contract agent of the
\* untrusted kind, and one of an agent with an account.
FrameTerms ==
  {Signed(policyContract, 3), Signed(agentContract, 3), Signed(bot, 3)}

================================================================================
