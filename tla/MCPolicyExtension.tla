--------------------------- MODULE MCPolicyExtension ----------------------------
(***************************************************************************)
(* Instances of the simple registry and the reference policy.              *)
(***************************************************************************)
EXTENDS PolicyProperties

CONSTANTS u1, shop, usd, bot, policyContract

Signed(agent, maxAmount, expiry) ==
  [user |-> u1, agent |-> agent, merchant |-> shop, asset |-> usd,
   maxAmount |-> maxAmount, expiry |-> expiry]

\* A mandate under the extension, one of them too long for a policy at first,
\* and one with an agent of its own.
ExtensionTerms ==
  {Signed(policyContract, 4, 2), Signed(policyContract, 2, 3), Signed(bot, 3, 2)}

================================================================================
