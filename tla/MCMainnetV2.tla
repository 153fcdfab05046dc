------------------------------ MODULE MCMainnetV2 -------------------------------
(***************************************************************************)
(* Instances of the Mainnet V2 registry: what users sign.                  *)
(***************************************************************************)
EXTENDS MainnetV2Properties

CONSTANTS u1, shop, mall, usd, safe, other, v2, k1, k2

Signed(user, merchant, asset, maxAmount, expiry, credential) ==
  [user |-> user, merchant |-> merchant, asset |-> asset,
   maxAmount |-> maxAmount, expiry |-> expiry, credential |-> credential]

\* One credential signed into two sets of terms, two mandates on one allowance,
\* and one that lives too long to be registered at once.
SignedTerms ==
  {Signed(u1, shop, usd, 3, 2, k1),
   Signed(u1, mall, usd, 2, 1, k1),
   Signed(u1, shop, usd, 2, 3, k2)}

================================================================================
