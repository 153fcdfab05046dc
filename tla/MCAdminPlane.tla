----------------------------- MODULE MCAdminPlane ------------------------------
(***************************************************************************)
(* Two administrators-to-be and three executables: enough to rotate the    *)
(* authority under a pending upgrade and to swap one proposal for another. *)
(***************************************************************************)
EXTENDS AdminPlane, TLC

Interchangeable == Permutations(Addresses) \union Permutations(WasmHashes)

================================================================================
