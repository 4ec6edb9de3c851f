------------------------------- MODULE MCPib -------------------------------
(***************************************************************************)
(* Pib on the identities /localhost/reserved and /localhost/pib/o/mgmt.    *)
(* The first has two keys, one with the name that stands for no key, which *)
(* has two certificates with the same prefix. The certificate of the key   *)
(* of the second is named /localhost/KEY/pib/..., so that neither it nor   *)
(* what it adds is refused as reserved.                                    *)
(***************************************************************************)
EXTENDS PibQueries, TLC

CONSTANTS r, m, kn, kr, km, c1, c2, cm, b1, b2, mgmt1, mgmt2

IdentityOfKey == (kn :> r) @@ (kr :> r) @@ (km :> m)
KeyOfCert == (c1 :> kn) @@ (c2 :> kn) @@ (cm :> km)
PrefixOfCert == (c1 :> "kn") @@ (c2 :> "kn") @@ (cm :> "km")
BelowId == (r :> {r, kn, kr, c1, c2}) @@ (m :> {m, km})

\* the keys' bits and the management certificates are only compared
Symmetry == Permutations({b1, b2}) \cup Permutations({mgmt1, mgmt2})
=============================================================================
