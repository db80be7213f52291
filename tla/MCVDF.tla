-------------------------------- MODULE MCVDF --------------------------------
(***************************************************************************)
(* Instance of VDF for TLC: moduli 15 and 21 (products of two primes, like *)
(* the tests' 1009 x 1013), every reduced input x < n, t up to 6, and      *)
(* l = 7.  MCUnreducedRequests adds the inputs x = n and x = n + 1.        *)
(***************************************************************************)
EXTENDS VDF

MCRequests ==
  {[x |-> x, n |-> n, t |-> t] : n \in {15, 21}, x \in 0..20, t \in 0..6} \cap
  {r \in [x: 0..20, n: {15, 21}, t: 0..6] : r.x < r.n}

MCUnreducedRequests ==
  {[x |-> x, n |-> n, t |-> t] : n \in {15, 21}, x \in 0..22, t \in 0..6} \cap
  {r \in [x: 0..22, n: {15, 21}, t: 0..6] : r.x <= r.n + 1}

=============================================================================
