-------------------------------- MODULE VDF --------------------------------
(***************************************************************************)
(* The Wesolowski VDF of nyx-mix (vdf.rs).  A call of prove or prove_mont  *)
(* on (x, n, t) runs the t squarings of eval (fast_pow2 in prove_mont) one *)
(* step at a time and computes pi = x^q mod n with num-bigint's modpow:    *)
(* after the loop in prove, and at any point of it in prove_mont, where    *)
(* rayon::join runs both branches in parallel.  verify is an operator.     *)
(* The prime l is a constant: 2^128 + 51 in the code, a small prime here   *)
(* so that q > 0 already for small t.                                      *)
(***************************************************************************)
EXTENDS Integers

CONSTANTS
  Requests,  \* the (x, n, t) a caller may ask for
  Ell,       \* L_PRIME
  None

ASSUME Requests \subseteq [x: Nat, n: Nat \ {0}, t: Nat]

VARIABLES
  req,      \* the call in progress, or None
  variant,  \* "prove" or "prove_mont"
  i,        \* squarings done
  y,        \* the squaring chain's value
  pi,       \* the proof, or None before its branch has run
  result    \* the returned (y, pi), or None

vars == <<req, variant, i, y, pi, result>>

\* Mutation: the last multiplication by b left unreduced.
RECURSIVE modpowUnreduced(_, _, _)
modpowUnreduced(b, e, m) ==
  IF e = 0 THEN 1 % m
  ELSE LET h == modpowUnreduced(b, e \div 2, m)
       IN  IF e % 2 = 0 THEN (h * h) % m ELSE ((h * h) % m) * (b % m)

\* BigUint::modpow: b^e mod m by square-and-multiply; 1 mod m for e = 0.
RECURSIVE modpow(_, _, _)
modpow(b, e, m) ==
  IF e = 0 THEN 1 % m
  ELSE LET h == modpow(b, e \div 2, m)
       IN  IF e % 2 = 0 THEN (h * h) % m ELSE (((h * h) % m) * (b % m)) % m

\* r = 2^t mod l
ExpR(t) == (2^t) % Ell

\* Mutation: q with the remainder added instead of subtracted.
ExpQPlus(t) == (2^t + ExpR(t)) \div Ell

\* q = (2^t - r) / l
ExpQ(t) == (2^t - ExpR(t)) \div Ell

\* Mutation: the loop range 0..=t instead of 0..t.
IterationsInclusive(t) == t + 1

\* for _ in 0..t
Iterations(t) == t

\* verify: pi^l * x^r mod n == y, with x^r taken as 1 when r = 0.
verify(x, yy, p, n, t) ==
  LET r   == ExpR(t)
      a   == modpow(p, Ell, n)
      b   == IF r = 0 THEN 1 ELSE modpow(x, r, n)
  IN  (a * b) % n = yy

-----------------------------------------------------------------------------
\* prove / prove_mont called; eval and fast_pow2 start from x.clone().
Call(r, v) ==
  /\ req = None
  /\ req' = r
  /\ variant' = v
  /\ i' = 0
  /\ y' = r.x
  /\ pi' = None
  /\ result' = None

\* One iteration: y.modpow(2, n) in eval, (y * y) % n in fast_pow2.
Square ==
  /\ req # None
  /\ i < Iterations(req.t)
  /\ y' = IF variant = "prove" THEN modpow(y, 2, req.n) ELSE (y * y) % req.n
  /\ i' = i + 1
  /\ UNCHANGED <<req, variant, pi, result>>

\* pi = x.modpow(q, n): after eval in prove, in parallel in prove_mont.
ProvePi ==
  /\ req # None
  /\ pi = None
  /\ variant = "prove_mont" \/ i = Iterations(req.t)
  /\ pi' = modpow(req.x, ExpQ(req.t), req.n)
  /\ UNCHANGED <<req, variant, i, y, result>>

\* Both branches done: return (y, pi).
Return ==
  /\ req # None
  /\ result = None
  /\ i = Iterations(req.t)
  /\ pi # None
  /\ result' = [y |-> y, pi |-> pi]
  /\ UNCHANGED <<req, variant, i, y, pi>>

\* The caller takes the result; the prover is ready for another call.
Reset ==
  /\ result # None
  /\ req' = None /\ variant' = None /\ i' = 0 /\ y' = None /\ pi' = None
  /\ result' = None

Init ==
  /\ req = None /\ variant = None /\ i = 0 /\ y = None /\ pi = None
  /\ result = None

Next ==
  \/ \E r \in Requests, v \in {"prove", "prove_mont"} : Call(r, v)
  \/ Square
  \/ ProvePi
  \/ Return
  \/ Reset

Spec == Init /\ [][Next]_vars

-----------------------------------------------------------------------------
TypeOK ==
  /\ req \in Requests \cup {None}
  /\ variant \in {"prove", "prove_mont", None}
  /\ i \in Nat
  /\ req # None => /\ i <= Iterations(req.t)
                   /\ pi \in (0..req.n - 1) \cup {None}
  /\ result = None \/ result \in [y: Nat, pi: Nat]

(* Spec 8: verify accepts what prove and prove_mont return,                *)
(* verify(x, prove(x,n,t).y, prove(x,n,t).pi, n, t) = true.                *)
VerifyAccepts ==
  result # None => verify(req.x, result.y, result.pi, req.n, req.t)

(* prove and prove_mont implement the promise of VDFSpec: each call        *)
(* returns exactly x^(2^t) mod n and x^q mod n (so the two are             *)
(* bit-identical).                                                         *)
Abstract == INSTANCE VDFSpec
ImplementsVDFSpec == Abstract!Spec

=============================================================================
