------------------------------ MODULE VDFSpec ------------------------------
(***************************************************************************)
(* What a Wesolowski prover promises (spec 3, VDFProof): a call on         *)
(* (x, n, t) returns y = x^(2^t) mod n and pi = x^q mod n with             *)
(* q = (2^t - r) / l and r = 2^t mod l, in one step.  The powers are       *)
(* defined by repeated multiplication, independently of the prover's       *)
(* square-and-multiply and squaring loop.                                  *)
(***************************************************************************)
EXTENDS Integers

CONSTANTS
  Requests,  \* the (x, n, t) a caller may ask for
  Ell,       \* the public prime l
  None

VARIABLES req, result

\* b^e mod m by e multiplications; 1 mod m for e = 0.
RECURSIVE PowRef(_, _, _)
PowRef(b, e, m) == IF e = 0 THEN 1 % m ELSE (PowRef(b, e - 1, m) * b) % m

Promised(r) ==
  LET two == 2^r.t
  IN  [y |-> PowRef(r.x, two, r.n),
       pi |-> PowRef(r.x, (two - (two % Ell)) \div Ell, r.n)]

Init == req = None /\ result = None

Call(r) == req = None /\ req' = r /\ result' = None

Return == req # None /\ result = None /\ result' = Promised(req) /\ UNCHANGED req

Reset == result # None /\ req' = None /\ result' = None

Next == (\E r \in Requests : Call(r)) \/ Return \/ Reset

Spec == Init /\ [][Next]_<<req, result>>

=============================================================================
