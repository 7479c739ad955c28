------------------------------- MODULE Kalman -------------------------------
(***************************************************************************)
(* util::EKF (src/utility/math/kalmanfilter/ekf.hpp) of two states and one *)
(* observation, in exact arithmetic, with functions f and h that are       *)
(* linear: f(x) = F x and h(x) = H x.  Next to it runs what it should be   *)
(* equal to, the information filter: the information matrix and vector,    *)
(* which are sums of integers over Unit.                                   *)
(***************************************************************************)
EXTENDS Integers

CONSTANTS
  Motions,     \* matrices F, each with its inverse
  Noises,      \* values of Q
  Sensors,     \* rows H
  Unit, Precisions,  \* R is Unit / p, for a p of Precisions
  Readings,    \* values of z
  Start,       \* x and P_ at first, with the inverse of P_ times Unit
  MaxSteps     \* bound: calls of predict and update

VARIABLES
  x, P_,
  lambda, eta,  \* history: the information, times Unit
  exact,        \* history: there was information, and no process noise, so far
  steady,       \* z_sub_op returns a vector, not an expression
  last,         \* history: the last call
  steps

vars == << x, P_, lambda, eta, exact, steady, last, steps >>

-----------------------------------------------------------------------------
(* Vectors and matrices of integers.                                       *)

Vectors  == [1..2 -> Int]
Matrices == [1..2 -> Vectors]

Times(c, v)   == << c * v[1], c * v[2] >>
Plus(u, v)    == << u[1] + v[1], u[2] + v[2] >>
Dot(u, v)     == u[1] * v[1] + u[2] * v[2]
Scaled(c, A)  == << Times(c, A[1]), Times(c, A[2]) >>
Sum(A, B)     == << Plus(A[1], B[1]), Plus(A[2], B[2]) >>
Transposed(A) == << << A[1][1], A[2][1] >>, << A[1][2], A[2][2] >> >>
Apply(A, v)   == << Dot(A[1], v), Dot(A[2], v) >>
Outer(u, v)   == << Times(u[1], v), Times(u[2], v) >>
Product(A, B) == << Apply(Transposed(B), A[1]), Apply(Transposed(B), A[2]) >>
Around(M, A)  == Product(Product(M, A), Transposed(M))   \* M A M^T

NoVector == << 0, 0 >>
NoMatrix == << NoVector, NoVector >>
Identity == << << 1, 0 >>, << 0, 1 >> >>

\* What a covariance is: symmetric and positive semidefinite.
PositiveSemidefinite(A) ==
  A[1][1] >= 0 /\ A[2][2] >= 0 /\ A[1][1] * A[2][2] >= A[1][2] * A[2][1]
Covariance(A) == A = Transposed(A) /\ PositiveSemidefinite(A)

ASSUME KalmanAssumption ==
  /\ Motions \subseteq [value : Matrices, inverse : Matrices]
  /\ Noises \subseteq Matrices
  /\ Sensors \subseteq Vectors
  /\ Unit \in Nat \ {0}
  /\ Precisions \subseteq Nat \ {0}
  /\ Readings \subseteq Int
  /\ Start \in [mean : Vectors, value : Matrices, inverse : Matrices]
  /\ MaxSteps \in Nat

ASSUME InverseAssumption ==
  /\ \A m \in Motions : /\ Product(m.value, m.inverse) = Identity
                        /\ Product(m.inverse, m.value) = Identity
  /\ Product(Start.value, Start.inverse) = Scaled(Unit, Identity)
  /\ Product(Start.inverse, Start.value) = Scaled(Unit, Identity)

ASSUME CovarianceAssumption ==
  \A A \in Noises \union {Start.value} : Covariance(A)

-----------------------------------------------------------------------------
(* Fractions: the entries of num over the one denominator den, divided by  *)
(* a divisor they have in common.                                          *)

Gcd[a, b \in Nat] == IF b = 0 THEN a ELSE Gcd[b, a % b]
Abs(n)        == IF n < 0 THEN -n ELSE n
Common(v, n)  == Gcd[Gcd[Abs(v[1]), Abs(v[2])], n]
Divides(g, v) == v[1] % g = 0 /\ v[2] % g = 0
Shared(v, g)  == << v[1] \div g, v[2] \div g >>

LowestVector(q) ==
  LET g == Common(q.num, q.den) IN
  IF g \in 1..q.den /\ Divides(g, q.num) /\ q.den % g = 0
  THEN [num |-> Shared(q.num, g), den |-> q.den \div g]
  ELSE q

LowestMatrix(q) ==
  LET g == Common(q.num[1], Common(q.num[2], q.den)) IN
  IF g \in 1..q.den /\ Divides(g, q.num[1]) /\ Divides(g, q.num[2]) /\ q.den % g = 0
  THEN [num |-> << Shared(q.num[1], g), Shared(q.num[2], g) >>, den |-> q.den \div g]
  ELSE q

-----------------------------------------------------------------------------
\* Both constructors.
Init ==
  /\ \/ /\ exact = TRUE
        /\ x = [num |-> Start.mean, den |-> 1] /\ P_ = [num |-> Start.value, den |-> 1]
        /\ lambda = Start.inverse /\ eta = Apply(Start.inverse, Start.mean)
     \/ /\ exact = FALSE
        /\ x = [num |-> NoVector, den |-> 1] /\ P_ = [num |-> NoMatrix, den |-> 1]
        /\ lambda = NoMatrix /\ eta = NoVector
  /\ steady \in BOOLEAN
  /\ last = "none"
  /\ steps = 0

\* P_ = F P F^T + Q.
Predict(m, Q) ==
  /\ steps < MaxSteps
  /\ steps' = steps + 1
  /\ last' = "predict"
  /\ x' = LowestVector([x EXCEPT !.num = Apply(m.value, @)])
  /\ P_' = LowestMatrix(
       [P_ EXCEPT !.num = Sum(Around(m.value, @), Scaled(P_.den, Q))])
  /\ lambda' = Around(Transposed(m.inverse), lambda)
  /\ eta' = Apply(Transposed(m.inverse), eta)
  /\ exact' = (exact /\ Q = NoMatrix)
  /\ UNCHANGED steady

\* S = H P H^T + R.
InnovationCovariance(h, p) ==
  [num |-> p * Dot(h, Apply(P_.num, h)) + Unit * P_.den, den |-> p * P_.den]

\* K = P H^T S^-1.  The solver takes the inverse of a pivot that is zero for
\* zero.
Gain(h, p) ==
  LET pivot == InnovationCovariance(h, p).num IN
  IF pivot = 0 THEN [num |-> NoVector, den |-> 1]
               ELSE [num |-> Times(p, Apply(P_.num, h)), den |-> pivot]

\* The residual y, over the denominator of x.  The default operator returns
\* an expression that refers to h(x), which is gone when y is read: y is
\* anything.
Residuals(z, h) ==
  IF steady THEN { z * x.den - Dot(h, x.num) } ELSE { r * x.den : r \in Readings }

\* I - K H, over the denominator of K.
Remainder(K, h) == Sum(Scaled(K.den, Identity), Scaled(-1, Outer(K.num, h)))

\* Defects: the noise of the measurement is left out; the gain has the wrong
\* sign.
JosephNoiseless(K, h, p) ==
  [num |-> Around(Remainder(K, h), P_.num), den |-> K.den * K.den * P_.den]

JosephAdded(K, h, p) ==
  [num |-> Sum(Scaled(p, Around(Sum(Scaled(K.den, Identity), Outer(K.num, h)), P_.num)),
               Scaled(Unit * P_.den, Outer(K.num, K.num))),
   den |-> K.den * K.den * P_.den * p]

\* (I - K H) P (I - K H)^T + K R K^T.
Joseph(K, h, p) ==
  [num |-> Sum(Scaled(p, Around(Remainder(K, h), P_.num)),
               Scaled(Unit * P_.den, Outer(K.num, K.num))),
   den |-> K.den * K.den * P_.den * p]

Symmetrized(q) == [num |-> Sum(q.num, Transposed(q.num)), den |-> 2 * q.den]

\* ldlt.isPositive() is false: update() returns false.
Refuses(h, p) == InnovationCovariance(h, p).num < 0

Update(z, h, p) ==
  LET K == Gain(h, p) IN
  /\ steps < MaxSteps
  /\ steps' = steps + 1
  /\ last' = "update"
  /\ IF Refuses(h, p)
     THEN UNCHANGED << x, P_, lambda, eta >>
     ELSE /\ \E y \in Residuals(z, h) :
               x' = LowestVector([num |-> Plus(Times(K.den, x.num), Times(y, K.num)),
                                  den |-> K.den * x.den])
          /\ P_' = LowestMatrix(Symmetrized(Joseph(K, h, p)))
          /\ lambda' = Sum(lambda, Scaled(p, Outer(h, h)))
          /\ eta' = Plus(eta, Times(p * z, h))
  /\ UNCHANGED << exact, steady >>

Done == steps = MaxSteps /\ UNCHANGED vars

Next ==
  \/ \E m \in Motions, Q \in Noises : Predict(m, Q)
  \/ \E z \in Readings, h \in Sensors, p \in Precisions : Update(z, h, p)
  \/ Done

Spec == Init /\ [][Next]_vars

-----------------------------------------------------------------------------
(* Properties.                                                             *)

\* Without process noise P_ is the inverse of the information matrix and x
\* solves the normal equations: the filter is the least-squares estimate,
\* however predictions and updates follow each other.  For x the operator of
\* the residual must return a vector.
MatchesInformationFilter ==
  exact => /\ Product(P_.num, lambda) = Scaled(Unit * P_.den, Identity)
           /\ steady => Apply(lambda, x.num) = Times(x.den, eta)

\* P_ stays a covariance, and an update leaves no direction more uncertain
\* than it was, whatever the residual, with process noise and without.
UpdatesShrinkCovariance ==
  [][last' = "update" =>
       /\ Covariance(P_'.num)
       /\ PositiveSemidefinite(Sum(Scaled(P_'.den, P_.num),
                                   Scaled(-P_.den, P_'.num)))]_vars
=============================================================================
