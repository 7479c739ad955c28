---------------------------- MODULE KalmanProofs ----------------------------
(***************************************************************************)
(* Proofs about Kalman.                                                    *)
(***************************************************************************)
EXTENDS Kalman, TLAPS

Positives == Nat \ {0}

-----------------------------------------------------------------------------
(* Matrices by their entries.                                              *)

\* A matrix is what its entries are.
LEMMA Entries ==
  ASSUME NEW A \in Matrices
  PROVE  /\ A[1][1] \in Int /\ A[1][2] \in Int /\ A[2][1] \in Int /\ A[2][2] \in Int
         /\ A = << << A[1][1], A[1][2] >>, << A[2][1], A[2][2] >> >>
BY DEF Matrices, Vectors

LEMMA MatrixIs ==
  ASSUME NEW A \in Matrices
  PROVE  \E a, b, c, d \in Int : A = << << a, b >>, << c, d >> >>
BY Entries

LEMMA VectorEntries ==
  ASSUME NEW v \in Vectors
  PROVE  v[1] \in Int /\ v[2] \in Int /\ v = << v[1], v[2] >>
BY DEF Vectors

LEMMA MatrixOf ==
  ASSUME NEW a \in Int, NEW b \in Int, NEW c \in Int, NEW d \in Int
  PROVE  << << a, b >>, << c, d >> >> \in Matrices /\ << a, b >> \in Vectors
BY DEF Matrices, Vectors

\* Every operation gives integers from integers.
LEMMA Closed ==
  /\ \A u, v \in Vectors : Plus(u, v) \in Vectors /\ Dot(u, v) \in Int /\ Outer(u, v) \in Matrices
  /\ \A c \in Int, u \in Vectors : Times(c, u) \in Vectors
  /\ \A A \in Matrices, u \in Vectors : Apply(A, u) \in Vectors
  /\ \A c \in Int, A \in Matrices : Scaled(c, A) \in Matrices
  /\ \A A, B \in Matrices : Sum(A, B) \in Matrices /\ Product(A, B) \in Matrices
  /\ \A A \in Matrices : Transposed(A) \in Matrices
<1>1. ASSUME NEW u \in Vectors, NEW v \in Vectors
      PROVE  Dot(u, v) \in Int
  BY DEF Vectors, Dot
<1>2. ASSUME NEW u \in Vectors, NEW c \in Int
      PROVE  Times(c, u) \in Vectors
  <2>1. c * u[1] \in Int /\ c * u[2] \in Int
    BY VectorEntries
  <2>2. QED
    BY <2>1, MatrixOf DEF Times
<1>3. ASSUME NEW u \in Vectors, NEW v \in Vectors
      PROVE  Plus(u, v) \in Vectors
  <2>1. u[1] + v[1] \in Int /\ u[2] + v[2] \in Int
    BY VectorEntries
  <2>2. QED
    BY <2>1, MatrixOf DEF Plus
<1>4. ASSUME NEW u \in Vectors, NEW v \in Vectors
      PROVE  << u, v >> \in Matrices
  BY DEF Matrices
<1>5. ASSUME NEW A \in Matrices
      PROVE  A[1] \in Vectors /\ A[2] \in Vectors
  BY DEF Matrices
<1>6. ASSUME NEW A \in Matrices
      PROVE  Transposed(A) \in Matrices
  BY Entries, MatrixOf DEF Transposed
<1>7. ASSUME NEW A \in Matrices, NEW u \in Vectors
      PROVE  Apply(A, u) \in Vectors
  <2>1. Dot(A[1], u) \in Int /\ Dot(A[2], u) \in Int
    BY <1>1, <1>5
  <2>2. QED
    BY <2>1, MatrixOf DEF Apply
<1>8. ASSUME NEW A \in Matrices, NEW c \in Int
      PROVE  Scaled(c, A) \in Matrices
  BY <1>2, <1>4, <1>5 DEF Scaled
<1>9. ASSUME NEW u \in Vectors, NEW v \in Vectors
      PROVE  Outer(u, v) \in Matrices
  <2>1. u[1] \in Int /\ u[2] \in Int
    BY VectorEntries
  <2>2. QED
    BY <1>2, <1>4, <2>1 DEF Outer
<1>10. ASSUME NEW A \in Matrices, NEW B \in Matrices
       PROVE  Sum(A, B) \in Matrices /\ Product(A, B) \in Matrices
  <2>1. Sum(A, B) \in Matrices
    BY <1>3, <1>4, <1>5 DEF Sum
  <2>2. Product(A, B) \in Matrices
    BY <1>4, <1>5, <1>6, <1>7 DEF Product
  <2>3. QED
    BY <2>1, <2>2
<1>11. QED
  BY <1>1, <1>2, <1>3, <1>6, <1>7, <1>8, <1>9, <1>10

-----------------------------------------------------------------------------
(* The algebra of matrices.                                                *)

\* The identity is neutral.
LEMMA ProductIdentity ==
  ASSUME NEW A \in Matrices
  PROVE  Product(A, Identity) = A /\ Product(Identity, A) = A
BY Entries DEF Product, Transposed, Apply, Dot, Identity

\* A product of three matrices needs no brackets.
LEMMA ProductAssociative ==
  ASSUME NEW A \in Matrices, NEW B \in Matrices, NEW C \in Matrices
  PROVE  Product(Product(A, B), C) = Product(A, Product(B, C))
<1>1. ASSUME NEW a \in Int, NEW b \in Int, NEW e \in Int, NEW f \in Int,
             NEW g \in Int, NEW h \in Int, NEW i \in Int, NEW j \in Int
      PROVE  (a * e + b * g) * i + (a * f + b * h) * j
               = a * (e * i + f * j) + b * (g * i + h * j)
  OBVIOUS
<1>2. PICK a, b, c, d \in Int : A = << << a, b >>, << c, d >> >>
  BY MatrixIs
<1>3. PICK e, f, g, h \in Int : B = << << e, f >>, << g, h >> >>
  BY MatrixIs
<1>4. PICK i, j, k, l \in Int : C = << << i, j >>, << k, l >> >>
  BY MatrixIs
<1>5. Product(Product(A, B), C)
        = << << (a * e + b * g) * i + (a * f + b * h) * k,
                (a * e + b * g) * j + (a * f + b * h) * l >>,
             << (c * e + d * g) * i + (c * f + d * h) * k,
                (c * e + d * g) * j + (c * f + d * h) * l >> >>
  <2> DEFINE m == a * e + b * g
             n == a * f + b * h
             o == c * e + d * g
             q == c * f + d * h
  <2>1. Product(A, B) = << << m, n >>, << o, q >> >>
    BY <1>2, <1>3 DEF Product, Transposed, Apply, Dot
  <2>2. m \in Int /\ n \in Int /\ o \in Int /\ q \in Int
    BY <1>2, <1>3
  <2> HIDE DEF m, n, o, q
  <2>3. Product(Product(A, B), C)
          = << << m * i + n * k, m * j + n * l >>, << o * i + q * k, o * j + q * l >> >>
    BY <1>4, <2>1, <2>2 DEF Product, Transposed, Apply, Dot
  <2>4. QED
    BY <2>3 DEF m, n, o, q
<1>6. Product(A, Product(B, C))
        = << << a * (e * i + f * k) + b * (g * i + h * k),
                a * (e * j + f * l) + b * (g * j + h * l) >>,
             << c * (e * i + f * k) + d * (g * i + h * k),
                c * (e * j + f * l) + d * (g * j + h * l) >> >>
  <2> DEFINE m == e * i + f * k
             n == e * j + f * l
             o == g * i + h * k
             q == g * j + h * l
  <2>1. Product(B, C) = << << m, n >>, << o, q >> >>
    BY <1>3, <1>4 DEF Product, Transposed, Apply, Dot
  <2>2. m \in Int /\ n \in Int /\ o \in Int /\ q \in Int
    BY <1>3, <1>4
  <2> HIDE DEF m, n, o, q
  <2>3. Product(A, Product(B, C))
          = << << a * m + b * o, a * n + b * q >>, << c * m + d * o, c * n + d * q >> >>
    <3> DEFINE T == Transposed(<< << m, n >>, << o, q >> >>)
    <3>1. Product(A, Product(B, C)) = << Apply(T, << a, b >>), Apply(T, << c, d >>) >>
      BY <1>2, <2>1 DEF Product
    <3>2. T = << << m, o >>, << n, q >> >>
      BY DEF Transposed
    <3>3. /\ Apply(T, << a, b >>) = << a * m + b * o, a * n + b * q >>
          /\ Apply(T, << c, d >>) = << c * m + d * o, c * n + d * q >>
      BY <1>2, <2>2, <3>2 DEF Apply, Dot
    <3>4. QED
      BY <3>1, <3>3, Zenon
  <2>4. QED
    BY <2>3 DEF m, n, o, q
<1>7. /\ (a * e + b * g) * i + (a * f + b * h) * k = a * (e * i + f * k) + b * (g * i + h * k)
      /\ (a * e + b * g) * j + (a * f + b * h) * l = a * (e * j + f * l) + b * (g * j + h * l)
  BY <1>1, <1>2, <1>3, <1>4
<1>8. /\ (c * e + d * g) * i + (c * f + d * h) * k = c * (e * i + f * k) + d * (g * i + h * k)
      /\ (c * e + d * g) * j + (c * f + d * h) * l = c * (e * j + f * l) + d * (g * j + h * l)
  BY <1>1, <1>2, <1>3, <1>4
<1>9. QED
  BY <1>5, <1>6, <1>7, <1>8, Zenon

\* A factor moves out of a product.
LEMMA ProductScaled ==
  ASSUME NEW A \in Matrices, NEW B \in Matrices, NEW c \in Int
  PROVE  /\ Product(Scaled(c, A), B) = Scaled(c, Product(A, B))
         /\ Product(A, Scaled(c, B)) = Scaled(c, Product(A, B))
<1>1. PICK a, b, d, e \in Int : A = << << a, b >>, << d, e >> >>
  BY MatrixIs
<1>2. PICK f, g, h, i \in Int : B = << << f, g >>, << h, i >> >>
  BY MatrixIs
<1>3. /\ Scaled(c, A) = << << c * a, c * b >>, << c * d, c * e >> >>
      /\ Scaled(c, B) = << << c * f, c * g >>, << c * h, c * i >> >>
  BY <1>1, <1>2 DEF Scaled, Times
<1>4. Scaled(c, Product(A, B))
        = << << c * (a * f + b * h), c * (a * g + b * i) >>,
             << c * (d * f + e * h), c * (d * g + e * i) >> >>
  BY <1>1, <1>2 DEF Product, Transposed, Apply, Dot, Scaled, Times
<1>5. Product(Scaled(c, A), B)
        = << << (c * a) * f + (c * b) * h, (c * a) * g + (c * b) * i >>,
             << (c * d) * f + (c * e) * h, (c * d) * g + (c * e) * i >> >>
  BY <1>2, <1>3 DEF Product, Transposed, Apply, Dot
<1>6. Product(A, Scaled(c, B))
        = << << a * (c * f) + b * (c * h), a * (c * g) + b * (c * i) >>,
             << d * (c * f) + e * (c * h), d * (c * g) + e * (c * i) >> >>
  BY <1>1, <1>3 DEF Product, Transposed, Apply, Dot
<1>7. ASSUME NEW j \in Int, NEW k \in Int, NEW l \in Int, NEW m \in Int
      PROVE  /\ (c * j) * k + (c * l) * m = c * (j * k + l * m)
             /\ j * (c * k) + l * (c * m) = c * (j * k + l * m)
  OBVIOUS
<1>8. QED
  BY <1>4, <1>5, <1>6, <1>7

\* Transposing reverses a product.
LEMMA TransposedProduct ==
  ASSUME NEW A \in Matrices, NEW B \in Matrices
  PROVE  /\ Transposed(Product(A, B)) = Product(Transposed(B), Transposed(A))
         /\ Transposed(Transposed(A)) = A
BY Entries DEF Product, Transposed, Apply, Dot

\* Applying a product is applying its factors in turn.
LEMMA ApplyProduct ==
  ASSUME NEW A \in Matrices, NEW B \in Matrices, NEW v \in Vectors
  PROVE  Apply(Product(A, B), v) = Apply(A, Apply(B, v))
<1>1. PICK a, b, c, d \in Int : A = << << a, b >>, << c, d >> >>
  BY MatrixIs
<1>2. PICK e, f, g, h \in Int : B = << << e, f >>, << g, h >> >>
  BY MatrixIs
<1>3. PICK i, j \in Int : v = << i, j >>
  BY VectorEntries
<1>4. Apply(Product(A, B), v)
        = << (a * e + b * g) * i + (a * f + b * h) * j,
             (c * e + d * g) * i + (c * f + d * h) * j >>
  BY <1>1, <1>2, <1>3 DEF Product, Transposed, Apply, Dot
<1>5. Apply(A, Apply(B, v))
        = << a * (e * i + f * j) + b * (g * i + h * j),
             c * (e * i + f * j) + d * (g * i + h * j) >>
  BY <1>1, <1>2, <1>3 DEF Apply, Dot
<1>6. ASSUME NEW k \in Int, NEW l \in Int
      PROVE  (k * e + l * g) * i + (k * f + l * h) * j
               = k * (e * i + f * j) + l * (g * i + h * j)
  OBVIOUS
<1>7. QED
  BY <1>4, <1>5, <1>6

\* A factor moves through a matrix.
LEMMA ApplyTimes ==
  ASSUME NEW A \in Matrices, NEW v \in Vectors, NEW c \in Int
  PROVE  /\ Apply(A, Times(c, v)) = Times(c, Apply(A, v))
         /\ Apply(Identity, v) = v
BY Entries, VectorEntries DEF Apply, Dot, Times, Identity

-----------------------------------------------------------------------------
(* Fractions.                                                              *)

\* A number that g divides is g times the quotient.
LEMMA Quotient ==
  ASSUME NEW n \in Int, NEW g \in Positives, n % g = 0
  PROVE  n \div g \in Int /\ n = g * (n \div g) /\ (n > 0 => n \div g > 0)
BY DEF Positives

\* LowestMatrix and LowestVector leave the fraction what it was: numerator and
\* denominator are those of the result times a positive number.
LEMMA LowestMatrixEqual ==
  ASSUME NEW A \in Matrices, NEW d \in Positives
  PROVE  LET q == LowestMatrix([num |-> A, den |-> d]) IN
         /\ q \in [num : Matrices, den : Positives]
         /\ \E g \in Positives : A = Scaled(g, q.num) /\ d = g * q.den
<1> DEFINE f == [num |-> A, den |-> d]
           g == Common(A[1], Common(A[2], d))
           R == << Shared(A[1], g), Shared(A[2], g) >>
           q == LowestMatrix(f)
<1>1. CASE g \in 1..d /\ Divides(g, A[1]) /\ Divides(g, A[2]) /\ d % g = 0
  <2>1. q = [num |-> R, den |-> d \div g]
    BY <1>1 DEF LowestMatrix
  <2>2. g \in Positives
    BY <1>1 DEF Positives
  <2>3. A[1][1] % g = 0 /\ A[1][2] % g = 0 /\ A[2][1] % g = 0 /\ A[2][2] % g = 0
    BY <1>1 DEF Divides
  <2> HIDE DEF g
  <2>4. d \div g \in Positives /\ d = g * (d \div g)
    BY <1>1, <2>2, Quotient DEF Positives
  <2>5. /\ A[1][1] \div g \in Int /\ A[1][1] = g * (A[1][1] \div g)
        /\ A[1][2] \div g \in Int /\ A[1][2] = g * (A[1][2] \div g)
        /\ A[2][1] \div g \in Int /\ A[2][1] = g * (A[2][1] \div g)
        /\ A[2][2] \div g \in Int /\ A[2][2] = g * (A[2][2] \div g)
    BY <2>2, <2>3, Entries, Quotient
  <2>6. R = << << A[1][1] \div g, A[1][2] \div g >>, << A[2][1] \div g, A[2][2] \div g >> >>
    BY DEF Shared
  <2>7. R \in Matrices
    BY <2>5, <2>6, MatrixOf
  <2>8. A = Scaled(g, R)
    BY <2>5, <2>6, Entries DEF Scaled, Times
  <2>9. QED
    BY <2>1, <2>2, <2>4, <2>7, <2>8
<1>2. CASE ~(g \in 1..d /\ Divides(g, A[1]) /\ Divides(g, A[2]) /\ d % g = 0)
  <2>1. q = f
    BY <1>2 DEF LowestMatrix
  <2>2. A = Scaled(1, A) /\ d = 1 * d
    BY Entries DEF Scaled, Times, Positives
  <2>3. QED
    BY <2>1, <2>2 DEF Positives
<1>3. QED
  BY <1>1, <1>2

\* The same of a vector.
LEMMA LowestVectorEqual ==
  ASSUME NEW v \in Vectors, NEW d \in Positives
  PROVE  LET q == LowestVector([num |-> v, den |-> d]) IN
         /\ q \in [num : Vectors, den : Positives]
         /\ \E g \in Positives : v = Times(g, q.num) /\ d = g * q.den
<1> DEFINE f == [num |-> v, den |-> d]
           g == Common(v, d)
           r == Shared(v, g)
           q == LowestVector(f)
<1>1. CASE g \in 1..d /\ Divides(g, v) /\ d % g = 0
  <2>1. q = [num |-> r, den |-> d \div g]
    BY <1>1 DEF LowestVector
  <2>2. g \in Positives
    BY <1>1 DEF Positives
  <2>3. v[1] % g = 0 /\ v[2] % g = 0
    BY <1>1 DEF Divides
  <2> HIDE DEF g
  <2>4. d \div g \in Positives /\ d = g * (d \div g)
    BY <1>1, <2>2, Quotient DEF Positives
  <2>5. /\ v[1] \div g \in Int /\ v[1] = g * (v[1] \div g)
        /\ v[2] \div g \in Int /\ v[2] = g * (v[2] \div g)
    BY <2>2, <2>3, VectorEntries, Quotient
  <2>6. r \in Vectors
    BY <2>5, MatrixOf DEF Shared
  <2>7. v = Times(g, r)
    BY <2>5, VectorEntries DEF Shared, Times
  <2>8. QED
    BY <2>1, <2>2, <2>4, <2>6, <2>7
<1>2. CASE ~(g \in 1..d /\ Divides(g, v) /\ d % g = 0)
  <2>1. q = f
    BY <1>2 DEF LowestVector
  <2>2. v = Times(1, v) /\ d = 1 * d
    BY VectorEntries DEF Times, Positives
  <2>3. QED
    BY <2>1, <2>2 DEF Positives
<1>3. QED
  BY <1>1, <1>2

-----------------------------------------------------------------------------
(* Covariances.                                                            *)

\* What a covariance is, by its entries.
LEMMA CovarianceOf ==
  ASSUME NEW a \in Int, NEW b \in Int, NEW c \in Int
  PROVE  LET A == << << a, b >>, << b, c >> >> IN
         /\ A \in Matrices
         /\ Covariance(A) <=> (a >= 0 /\ c >= 0 /\ a * c >= b * b)
BY MatrixOf DEF Covariance, Transposed, PositiveSemidefinite

\* Every covariance has that form.
LEMMA CovarianceIs ==
  ASSUME NEW A \in Matrices, Covariance(A)
  PROVE  \E a, b, c \in Int : /\ A = << << a, b >>, << b, c >> >>
                              /\ a >= 0 /\ c >= 0 /\ a * c >= b * b
<1>1. A[1][2] = A[2][1]
  BY Entries DEF Covariance, Transposed
<1>2. QED
  BY <1>1, Entries DEF Covariance, PositiveSemidefinite

\* The square of a number is not negative.
LEMMA Square ==
  ASSUME NEW n \in Int
  PROVE  n * n \in Int /\ n * n >= 0
OBVIOUS

LEMMA Multiple ==
  ASSUME NEW m \in Int, NEW n \in Int
  PROVE  /\ m >= 0 /\ n >= 0 => m * n >= 0
         /\ m > 0 => (m * n >= 0 <=> n >= 0)
OBVIOUS

\* A quadratic form with a matrix that is positive semidefinite is not
\* negative: completing the square.
LEMMA QuadraticForm ==
  ASSUME NEW a \in Int, NEW b \in Int, NEW c \in Int,
         a >= 0, c >= 0, a * c >= b * b,
         NEW u \in Int, NEW v \in Int
  PROVE  u * (a * u + b * v) + v * (b * u + c * v) >= 0
<1> DEFINE form == u * (a * u + b * v) + v * (b * u + c * v)
           root == a * u + b * v
           det  == a * c - b * b
<1>1. form \in Int /\ root \in Int /\ det \in Int /\ det >= 0
  OBVIOUS
<1>2. a * form = root * root + det * (v * v)
  OBVIOUS
<1>3. CASE a > 0
  <2> HIDE DEF form, root, det
  <2>1. root * root >= 0 /\ v * v >= 0
    BY <1>1, Square
  <2>2. det * (v * v) >= 0
    BY <1>1, <2>1, Square, Multiple
  <2>3. a * form >= 0
    BY <1>1, <1>2, <2>1, <2>2
  <2>4. form >= 0
    BY <1>1, <1>3, <2>3, Multiple
  <2>5. QED
    BY <2>4 DEF form
<1>4. CASE a = 0
  <2>1. b * b = 0
    BY <1>4, Square
  <2>2. b = 0
    BY <2>1
  <2>3. form = c * (v * v)
    BY <1>4, <2>2
  <2>4. QED
    BY <2>3, Square, Multiple
<1>5. QED
  BY <1>3, <1>4

\* A positive multiple of a matrix is positive semidefinite when the matrix is.
LEMMA PositiveScaled ==
  ASSUME NEW A \in Matrices, NEW g \in Positives
  PROVE  PositiveSemidefinite(Scaled(g, A)) <=> PositiveSemidefinite(A)
<1>1. PICK a, b, c, d \in Int : A = << << a, b >>, << c, d >> >>
  BY MatrixIs
<1>2. Scaled(g, A) = << << g * a, g * b >>, << g * c, g * d >> >>
  BY <1>1 DEF Scaled, Times
<1>3. g \in Int /\ g > 0 /\ g * g \in Int /\ g * g > 0
  BY DEF Positives
<1>4. (g * a >= 0 <=> a >= 0) /\ (g * d >= 0 <=> d >= 0)
  BY <1>3, Multiple
<1>5. (g * g) * (a * d - b * c) >= 0 <=> a * d - b * c >= 0
  BY <1>3, Multiple
<1>6. (g * g) * (a * d - b * c) = (g * a) * (g * d) - (g * b) * (g * c)
  BY <1>3
<1>7. (g * a) * (g * d) >= (g * b) * (g * c) <=> a * d >= b * c
  BY <1>3, <1>5, <1>6
<1>8. QED
  BY <1>1, <1>2, <1>4, <1>7 DEF PositiveSemidefinite

\* A positive multiple of a matrix is a covariance if and only if the matrix is.
LEMMA CovarianceScaled ==
  ASSUME NEW A \in Matrices, NEW g \in Positives
  PROVE  Covariance(Scaled(g, A)) <=> Covariance(A)
<1>1. PICK a, b, c, d \in Int : A = << << a, b >>, << c, d >> >>
  BY MatrixIs
<1>2. Scaled(g, A) = << << g * a, g * b >>, << g * c, g * d >> >>
  BY <1>1 DEF Scaled, Times
<1>3. g * b = g * c <=> b = c
  BY DEF Positives
<1>4. (Scaled(g, A) = Transposed(Scaled(g, A))) <=> (A = Transposed(A))
  BY <1>1, <1>2, <1>3 DEF Transposed
<1>5. QED
  BY <1>4, PositiveScaled DEF Covariance

\* The sum of two covariances is one.
LEMMA CovarianceSum ==
  ASSUME NEW A \in Matrices, NEW B \in Matrices, Covariance(A), Covariance(B)
  PROVE  Sum(A, B) \in Matrices /\ Covariance(Sum(A, B))
<1>1. PICK a, b, c \in Int : /\ A = << << a, b >>, << b, c >> >>
                             /\ a >= 0 /\ c >= 0 /\ a * c >= b * b
  BY CovarianceIs
<1>2. PICK d, e, f \in Int : /\ B = << << d, e >>, << e, f >> >>
                             /\ d >= 0 /\ f >= 0 /\ d * f >= e * e
  BY CovarianceIs
<1>3. Sum(A, B) = << << a + d, b + e >>, << b + e, c + f >> >>
  BY <1>1, <1>2 DEF Sum, Plus
<1> DEFINE cross == a * f + d * c - 2 * (b * e)
<1>4. cross >= 0
  <2>1. b * (d * b + e * (-a)) + (-a) * (e * b + f * (-a)) >= 0
    BY <1>2, QuadraticForm
  <2>2. d * (a * c - b * b) >= 0
    BY <1>1, <1>2, Multiple
  <2>3. a * cross = d * (a * c - b * b)
                      + (b * (d * b + e * (-a)) + (-a) * (e * b + f * (-a)))
    OBVIOUS
  <2>4. CASE a > 0
    <3>1. a * cross >= 0
      BY <2>1, <2>2, <2>3
    <3>2. cross \in Int
      OBVIOUS
    <3> HIDE DEF cross
    <3>3. QED
      BY <2>4, <3>1, <3>2, Multiple
  <2>5. CASE a = 0
    <3>1. b * b = 0
      BY <1>1, <2>5, Square
    <3>2. b = 0
      BY <3>1
    <3>3. cross = d * c
      BY <2>5, <3>2
    <3>4. QED
      BY <1>1, <1>2, <3>3, Multiple
  <2>6. QED
    BY <1>1, <2>4, <2>5
<1>5. (a + d) * (c + f) - (b + e) * (b + e) = (a * c - b * b) + (d * f - e * e) + cross
  OBVIOUS
<1>6. (a + d) * (c + f) >= (b + e) * (b + e)
  BY <1>1, <1>2, <1>4, <1>5
<1>7. QED
  BY <1>1, <1>2, <1>3, <1>6, CovarianceOf

\* A covariance between a matrix and its transpose is one.
LEMMA CovarianceAround ==
  ASSUME NEW F \in Matrices, NEW A \in Matrices, Covariance(A)
  PROVE  Around(F, A) \in Matrices /\ Covariance(Around(F, A))
<1>1. PICK a, b, c \in Int : /\ A = << << a, b >>, << b, c >> >>
                             /\ a >= 0 /\ c >= 0 /\ a * c >= b * b
  BY CovarianceIs
<1>2. PICK e, f, g, h \in Int : F = << << e, f >>, << g, h >> >>
  BY MatrixIs
<1> DEFINE p == e * (a * e + b * f) + f * (b * e + c * f)
           q == g * (a * e + b * f) + h * (b * e + c * f)
           r == g * (a * g + b * h) + h * (b * g + c * h)
<1>3. Around(F, A) = << << p, q >>, << q, r >> >>
  BY <1>1, <1>2 DEF Around, Product, Transposed, Apply, Dot
<1>4. p \in Int /\ q \in Int /\ r \in Int
  OBVIOUS
<1>5. p >= 0 /\ r >= 0
  BY <1>1, QuadraticForm
<1>6. p * r - q * q = (a * c - b * b) * ((e * h - f * g) * (e * h - f * g))
  OBVIOUS
<1>7. (a * c - b * b) * ((e * h - f * g) * (e * h - f * g)) >= 0
  BY <1>1, Square, Multiple
<1>8. p * r >= q * q
  BY <1>4, <1>6, <1>7
<1>9. QED
  BY <1>3, <1>4, <1>5, <1>8, CovarianceOf

-----------------------------------------------------------------------------
(* An update.                                                              *)

\* The numerators of P H^T, R and S, over the denominator of P_ and, for R and S,
\* p; and of P_ after the update, over Pivot times the denominator of P_.
Reach(h)        == Apply(P_.num, h)
Weight          == Unit * P_.den
Pivot(h, p)     == p * Dot(h, Reach(h)) + Weight
Posterior(h, p) == Sum(Scaled(Pivot(h, p), P_.num), Scaled(-p, Outer(Reach(h), Reach(h))))

\* What is known of P_.
CovarianceKept == P_ \in [num : Matrices, den : Positives] /\ Covariance(P_.num)

\* The weight of R is positive.
LEMMA WeightPositive ==
  ASSUME CovarianceKept
  PROVE  Weight \in Positives /\ Weight \in Int /\ Weight > 0
<1>1. Unit \in Int /\ Unit > 0 /\ P_.den \in Int /\ P_.den > 0
  BY KalmanAssumption DEF CovarianceKept, Positives
<1>2. QED
  BY <1>1 DEF Weight, Positives

\* The variance of what is measured is not negative: the solver never refuses
\* the innovation covariance, nor meets a pivot that is zero.
LEMMA GainForm ==
  ASSUME CovarianceKept, NEW h \in Vectors, NEW p \in Positives
  PROVE  /\ Dot(h, Reach(h)) \in Nat /\ Pivot(h, p) \in Positives /\ ~Refuses(h, p)
         /\ Gain(h, p) = [num |-> Times(p, Reach(h)), den |-> Pivot(h, p)]
<1>1. P_.num \in Matrices /\ P_.den \in Positives
  BY DEF CovarianceKept
<1>2. PICK a, b, c \in Int : /\ P_.num = << << a, b >>, << b, c >> >>
                             /\ a >= 0 /\ c >= 0 /\ a * c >= b * b
  BY <1>1, CovarianceIs DEF CovarianceKept
<1>3. PICK u, v \in Int : h = << u, v >>
  BY VectorEntries
<1>4. Dot(h, Reach(h)) = u * (a * u + b * v) + v * (b * u + c * v)
  BY <1>2, <1>3 DEF Reach, Dot, Apply
<1>5. Dot(h, Reach(h)) \in Nat
  BY <1>2, <1>4, QuadraticForm
<1>6. p \in Int /\ p > 0 /\ Weight \in Int /\ Weight > 0
  BY WeightPositive DEF Positives
<1>7. p * Dot(h, Reach(h)) \in Int /\ p * Dot(h, Reach(h)) >= 0
  BY <1>5, <1>6, Multiple
<1>8. Pivot(h, p) \in Int /\ Pivot(h, p) > 0
  BY <1>6, <1>7 DEF Pivot
<1>9. InnovationCovariance(h, p).num = Pivot(h, p)
  BY DEF InnovationCovariance, Pivot, Reach, Weight
<1>10. ~Refuses(h, p)
  BY <1>8, <1>9 DEF Refuses
<1>11. Gain(h, p) = [num |-> Times(p, Reach(h)), den |-> Pivot(h, p)]
  BY <1>8, <1>9 DEF Gain, Reach
<1>12. QED
  BY <1>5, <1>8, <1>10, <1>11 DEF Positives

\* The Joseph form is the posterior: (I - K H) P (I - K H)^T + K R K^T is
\* P - K H P.
LEMMA JosephForm ==
  ASSUME CovarianceKept, NEW h \in Vectors, NEW p \in Positives
  PROVE  LET s == Pivot(h, p) IN
         Joseph(Gain(h, p), h, p) = [num |-> Scaled(p * s, Posterior(h, p)),
                                     den |-> s * s * P_.den * p]
<1> DEFINE s == Pivot(h, p)
           d == Weight
<1>1. P_.num \in Matrices /\ d \in Int /\ p \in Int
  BY WeightPositive DEF CovarianceKept, Positives
<1>2. PICK a, b, c \in Int : P_.num = << << a, b >>, << b, c >> >>
  BY <1>1, CovarianceIs DEF CovarianceKept
<1>3. PICK u, v \in Int : h = << u, v >>
  BY VectorEntries
<1> DEFINE q == a * u + b * v
           r == b * u + c * v
<1>4. q \in Int /\ r \in Int /\ Reach(h) = << q, r >>
  BY <1>2, <1>3 DEF Reach, Apply, Dot
<1>5. s = p * (u * q + v * r) + d
  BY <1>3, <1>4 DEF Pivot, Dot
<1>6. s \in Int
  BY <1>1, <1>4, <1>5
<1>7. q = a * u + b * v /\ r = b * u + c * v
  OBVIOUS
<1> HIDE DEF q, r, s, d
<1>8. Gain(h, p) = [num |-> << p * q, p * r >>, den |-> s]
  BY <1>4, GainForm DEF Times, s
<1>9. Remainder(Gain(h, p), h)
        = << << s - (p * q) * u, -((p * q) * v) >>, << -((p * r) * u), s - (p * r) * v >> >>
  BY <1>1, <1>3, <1>4, <1>6, <1>8 DEF Remainder, Sum, Scaled, Outer, Identity, Times, Plus
\* (I - K H) P.
<1> DEFINE e == s * a - p * q * q
           f == s * b - p * q * r
           g == s * c - p * r * r
<1>10. ASSUME NEW k \in Int
       PROVE  /\ (s - (p * k) * u) * a + (-((p * k) * v)) * b = s * a - p * k * q
              /\ (s - (p * k) * u) * b + (-((p * k) * v)) * c = s * b - p * k * r
              /\ (-((p * k) * u)) * a + (s - (p * k) * v) * b = s * b - p * k * q
              /\ (-((p * k) * u)) * b + (s - (p * k) * v) * c = s * c - p * k * r
  BY <1>1, <1>4, <1>6, <1>7
<1>11. Product(Remainder(Gain(h, p), h), P_.num) = << << e, f >>, << f, g >> >>
  BY <1>1, <1>2, <1>4, <1>6, <1>9, <1>10 DEF Product, Transposed, Apply, Dot
\* That times (I - K H)^T.
<1> DEFINE w(m, n, k) == p * k * (m * u + n * v)
<1>12. Around(Remainder(Gain(h, p), h), P_.num)
         = << << s * e - w(e, f, q), s * f - w(e, f, r) >>,
              << s * f - w(f, g, q), s * g - w(f, g, r) >> >>
  <2>1. e \in Int /\ f \in Int /\ g \in Int
    BY <1>1, <1>2, <1>4, <1>6
  <2> HIDE DEF e, f, g
  <2>2. ASSUME NEW m \in Int, NEW n \in Int, NEW k \in Int
        PROVE  /\ m * (s - (p * k) * u) + n * (-((p * k) * v)) = s * m - w(m, n, k)
               /\ m * (-((p * k) * u)) + n * (s - (p * k) * v) = s * n - w(m, n, k)
    BY <1>1, <1>3, <1>6
  <2> HIDE DEF w
  <2>3. Around(Remainder(Gain(h, p), h), P_.num)
          = << << e * (s - (p * q) * u) + f * (-((p * q) * v)),
                  e * (-((p * r) * u)) + f * (s - (p * r) * v) >>,
               << f * (s - (p * q) * u) + g * (-((p * q) * v)),
                  f * (-((p * r) * u)) + g * (s - (p * r) * v) >> >>
    <3> DEFINE i == s - (p * q) * u
               j == -((p * q) * v)
               k == -((p * r) * u)
               l == s - (p * r) * v
    <3>1. Remainder(Gain(h, p), h) = << << i, j >>, << k, l >> >>
      BY <1>9
    <3>2. i \in Int /\ j \in Int /\ k \in Int /\ l \in Int
      BY <1>1, <1>3, <1>4, <1>6
    <3> HIDE DEF i, j, k, l
    <3>3. Transposed(Remainder(Gain(h, p), h)) = << << i, k >>, << j, l >> >>
      BY <3>1 DEF Transposed
    <3>4. Around(Remainder(Gain(h, p), h), P_.num)
            = << << e * i + f * j, e * k + f * l >>, << f * i + g * j, f * k + g * l >> >>
      <4> DEFINE X == << << e, f >>, << f, g >> >>
                 Y == << << i, k >>, << j, l >> >>
      <4>1. Around(Remainder(Gain(h, p), h), P_.num) = Product(X, Y)
        BY <1>11, <3>3 DEF Around
      <4>2. Transposed(Y) = << << i, j >>, << k, l >> >>
        BY DEF Transposed
      <4>3. Product(X, Y) = << Apply(Transposed(Y), X[1]), Apply(Transposed(Y), X[2]) >>
        BY DEF Product
      <4>4. Apply(Transposed(Y), X[1]) = << e * i + f * j, e * k + f * l >>
        BY <2>1, <3>2, <4>2 DEF Apply, Dot
      <4>5. Apply(Transposed(Y), X[2]) = << f * i + g * j, f * k + g * l >>
        BY <2>1, <3>2, <4>2 DEF Apply, Dot
      <4>6. QED
        BY <4>1, <4>3, <4>4, <4>5, Zenon
    <3>5. QED
      BY <3>4 DEF i, j, k, l
  <2>4. /\ e * (s - (p * q) * u) + f * (-((p * q) * v)) = s * e - w(e, f, q)
        /\ e * (-((p * r) * u)) + f * (s - (p * r) * v) = s * f - w(e, f, r)
        /\ f * (s - (p * q) * u) + g * (-((p * q) * v)) = s * f - w(f, g, q)
        /\ f * (-((p * r) * u)) + g * (s - (p * r) * v) = s * g - w(f, g, r)
    BY <1>4, <2>1, <2>2
  <2>5. QED
    BY <2>3, <2>4, Zenon
<1>13. /\ e * u + f * v = s * q - p * q * (u * q + v * r)
       /\ f * u + g * v = s * r - p * r * (u * q + v * r)
  BY <1>1, <1>4, <1>6, <1>7
<1>14. e * u + f * v = q * d /\ f * u + g * v = r * d
  BY <1>1, <1>4, <1>5, <1>6, <1>13
<1> DEFINE entry(m, k, l) == p * (s * m - p * k * (l * d)) + d * ((p * k) * (p * l))
<1>15. Joseph(Gain(h, p), h, p).num = << << p * s * e, p * s * f >>, << p * s * f, p * s * g >> >>
  <2>1. ASSUME NEW m \in Int, NEW k \in Int, NEW l \in Int
        PROVE  entry(m, k, l) = p * s * m
    BY <1>1, <1>6
  <2>2. e \in Int /\ f \in Int /\ g \in Int
    BY <1>1, <1>2, <1>4, <1>6
  <2> HIDE DEF e, f, g
  <2>3. Around(Remainder(Gain(h, p), h), P_.num)
          = << << s * e - p * q * (q * d), s * f - p * r * (q * d) >>,
               << s * f - p * q * (r * d), s * g - p * r * (r * d) >> >>
    BY <1>12, <1>14
  <2>4. Outer(Gain(h, p).num, Gain(h, p).num)
          = << << (p * q) * (p * q), (p * q) * (p * r) >>,
               << (p * r) * (p * q), (p * r) * (p * r) >> >>
    BY <1>8 DEF Outer, Times
  <2>5. Joseph(Gain(h, p), h, p).num
          = << << entry(e, q, q), p * (s * f - p * r * (q * d)) + d * ((p * q) * (p * r)) >>,
               << p * (s * f - p * q * (r * d)) + d * ((p * r) * (p * q)), entry(g, r, r) >> >>
    BY <2>3, <2>4 DEF Joseph, Sum, Scaled, Times, Plus, d, Weight
  <2>6. /\ p * (s * f - p * r * (q * d)) + d * ((p * q) * (p * r)) = p * s * f
        /\ p * (s * f - p * q * (r * d)) + d * ((p * r) * (p * q)) = p * s * f
    BY <1>1, <1>4, <1>6, <2>2
  <2> HIDE DEF entry
  <2>7. QED
    BY <1>4, <2>1, <2>2, <2>5, <2>6
<1>16. Posterior(h, p) = << << e, f >>, << f, g >> >>
  BY <1>1, <1>2, <1>4, <1>6 DEF Posterior, Sum, Scaled, Outer, Times, Plus, s
<1>17. QED
  BY <1>8, <1>15, <1>16 DEF Joseph, Scaled, Times, s

\* The posterior is a covariance.
LEMMA PosteriorCovariance ==
  ASSUME CovarianceKept, NEW h \in Vectors, NEW p \in Positives
  PROVE  Posterior(h, p) \in Matrices /\ Covariance(Posterior(h, p))
<1> DEFINE s == Pivot(h, p)
           d == Weight
<1>1. P_.num \in Matrices /\ d \in Int /\ d > 0 /\ p \in Int /\ p > 0 /\ s \in Int /\ s > 0
  BY GainForm, WeightPositive DEF CovarianceKept, Positives
<1>2. PICK a, b, c \in Int : /\ P_.num = << << a, b >>, << b, c >> >>
                             /\ a >= 0 /\ c >= 0 /\ a * c >= b * b
  BY <1>1, CovarianceIs DEF CovarianceKept
<1>3. PICK u, v \in Int : h = << u, v >>
  BY VectorEntries
<1> DEFINE q == a * u + b * v
           r == b * u + c * v
           t == u * q + v * r
           det == a * c - b * b
<1>4. q \in Int /\ r \in Int /\ t \in Int /\ det \in Int /\ det >= 0 /\ Reach(h) = << q, r >>
  BY <1>2, <1>3 DEF Reach, Apply, Dot
<1>5. s = p * t + d
  BY <1>3, <1>4 DEF Pivot, Dot
<1>6. a * t - q * q = det * (v * v) /\ c * t - r * r = det * (u * u)
  OBVIOUS
<1>7. a * (r * r) + c * (q * q) - 2 * (b * (q * r)) = det * t
  OBVIOUS
<1> HIDE DEF q, r, t, s, d, det
<1> DEFINE e == s * a - p * (q * q)
           f == s * b - p * (q * r)
           g == s * c - p * (r * r)
<1>8. Posterior(h, p) = << << e, f >>, << f, g >> >>
  BY <1>1, <1>2, <1>4 DEF Posterior, Sum, Scaled, Outer, Times, Plus, s
<1>9. e \in Int /\ f \in Int /\ g \in Int
  BY <1>1, <1>4
<1>10. det * (u * u) \in Int /\ det * (u * u) >= 0 /\ det * (v * v) \in Int /\ det * (v * v) >= 0
  BY <1>4, Square, Multiple
<1>11. e >= 0
  <2>1. e = p * (det * (v * v)) + d * a
    <3>1. e = p * (a * t - q * q) + d * a
      BY <1>1, <1>4, <1>5
    <3>2. QED
      BY <1>6, <3>1
  <2>2. p * (det * (v * v)) >= 0 /\ d * a >= 0
    BY <1>1, <1>2, <1>10, Multiple
  <2>3. QED
    BY <1>1, <1>2, <1>10, <2>1, <2>2
<1>12. g >= 0
  <2>1. g = p * (det * (u * u)) + d * c
    <3>1. g = p * (c * t - r * r) + d * c
      BY <1>1, <1>4, <1>5
    <3>2. QED
      BY <1>6, <3>1
  <2>2. p * (det * (u * u)) >= 0 /\ d * c >= 0
    BY <1>1, <1>2, <1>10, Multiple
  <2>3. QED
    BY <1>1, <1>2, <1>10, <2>1, <2>2
<1>13. e * g - f * f = s * (d * det)
  <2>1. e * g - f * f
          = s * (s * (a * c - b * b) - p * (a * (r * r) + c * (q * q) - 2 * (b * (q * r))))
    BY <1>1, <1>4
  <2>2. e * g - f * f = s * (s * det - p * (det * t))
    BY <1>7, <2>1 DEF det
  <2>3. s * det - p * (det * t) = d * det
    BY <1>1, <1>4, <1>5
  <2>4. QED
    BY <2>2, <2>3
<1>14. d * det \in Int /\ d * det >= 0 /\ s * (d * det) >= 0
  BY <1>1, <1>4, Multiple
<1>15. e * g >= f * f
  BY <1>9, <1>13, <1>14
<1> HIDE DEF e, f, g
<1>16. QED
  BY <1>8, <1>9, <1>11, <1>12, <1>15, CovarianceOf

\* The posterior is the inverse of the information that the measurement adds to,
\* when P_ was the inverse of the information.
LEMMA PosteriorInverse ==
  ASSUME CovarianceKept, NEW h \in Vectors, NEW p \in Positives, NEW L \in Matrices,
         Product(P_.num, L) = Scaled(Weight, Identity),
         Product(L, P_.num) = Scaled(Weight, Identity)
  PROVE  LET M == Sum(L, Scaled(p, Outer(h, h)))
             I == Scaled(Pivot(h, p) * Weight, Identity)
         IN  Product(Posterior(h, p), M) = I /\ Product(M, Posterior(h, p)) = I
<1> DEFINE s == Pivot(h, p)
           d == Weight
           M == Sum(L, Scaled(p, Outer(h, h)))
           I == Scaled(s * d, Identity)
<1>1. P_.num \in Matrices /\ d \in Int /\ p \in Int /\ s \in Int
  BY GainForm, WeightPositive DEF CovarianceKept, Positives
<1>2. PICK a, b, c \in Int : P_.num = << << a, b >>, << b, c >> >>
  BY <1>1, CovarianceIs DEF CovarianceKept
<1>3. PICK u, v \in Int : h = << u, v >>
  BY VectorEntries
<1>4. PICK j, k, l, m \in Int : L = << << j, k >>, << l, m >> >>
  BY MatrixIs
<1> DEFINE q == a * u + b * v
           r == b * u + c * v
<1>5. q \in Int /\ r \in Int /\ Reach(h) = << q, r >>
  BY <1>2, <1>3 DEF Reach, Apply, Dot
<1>6. s = p * (u * q + v * r) + d
  BY <1>3, <1>5 DEF Pivot, Dot
<1>7. Scaled(d, Identity) = << << d, 0 >>, << 0, d >> >>
  BY <1>1 DEF Scaled, Identity, Times
<1>8. /\ a * j + b * l = d /\ a * k + b * m = 0
      /\ b * j + c * l = 0 /\ b * k + c * m = d
  <2>1. Product(P_.num, L)
          = << << a * j + b * l, a * k + b * m >>, << b * j + c * l, b * k + c * m >> >>
    BY <1>2, <1>4 DEF Product, Transposed, Apply, Dot
  <2>2. QED
    BY <1>7, <2>1
<1>9. /\ a * j + b * k = d /\ b * j + c * k = 0
      /\ a * l + b * m = 0 /\ b * l + c * m = d
  <2>1. Product(L, P_.num)
          = << << a * j + b * k, b * j + c * k >>, << a * l + b * m, b * l + c * m >> >>
    BY <1>2, <1>4 DEF Product, Transposed, Apply, Dot
  <2>2. QED
    BY <1>7, <2>1
<1>10. a * u + b * v = q /\ b * u + c * v = r
  OBVIOUS
<1>11. q * j + r * l = d * u /\ q * k + r * m = d * v
  <2>1. /\ q * j + r * l = (a * j + b * l) * u + (b * j + c * l) * v
        /\ q * k + r * m = (a * k + b * m) * u + (b * k + c * m) * v
    OBVIOUS
  <2> HIDE DEF q, r
  <2>2. QED
    BY <1>1, <1>3, <1>8, <2>1
<1>12. q * j + r * k = d * u /\ q * l + r * m = d * v
  <2>1. /\ q * j + r * k = (a * j + b * k) * u + (b * j + c * k) * v
        /\ q * l + r * m = (a * l + b * m) * u + (b * l + c * m) * v
    OBVIOUS
  <2> HIDE DEF q, r
  <2>2. QED
    BY <1>1, <1>3, <1>9, <2>1
<1> HIDE DEF q, r, s, d
<1>13. M = << << j + p * (u * u), k + p * (u * v) >>, << l + p * (v * u), m + p * (v * v) >> >>
  BY <1>3, <1>4 DEF Sum, Scaled, Outer, Times, Plus
<1>14. Posterior(h, p)
         = << << s * a - p * (q * q), s * b - p * (q * r) >>,
              << s * b - p * (r * q), s * c - p * (r * r) >> >>
  BY <1>1, <1>2, <1>5 DEF Posterior, Sum, Scaled, Outer, Times, Plus, s
<1>15. I = << << s * d, s * 0 >>, << s * 0, s * d >> >>
  BY <1>1 DEF Scaled, Identity, Times
<1> DEFINE entry(e, f, n, g, o, w) ==
             (s * e - p * (n * q)) * (g + p * (u * w)) + (s * f - p * (n * r)) * (o + p * (v * w))
<1>16. Product(Posterior(h, p), M)
         = << << entry(a, b, q, j, l, u), entry(a, b, q, k, m, v) >>,
              << entry(b, c, r, j, l, u), entry(b, c, r, k, m, v) >> >>
  BY <1>1, <1>3, <1>4, <1>5, <1>13, <1>14 DEF Product, Transposed, Apply, Dot
<1>17. Product(M, Posterior(h, p))
         = << << entry(a, b, q, j, k, u), entry(b, c, r, j, k, u) >>,
              << entry(a, b, q, l, m, v), entry(b, c, r, l, m, v) >> >>
  BY <1>1, <1>3, <1>4, <1>5, <1>13, <1>14 DEF Product, Transposed, Apply, Dot
\* A row of the posterior and a column of the new information: what K H takes
\* away is what the measurement brings.
<1> DEFINE Claim(e, f, n, g, o, w) ==
             (q * g + r * o = d * w /\ e * u + f * v = n)
               => entry(e, f, n, g, o, w) = s * (e * g + f * o)
<1> HIDE DEF entry
<1>18. \A e, f, n, g, o, w \in Int : Claim(e, f, n, g, o, w)
  <2> TAKE e, f, n, g, o, w \in Int
  <2> SUFFICES ASSUME q * g + r * o = d * w, e * u + f * v = n
               PROVE  entry(e, f, n, g, o, w) = s * (e * g + f * o)
    OBVIOUS
  <2> USE DEF entry
  <2> DEFINE X == e * g + f * o
             Y == q * g + r * o
             Z == e * u + f * v
             T == p * (u * q + v * r)
             left == entry(e, f, n, g, o, w)
  <2>1. left = s * X + s * (p * (w * Z)) - p * (n * Y) - p * (n * (w * T))
    BY <1>1, <1>3, <1>5
  <2>2. Y = d * w /\ Z = n /\ T = s - d /\ X \in Int
    BY <1>1, <1>3, <1>5, <1>6
  <2> HIDE DEF left, X, Y, Z, T
  <2>3. left = s * X + s * (p * (w * n)) - p * (n * (d * w)) - p * (n * (w * (s - d)))
    BY <2>1, <2>2
  <2>4. left = s * X
    BY <1>1, <2>2, <2>3
  <2>5. QED
    BY <2>4 DEF left, X
<1> HIDE DEF Claim
<1>19. /\ Claim(a, b, q, j, l, u) /\ Claim(a, b, q, k, m, v)
       /\ Claim(b, c, r, j, l, u) /\ Claim(b, c, r, k, m, v)
       /\ Claim(a, b, q, j, k, u) /\ Claim(b, c, r, j, k, u)
       /\ Claim(a, b, q, l, m, v) /\ Claim(b, c, r, l, m, v)
  BY <1>2, <1>3, <1>4, <1>5, <1>18
<1>20. /\ entry(a, b, q, j, l, u) = s * d /\ entry(a, b, q, k, m, v) = s * 0
       /\ entry(b, c, r, j, l, u) = s * 0 /\ entry(b, c, r, k, m, v) = s * d
       /\ entry(a, b, q, j, k, u) = s * d /\ entry(b, c, r, j, k, u) = s * 0
       /\ entry(a, b, q, l, m, v) = s * 0 /\ entry(b, c, r, l, m, v) = s * d
  BY <1>8, <1>9, <1>10, <1>11, <1>12, <1>19 DEF Claim
<1>21. Product(Posterior(h, p), M) = I /\ Product(M, Posterior(h, p)) = I
  BY <1>15, <1>16, <1>17, <1>20
<1>22. QED
  BY <1>21 DEF s, d

\* With the information that the measurement adds to, the estimate after an
\* update solves the normal equations, when it did before.
LEMMA PosteriorEstimate ==
  ASSUME CovarianceKept, NEW h \in Vectors, NEW p \in Positives,
         NEW L \in Matrices, Product(L, P_.num) = Scaled(Weight, Identity),
         NEW V \in Vectors, NEW D \in Int, NEW E \in Vectors, NEW z \in Int,
         Apply(L, V) = Times(D, E)
  PROVE  LET K == Gain(h, p)
             y == z * D - Dot(h, V)
         IN  Apply(Sum(L, Scaled(p, Outer(h, h))), Plus(Times(K.den, V), Times(y, K.num)))
               = Times(K.den * D, Plus(E, Times(p * z, h)))
<1> DEFINE s == Pivot(h, p)
           d == Weight
           y == z * D - Dot(h, V)
           K == Gain(h, p)
<1>1. P_.num \in Matrices /\ d \in Int /\ p \in Int /\ s \in Int
  BY GainForm, WeightPositive DEF CovarianceKept, Positives
<1>2. PICK a, b, c \in Int : P_.num = << << a, b >>, << b, c >> >>
  BY <1>1, CovarianceIs DEF CovarianceKept
<1>3. PICK u, v \in Int : h = << u, v >>
  BY VectorEntries
<1>4. PICK j, k, l, m \in Int : L = << << j, k >>, << l, m >> >>
  BY MatrixIs
<1>5. PICK e, f \in Int : V = << e, f >>
  BY VectorEntries
<1>6. PICK i, n \in Int : E = << i, n >>
  BY VectorEntries
<1>7. /\ a * j + b * k = d /\ b * j + c * k = 0
      /\ a * l + b * m = 0 /\ b * l + c * m = d
  <2>1. Product(L, P_.num)
          = << << a * j + b * k, b * j + c * k >>, << a * l + b * m, b * l + c * m >> >>
    BY <1>2, <1>4 DEF Product, Transposed, Apply, Dot
  <2>2. Scaled(d, Identity) = << << d, 0 >>, << 0, d >> >>
    BY <1>1 DEF Scaled, Identity, Times
  <2> HIDE DEF d
  <2>3. << << a * j + b * k, b * j + c * k >>, << a * l + b * m, b * l + c * m >> >>
          = << << d, 0 >>, << 0, d >> >>
    BY <2>1, <2>2 DEF d
  <2>4. QED
    BY <2>3
<1> DEFINE q == a * u + b * v
           r == b * u + c * v
<1>8. q \in Int /\ r \in Int /\ Reach(h) = << q, r >>
  BY <1>2, <1>3 DEF Reach, Apply, Dot
<1>9. s = p * (u * q + v * r) + d
  BY <1>3, <1>8 DEF Pivot, Dot
<1>10. j * q + k * r = d * u /\ l * q + m * r = d * v
  <2>1. /\ j * q + k * r = (a * j + b * k) * u + (b * j + c * k) * v
        /\ l * q + m * r = (a * l + b * m) * u + (b * l + c * m) * v
    OBVIOUS
  <2> HIDE DEF q, r
  <2>2. QED
    BY <1>1, <1>3, <1>7, <2>1
<1>11. j * e + k * f = D * i /\ l * e + m * f = D * n
  BY <1>4, <1>5, <1>6 DEF Apply, Dot, Times
<1>12. y = z * D - (u * e + v * f) /\ y \in Int
  BY <1>3, <1>5 DEF Dot
<1>13. K = [num |-> << p * q, p * r >>, den |-> s]
  BY <1>8, GainForm DEF Times
<1> HIDE DEF q, r, s, d, y, K
<1> DEFINE row(g, o, w) == (g + p * (w * u)) * (s * e + y * (p * q))
                             + (o + p * (w * v)) * (s * f + y * (p * r))
           Claim(g, o, w, t) ==
             (g * q + o * r = d * w /\ g * e + o * f = D * t)
               => row(g, o, w) = (s * D) * (t + (p * z) * w)
<1> HIDE DEF row
<1>14. \A g, o, w, t \in Int : Claim(g, o, w, t)
  <2> TAKE g, o, w, t \in Int
  <2> SUFFICES ASSUME g * q + o * r = d * w, g * e + o * f = D * t
               PROVE  row(g, o, w) = (s * D) * (t + (p * z) * w)
    OBVIOUS
  <2> USE DEF row
  <2> DEFINE X == g * e + o * f
             Y == g * q + o * r
             Z == u * e + v * f
             T == p * (u * q + v * r)
             left == row(g, o, w)
  <2>1. left = s * X + y * (p * Y) + p * (w * (s * Z)) + p * (w * (y * T))
    BY <1>1, <1>3, <1>5, <1>8, <1>12
  <2>2. X = D * t /\ Y = d * w /\ Z = z * D - y /\ T = s - d
    BY <1>1, <1>3, <1>5, <1>8, <1>9, <1>12
  <2> HIDE DEF left, X, Y, Z, T
  <2>3. left = s * (D * t) + y * (p * (d * w)) + p * (w * (s * (z * D - y)))
                 + p * (w * (y * (s - d)))
    BY <2>1, <2>2
  <2>4. left = (s * D) * (t + (p * z) * w)
    BY <1>1, <1>12, <2>3
  <2>5. QED
    BY <2>4 DEF left
<1> HIDE DEF Claim
<1>15. Claim(j, k, u, i) /\ Claim(l, m, v, n)
  BY <1>3, <1>4, <1>6, <1>14
<1>16. row(j, k, u) = (s * D) * (i + (p * z) * u) /\ row(l, m, v) = (s * D) * (n + (p * z) * v)
  BY <1>10, <1>11, <1>15 DEF Claim
<1>17. Sum(L, Scaled(p, Outer(h, h)))
         = << << j + p * (u * u), k + p * (u * v) >>, << l + p * (v * u), m + p * (v * v) >> >>
  BY <1>3, <1>4 DEF Sum, Scaled, Outer, Times, Plus
<1>18. Plus(Times(K.den, V), Times(y, K.num)) = << s * e + y * (p * q), s * f + y * (p * r) >>
  BY <1>5, <1>13 DEF Plus, Times
<1>19. Apply(Sum(L, Scaled(p, Outer(h, h))), Plus(Times(K.den, V), Times(y, K.num)))
         = << row(j, k, u), row(l, m, v) >>
  BY <1>17, <1>18 DEF Apply, Dot, row
<1>20. Times(K.den * D, Plus(E, Times(p * z, h)))
         = << (s * D) * (i + (p * z) * u), (s * D) * (n + (p * z) * v) >>
  BY <1>3, <1>6, <1>13 DEF Times, Plus
<1>21. QED
  BY <1>16, <1>19, <1>20 DEF K, y

-----------------------------------------------------------------------------
(* The inductive invariant.                                                *)

\* What multiplied by a positive number is equal is equal.
LEMMA Cancelled ==
  ASSUME NEW A \in Matrices, NEW B \in Matrices, NEW u \in Vectors, NEW v \in Vectors,
         NEW g \in Positives
  PROVE  /\ Scaled(g, A) = Scaled(g, B) => A = B
         /\ Times(g, u) = Times(g, v) => u = v
<1>1. ASSUME NEW m \in Int, NEW n \in Int, g * m = g * n
      PROVE  m = n
  BY <1>1 DEF Positives
<1>2. ASSUME Times(g, u) = Times(g, v)
      PROVE  u = v
  <2>1. g * u[1] = g * v[1] /\ g * u[2] = g * v[2]
    BY <1>2 DEF Times
  <2>2. u[1] = v[1] /\ u[2] = v[2]
    BY <1>1, <2>1, VectorEntries
  <2>3. QED
    BY <2>2, VectorEntries
<1>3. ASSUME Scaled(g, A) = Scaled(g, B)
      PROVE  A = B
  <2>1. /\ g * A[1][1] = g * B[1][1] /\ g * A[1][2] = g * B[1][2]
        /\ g * A[2][1] = g * B[2][1] /\ g * A[2][2] = g * B[2][2]
    BY <1>3 DEF Scaled, Times
  <2>2. /\ A[1][1] = B[1][1] /\ A[1][2] = B[1][2]
        /\ A[2][1] = B[2][1] /\ A[2][2] = B[2][2]
    BY <1>1, <2>1, Entries
  <2>3. QED
    BY <2>2, Entries
<1>4. QED
  BY <1>2, <1>3

\* Multiples of multiples, of sums and of vectors.
LEMMA Multiples ==
  ASSUME NEW A \in Matrices, NEW B \in Matrices, NEW v \in Vectors, NEW m \in Int, NEW n \in Int
  PROVE  /\ Scaled(m, Scaled(n, A)) = Scaled(m * n, A)
         /\ Scaled(m, Sum(A, B)) = Sum(Scaled(m, A), Scaled(m, B))
         /\ Times(m, Times(n, v)) = Times(m * n, v)
         /\ Apply(Scaled(m, A), v) = Times(m, Apply(A, v))
<1>1. PICK a, b, c, d \in Int : A = << << a, b >>, << c, d >> >>
  BY MatrixIs
<1>2. PICK e, f, g, h \in Int : B = << << e, f >>, << g, h >> >>
  BY MatrixIs
<1>3. PICK i, j \in Int : v = << i, j >>
  BY VectorEntries
<1>4. ASSUME NEW k \in Int, NEW l \in Int
      PROVE  /\ m * (n * k) = (m * n) * k
             /\ m * (k + l) = m * k + m * l
             /\ (m * k) * i + (m * l) * j = m * (k * i + l * j)
  BY <1>3
<1>5. Scaled(m, Scaled(n, A)) = Scaled(m * n, A)
  BY <1>1, <1>4 DEF Scaled, Times
<1>6. Scaled(m, Sum(A, B)) = Sum(Scaled(m, A), Scaled(m, B))
  BY <1>1, <1>2, <1>4 DEF Scaled, Sum, Times, Plus
<1>7. Times(m, Times(n, v)) = Times(m * n, v)
  BY <1>3, <1>4 DEF Times
<1>8. Apply(Scaled(m, A), v) = Times(m, Apply(A, v))
  BY <1>1, <1>3, <1>4 DEF Apply, Dot, Scaled, Times
<1>9. QED
  BY <1>5, <1>6, <1>7, <1>8

\* A product of positive numbers is positive.
LEMMA PositiveProduct ==
  ASSUME NEW m \in Positives, NEW n \in Positives
  PROVE  m * n \in Positives /\ m \in Int
<1>1. m \in Int /\ m > 0 /\ n \in Int /\ n > 0
  BY DEF Positives
<1>2. m * n \in Int /\ m * n > 0
  BY <1>1
<1>3. QED
  BY <1>1, <1>2 DEF Positives

\* What update() stores in P_ is the posterior.
LEMMA UpdatedCovariance ==
  ASSUME CovarianceKept, NEW h \in Vectors, NEW p \in Positives
  PROVE  LET q == LowestMatrix(Symmetrized(Joseph(Gain(h, p), h, p)))
             s == Pivot(h, p)
             k == 2 * (p * s)
         IN  /\ q \in [num : Matrices, den : Positives] /\ k \in Positives
             /\ \E g \in Positives : /\ Scaled(k, Posterior(h, p)) = Scaled(g, q.num)
                                     /\ k * (s * P_.den) = g * q.den
<1> DEFINE s == Pivot(h, p)
           d == P_.den
           k == 2 * (p * s)
           N == Posterior(h, p)
           J == Joseph(Gain(h, p), h, p)
           q == LowestMatrix(Symmetrized(J))
<1>1. s \in Positives /\ d \in Positives /\ N \in Matrices /\ Covariance(N)
  BY GainForm, PosteriorCovariance DEF CovarianceKept
<1>2. p * s \in Positives /\ 2 \in Positives
  BY <1>1, PositiveProduct DEF Positives
<1>3. k \in Positives /\ s * d \in Positives
  BY <1>1, <1>2, PositiveProduct
<1>4. k * (s * d) \in Positives
  BY <1>3, PositiveProduct
<1>5. J = [num |-> Scaled(p * s, N), den |-> s * s * d * p]
  BY JosephForm
<1>6. p \in Int /\ s \in Int /\ d \in Int
  BY <1>1 DEF Positives
<1>7. Sum(Scaled(p * s, N), Transposed(Scaled(p * s, N))) = Scaled(k, N)
  <2>1. PICK a, b, c \in Int : N = << << a, b >>, << b, c >> >>
    BY <1>1, CovarianceIs
  <2>2. ASSUME NEW n \in Int
        PROVE  (p * s) * n + (p * s) * n = k * n
    BY <1>6
  <2> HIDE DEF N, s, k
  <2>3. QED
    BY <2>1, <2>2 DEF Sum, Scaled, Transposed, Times, Plus
<1>8. 2 * (s * s * d * p) = k * (s * d)
  BY <1>6
<1>9. Symmetrized(J) = [num |-> Scaled(k, N), den |-> k * (s * d)]
  BY <1>5, <1>7, <1>8 DEF Symmetrized
<1>10. Scaled(k, N) \in Matrices
  BY <1>1, <1>6, Closed
<1>11. QED
  BY <1>3, <1>4, <1>9, <1>10, LowestMatrixEqual

\* P_ remains a covariance, and the update takes a covariance from it.
LEMMA UpdatedShrinks ==
  ASSUME CovarianceKept, NEW h \in Vectors, NEW p \in Positives
  PROVE  LET q == LowestMatrix(Symmetrized(Joseph(Gain(h, p), h, p))) IN
         /\ Covariance(q.num)
         /\ PositiveSemidefinite(Sum(Scaled(q.den, P_.num), Scaled(-P_.den, q.num)))
<1> DEFINE s == Pivot(h, p)
           d == P_.den
           k == 2 * (p * s)
           N == Posterior(h, p)
           q == LowestMatrix(Symmetrized(Joseph(Gain(h, p), h, p)))
           D == Sum(Scaled(q.den, P_.num), Scaled(-d, q.num))
<1>1. q.num \in Matrices /\ q.den \in Positives /\ k \in Positives
  BY UpdatedCovariance
<1>2. PICK g \in Positives : Scaled(k, N) = Scaled(g, q.num) /\ k * (s * d) = g * q.den
  BY UpdatedCovariance
<1>3. N \in Matrices /\ Covariance(N)
  BY PosteriorCovariance
<1>4. s \in Positives /\ d \in Positives /\ P_.num \in Matrices
  BY GainForm DEF CovarianceKept
<1>5. /\ g \in Int /\ k \in Int /\ s \in Int /\ d \in Int /\ p \in Int /\ q.den \in Int
      /\ -d \in Int
  BY <1>1, <1>2, <1>4 DEF Positives
<1>6. Covariance(q.num)
  BY <1>1, <1>2, <1>3, CovarianceScaled
<1>7. D \in Matrices
  <2>1. Scaled(q.den, P_.num) \in Matrices /\ Scaled(-d, q.num) \in Matrices
    BY <1>1, <1>4, <1>5, Closed
  <2>2. QED
    BY <2>1, Closed
<1>8. PICK u, v \in Int : Reach(h) = << u, v >>
  BY <1>4, Closed, VectorEntries DEF Reach
<1>9. PICK a, b, c \in Int : P_.num = << << a, b >>, << b, c >> >>
  BY <1>4, CovarianceIs DEF CovarianceKept
<1>10. PICK e, i, j, f \in Int : q.num = << << e, i >>, << j, f >> >>
  BY <1>1, MatrixIs
\* The difference is a multiple of the square of P H^T.
<1> DEFINE square == << << u * u, u * v >>, << v * u, v * v >> >>
<1>11. N = << << s * a - p * (u * u), s * b - p * (u * v) >>,
              << s * b - p * (v * u), s * c - p * (v * v) >> >>
  BY <1>5, <1>8, <1>9 DEF Posterior, Sum, Scaled, Outer, Times, Plus
<1> HIDE DEF s, d, k, N, q
<1>12. D = << << q.den * a - d * e, q.den * b - d * i >>,
              << q.den * b - d * j, q.den * c - d * f >> >>
  BY <1>5, <1>9, <1>10 DEF Sum, Scaled, Times, Plus
<1>13. /\ k * (s * a - p * (u * u)) = g * e /\ k * (s * b - p * (u * v)) = g * i
       /\ k * (s * b - p * (v * u)) = g * j /\ k * (s * c - p * (v * v)) = g * f
  BY <1>2, <1>10, <1>11 DEF Scaled, Times
<1>14. ASSUME NEW l \in Int, NEW m \in Int, NEW n \in Int, k * (s * l - p * n) = g * m
       PROVE  g * (q.den * l - d * m) = (k * (d * p)) * n
  <2>1. g * (q.den * l - d * m) = (g * q.den) * l - d * (g * m)
    BY <1>5
  <2>2. g * (q.den * l - d * m) = (k * (s * d)) * l - d * (k * (s * l - p * n))
    BY <1>2, <1>14, <2>1
  <2>3. QED
    BY <1>5, <2>2
<1>15. /\ g * (q.den * a - d * e) = (k * (d * p)) * (u * u)
       /\ g * (q.den * b - d * i) = (k * (d * p)) * (u * v)
       /\ g * (q.den * b - d * j) = (k * (d * p)) * (v * u)
       /\ g * (q.den * c - d * f) = (k * (d * p)) * (v * v)
  BY <1>8, <1>9, <1>10, <1>13, <1>14
<1>16. Scaled(g, D) = Scaled(k * (d * p), square)
  BY <1>12, <1>15 DEF Scaled, Times
<1>17. k * (d * p) \in Positives
  BY <1>1, <1>4, PositiveProduct
<1>18. square \in Matrices /\ PositiveSemidefinite(square)
  <2>1. u * u >= 0 /\ v * v >= 0 /\ (u * u) * (v * v) >= (u * v) * (v * u)
    BY Square
  <2>2. QED
    BY <2>1, MatrixOf DEF PositiveSemidefinite
<1>19. PositiveSemidefinite(D)
  BY <1>2, <1>7, <1>16, <1>17, <1>18, PositiveScaled
<1>20. QED
  BY <1>6, <1>19 DEF q, d

\* The inductive invariant, in its parts: what has which type; P_ is a
\* covariance; it is the inverse of the information on both sides; the estimate
\* solves the normal equations.
TypeKept ==
  /\ x \in [num : Vectors, den : Positives]
  /\ lambda \in Matrices /\ eta \in Vectors
  /\ exact \in BOOLEAN /\ steady \in BOOLEAN
InverseKept ==
  exact => /\ Product(P_.num, lambda) = Scaled(Unit * P_.den, Identity)
           /\ Product(lambda, P_.num) = Scaled(Unit * P_.den, Identity)
EstimateKept == exact /\ steady => Apply(lambda, x.num) = Times(x.den, eta)
Inv == TypeKept /\ CovarianceKept /\ InverseKept /\ EstimateKept

\* The zeros and the identity.
LEMMA NoneIs ==
  /\ NoVector \in Vectors /\ NoMatrix \in Matrices /\ Identity \in Matrices
  /\ Covariance(NoMatrix) /\ 1 \in Positives
  /\ \A A \in Matrices, c \in Int : Sum(A, Scaled(c, NoMatrix)) = A
  /\ \A A \in Matrices : Scaled(1, A) = A
  /\ \A v \in Vectors : Times(1, v) = v
<1>1. NoVector \in Vectors /\ NoMatrix \in Matrices /\ Identity \in Matrices
  BY MatrixOf DEF NoVector, NoMatrix, Identity
<1>2. Covariance(NoMatrix) /\ 1 \in Positives
  BY DEF Covariance, Transposed, PositiveSemidefinite, NoMatrix, NoVector, Positives
<1>3. ASSUME NEW A \in Matrices, NEW c \in Int
      PROVE  Sum(A, Scaled(c, NoMatrix)) = A /\ Scaled(1, A) = A
  BY Entries DEF Sum, Plus, Scaled, Times, NoMatrix, NoVector
<1>4. ASSUME NEW v \in Vectors
      PROVE  Times(1, v) = v
  BY VectorEntries DEF Times
<1>5. QED
  BY <1>1, <1>2, <1>3, <1>4

\* Both constructors establish the invariant.
LEMMA InitInv == Init => Inv
<1> SUFFICES ASSUME Init
             PROVE  Inv
  OBVIOUS
<1>1. CASE exact = TRUE /\ x = [num |-> Start.mean, den |-> 1]
            /\ P_ = [num |-> Start.value, den |-> 1] /\ lambda = Start.inverse
            /\ eta = Apply(Start.inverse, Start.mean)
  <2>1. Start.mean \in Vectors /\ Start.value \in Matrices /\ Start.inverse \in Matrices
    BY KalmanAssumption
  <2>2. /\ Product(Start.value, Start.inverse) = Scaled(Unit, Identity)
        /\ Product(Start.inverse, Start.value) = Scaled(Unit, Identity)
        /\ Covariance(Start.value) /\ Unit * 1 = Unit
    BY KalmanAssumption, InverseAssumption, CovarianceAssumption
  <2>3. TypeKept /\ CovarianceKept
    BY <1>1, <2>1, <2>2, NoneIs, Closed DEF TypeKept, CovarianceKept, Init
  <2>4. InverseKept /\ EstimateKept
    BY <1>1, <2>1, <2>2, NoneIs, Closed DEF InverseKept, EstimateKept
  <2>5. QED
    BY <2>3, <2>4 DEF Inv
<1>2. CASE exact = FALSE /\ x = [num |-> NoVector, den |-> 1]
            /\ P_ = [num |-> NoMatrix, den |-> 1] /\ lambda = NoMatrix /\ eta = NoVector
  BY <1>2, NoneIs DEF Inv, TypeKept, CovarianceKept, InverseKept, EstimateKept, Init
<1>3. QED
  BY <1>1, <1>2 DEF Init

\* F between the covariance and the inverse of F between the information cancel.
LEMMA MovedInverse ==
  ASSUME NEW F \in Matrices, NEW G \in Matrices,
         Product(F, G) = Identity, Product(G, F) = Identity,
         NEW A \in Matrices, NEW B \in Matrices, NEW d \in Int,
         Product(A, B) = Scaled(d, Identity)
  PROVE  /\ Product(Around(F, A), Around(Transposed(G), B)) = Scaled(d, Identity)
         /\ Product(Around(Transposed(F), A), Around(G, B)) = Scaled(d, Identity)
<1>1. ASSUME NEW M \in Matrices, NEW N \in Matrices,
             Product(M, N) = Identity, Product(N, M) = Identity
      PROVE  Product(Around(M, A), Around(Transposed(N), B)) = Scaled(d, Identity)
  <2> DEFINE S == Transposed(M)
             T == Transposed(N)
  <2>1. S \in Matrices /\ T \in Matrices
    BY Closed
  <2>2. Product(S, T) = Identity
    <3>1. Product(S, T) = Transposed(Product(N, M))
      BY TransposedProduct
    <3>2. Transposed(Identity) = Identity
      BY DEF Transposed, Identity
    <3>3. QED
      BY <1>1, <3>1, <3>2
  <2>3. Around(M, A) = Product(Product(M, A), S) /\ Around(T, B) = Product(Product(T, B), N)
    BY <1>1, TransposedProduct DEF Around
  <2> HIDE DEF S, T
  <2>4. /\ Product(M, A) \in Matrices /\ Product(T, B) \in Matrices
        /\ Product(B, N) \in Matrices /\ Identity \in Matrices
    BY <2>1, Closed, NoneIs
  <2>5. Product(Product(Product(M, A), S), Product(Product(T, B), N))
          = Product(Product(M, A), Product(S, Product(T, Product(B, N))))
    <3>1. Product(T, Product(B, N)) \in Matrices
      BY <2>1, <2>4, Closed
    <3>2. Product(Product(T, B), N) = Product(T, Product(B, N))
      BY <2>1, ProductAssociative
    <3>3. QED
      BY <2>1, <2>4, <3>1, <3>2, ProductAssociative
  <2>6. Product(S, Product(T, Product(B, N))) = Product(B, N)
    <3>1. Product(S, Product(T, Product(B, N))) = Product(Product(S, T), Product(B, N))
      BY <2>1, <2>4, ProductAssociative
    <3>2. QED
      BY <2>2, <2>4, <3>1, ProductIdentity
  <2>7. Product(Product(M, A), Product(B, N)) = Product(M, Product(Product(A, B), N))
    <3>1. Product(Product(M, A), Product(B, N)) = Product(M, Product(A, Product(B, N)))
      BY <2>4, ProductAssociative
    <3>2. Product(A, Product(B, N)) = Product(Product(A, B), N)
      BY ProductAssociative
    <3>3. QED
      BY <3>1, <3>2
  <2>8. Product(Product(A, B), N) = Scaled(d, N)
    <3>1. Product(Scaled(d, Identity), N) = Scaled(d, Product(Identity, N))
      BY <2>4, ProductScaled
    <3>2. QED
      BY <3>1, ProductIdentity
  <2>9. Product(M, Scaled(d, N)) = Scaled(d, Identity)
    BY <1>1, ProductScaled
  <2>10. QED
    BY <2>3, <2>5, <2>6, <2>7, <2>8, <2>9 DEF T
<1>2. Product(Around(F, A), Around(Transposed(G), B)) = Scaled(d, Identity)
  BY <1>1
<1>3. Transposed(F) \in Matrices /\ Transposed(G) \in Matrices
  BY Closed
<1>4. /\ Product(Transposed(F), Transposed(G)) = Identity
      /\ Product(Transposed(G), Transposed(F)) = Identity
  <2>1. /\ Product(Transposed(F), Transposed(G)) = Transposed(Product(G, F))
        /\ Product(Transposed(G), Transposed(F)) = Transposed(Product(F, G))
    BY TransposedProduct
  <2>2. Transposed(Identity) = Identity
    BY DEF Transposed, Identity
  <2>3. QED
    BY <2>1, <2>2
<1>5. Product(Around(Transposed(F), A), Around(Transposed(Transposed(G)), B)) = Scaled(d, Identity)
  BY <1>1, <1>3, <1>4
<1>6. Transposed(Transposed(G)) = G
  BY TransposedProduct
<1>7. QED
  BY <1>2, <1>5, <1>6

\* The inverse stays one, and the solution a solution, in lowest terms.
LEMMA InverseLowest ==
  ASSUME NEW A \in Matrices, NEW B \in Matrices, NEW L \in Matrices,
         NEW g \in Positives, NEW m \in Positives, NEW d \in Int,
         A = Scaled(g, B), d = g * m,
         Product(A, L) = Scaled(d, Identity), Product(L, A) = Scaled(d, Identity)
  PROVE  Product(B, L) = Scaled(m, Identity) /\ Product(L, B) = Scaled(m, Identity)
<1>1. g \in Int /\ m \in Int
  BY DEF Positives
<1>2. Scaled(d, Identity) = Scaled(g, Scaled(m, Identity))
  BY <1>1, NoneIs, Multiples
<1>3. /\ Scaled(g, Product(B, L)) = Scaled(g, Scaled(m, Identity))
      /\ Scaled(g, Product(L, B)) = Scaled(g, Scaled(m, Identity))
  BY <1>1, <1>2, ProductScaled
<1>4. Product(B, L) \in Matrices /\ Product(L, B) \in Matrices /\ Scaled(m, Identity) \in Matrices
  BY <1>1, NoneIs, Closed
<1>5. NoVector \in Vectors
  BY NoneIs
<1>6. QED
  BY <1>3, <1>4, <1>5, Cancelled

\* A solution stays one in lowest terms.
LEMMA EstimateLowest ==
  ASSUME NEW u \in Vectors, NEW v \in Vectors, NEW e \in Vectors, NEW L \in Matrices,
         NEW g \in Positives, NEW m \in Positives, NEW d \in Int,
         u = Times(g, v), d = g * m, Apply(L, u) = Times(d, e)
  PROVE  Apply(L, v) = Times(m, e)
<1>1. g \in Int /\ m \in Int
  BY DEF Positives
<1>2. Times(d, e) = Times(g, Times(m, e))
  BY <1>1, NoneIs, Multiples
<1>3. Times(g, Apply(L, v)) = Times(g, Times(m, e))
  BY <1>1, <1>2, ApplyTimes
<1>4. Apply(L, v) \in Vectors /\ Times(m, e) \in Vectors
  BY <1>1, Closed
<1>5. QED
  BY <1>3, <1>4, Cancelled, NoneIs

\* A prediction keeps the invariant: F P F^T + Q is a covariance; without process
\* noise its inverse is F^-T times the information times F^-1.
LEMMA PredictInv ==
  ASSUME Inv, NEW m \in Motions, NEW Q \in Noises, Predict(m, Q)
  PROVE  Inv'
<1> DEFINE F == m.value
           G == m.inverse
           d == P_.den
           A == Sum(Around(F, P_.num), Scaled(d, Q))
           v == Apply(F, x.num)
<1>1. /\ F \in Matrices /\ G \in Matrices /\ Q \in Matrices
      /\ Product(F, G) = Identity /\ Product(G, F) = Identity /\ Covariance(Q)
  BY KalmanAssumption, InverseAssumption, CovarianceAssumption
<1>2. /\ P_.num \in Matrices /\ d \in Positives /\ d \in Int /\ Covariance(P_.num)
      /\ P_ = [num |-> P_.num, den |-> d]
  BY DEF Inv, CovarianceKept, Positives
<1>3. /\ x.num \in Vectors /\ x.den \in Positives /\ x.den \in Int
      /\ x = [num |-> x.num, den |-> x.den]
      /\ lambda \in Matrices /\ eta \in Vectors /\ exact \in BOOLEAN /\ steady \in BOOLEAN
  BY DEF Inv, TypeKept, Positives
<1>4. A \in Matrices /\ Covariance(A)
  <2>1. Around(F, P_.num) \in Matrices /\ Covariance(Around(F, P_.num))
    BY <1>1, <1>2, CovarianceAround
  <2>2. Scaled(d, Q) \in Matrices /\ Covariance(Scaled(d, Q))
    BY <1>1, <1>2, CovarianceScaled, Closed
  <2>3. QED
    BY <2>1, <2>2, CovarianceSum
<1>5. v \in Vectors
  BY <1>1, <1>3, Closed
<1>6. /\ x' = LowestVector([num |-> v, den |-> x.den])
      /\ P_' = LowestMatrix([num |-> A, den |-> d])
  BY <1>2, <1>3 DEF Predict
<1>7. /\ lambda' = Around(Transposed(G), lambda) /\ eta' = Apply(Transposed(G), eta)
      /\ exact' = (exact /\ Q = NoMatrix) /\ steady' = steady
  BY DEF Predict
<1>8. Transposed(G) \in Matrices /\ Transposed(Transposed(G)) = G
  BY <1>1, Closed, TransposedProduct
<1>9. lambda' \in Matrices /\ eta' \in Vectors
  <2>1. Product(Transposed(G), lambda) \in Matrices
    BY <1>3, <1>8, Closed
  <2>2. QED
    BY <1>1, <1>3, <1>7, <1>8, <2>1, Closed DEF Around
<1> HIDE DEF F, G, d, A, v
<1>10. P_'.num \in Matrices /\ P_'.den \in Positives /\ P_' \in [num : Matrices, den : Positives]
  BY <1>2, <1>4, <1>6, LowestMatrixEqual
<1>11. PICK g \in Positives : A = Scaled(g, P_'.num) /\ d = g * P_'.den
  BY <1>2, <1>4, <1>6, LowestMatrixEqual
<1>12. x'.num \in Vectors /\ x'.den \in Positives /\ x' \in [num : Vectors, den : Positives]
  BY <1>3, <1>5, <1>6, LowestVectorEqual
<1>13. PICK k \in Positives : v = Times(k, x'.num) /\ x.den = k * x'.den
  BY <1>3, <1>5, <1>6, LowestVectorEqual
<1>14. TypeKept'
  BY <1>3, <1>7, <1>9, <1>12 DEF TypeKept
<1>15. CovarianceKept'
  BY <1>4, <1>10, <1>11, CovarianceScaled DEF CovarianceKept
<1>16. InverseKept'
  <2> SUFFICES ASSUME exact'
               PROVE  /\ Product(P_'.num, lambda') = Scaled(Unit * P_'.den, Identity)
                      /\ Product(lambda', P_'.num) = Scaled(Unit * P_'.den, Identity)
    BY DEF InverseKept
  <2>0. Unit \in Positives /\ Unit * d \in Int
    BY <1>2, KalmanAssumption DEF Positives
  <2>1. exact /\ Q = NoMatrix
    BY <1>7
  <2>2. A = Around(F, P_.num)
    BY <1>1, <1>2, <2>1, CovarianceAround, NoneIs DEF A
  <2>3. /\ Product(P_.num, lambda) = Scaled(Unit * d, Identity)
        /\ Product(lambda, P_.num) = Scaled(Unit * d, Identity)
    BY <2>1 DEF Inv, InverseKept, d
  <2>4. /\ Product(A, lambda') = Scaled(Unit * d, Identity)
        /\ Product(lambda', A) = Scaled(Unit * d, Identity)
    BY <1>1, <1>2, <1>3, <1>7, <2>0, <2>2, <2>3, MovedInverse
  <2>5. Unit * d = g * (Unit * P_'.den) /\ Unit * P_'.den \in Positives
    <3>1. Unit * P_'.den \in Positives
      BY <1>10, <2>0, PositiveProduct
    <3>2. Unit \in Int /\ g \in Int /\ P_'.den \in Int
      BY <1>10, <2>0 DEF Positives
    <3>3. QED
      BY <1>11, <3>1, <3>2
  <2>6. QED
    BY <1>4, <1>9, <1>10, <1>11, <2>0, <2>4, <2>5, InverseLowest
<1>17. EstimateKept'
  <2> SUFFICES ASSUME exact', steady'
               PROVE  Apply(lambda', x'.num) = Times(x'.den, eta')
    BY DEF EstimateKept
  <2>1. Apply(lambda, x.num) = Times(x.den, eta)
    BY <1>7 DEF Inv, EstimateKept
  <2>2. Apply(lambda', v) = Apply(Transposed(G), Apply(lambda, x.num))
    <3>1. Apply(lambda', v) = Apply(Product(Transposed(G), lambda), Apply(G, v))
      <4>1. Product(Transposed(G), lambda) \in Matrices
        BY <1>3, <1>8, Closed
      <4>2. QED
        BY <1>1, <1>5, <1>7, <1>8, <4>1, ApplyProduct DEF Around
    <3>2. Apply(G, v) = x.num
      <4>1. Apply(G, v) = Apply(Product(G, F), x.num)
        BY <1>1, <1>3, ApplyProduct DEF v, F
      <4>2. QED
        BY <1>1, <1>3, <4>1, NoneIs, ApplyTimes
    <3>3. QED
      BY <1>3, <1>8, <3>1, <3>2, ApplyProduct
  <2>3. Apply(lambda', v) = Times(x.den, eta')
    BY <1>3, <1>7, <1>8, <2>1, <2>2, ApplyTimes
  <2>4. QED
    BY <1>3, <1>5, <1>9, <1>12, <1>13, <2>3, EstimateLowest
<1>18. QED
  BY <1>14, <1>15, <1>16, <1>17 DEF Inv

\* An update keeps the invariant: K H P is what the measurement adds to the
\* information.
LEMMA UpdateInv ==
  ASSUME Inv, NEW z \in Readings, NEW h \in Sensors, NEW p \in Precisions, Update(z, h, p)
  PROVE  Inv'
<1> DEFINE K == Gain(h, p)
           s == Pivot(h, p)
           d == P_.den
           L == Sum(lambda, Scaled(p, Outer(h, h)))
           k == 2 * (p * s)
           N == Posterior(h, p)
           q == LowestMatrix(Symmetrized(Joseph(K, h, p)))
<1>1. z \in Int /\ h \in Vectors /\ p \in Positives /\ p \in Int
  BY KalmanAssumption DEF Positives
<1>2. CovarianceKept /\ P_.num \in Matrices /\ d \in Positives /\ d \in Int
  BY DEF Inv, CovarianceKept, Positives
<1>3. /\ x.num \in Vectors /\ x.den \in Positives /\ x.den \in Int
      /\ lambda \in Matrices /\ eta \in Vectors /\ exact \in BOOLEAN /\ steady \in BOOLEAN
  BY DEF Inv, TypeKept, Positives
<1>4. /\ s \in Positives /\ s \in Int /\ ~Refuses(h, p)
      /\ K = [num |-> Times(p, Reach(h)), den |-> s]
  BY <1>1, <1>2, GainForm DEF Positives
<1>5. K.num \in Vectors /\ K.den = s
  <2>1. Reach(h) \in Vectors
    BY <1>1, <1>2, Closed DEF Reach
  <2>2. QED
    BY <1>1, <1>4, <2>1, Closed
<1>6. PICK y \in Residuals(z, h) :
        x' = LowestVector([num |-> Plus(Times(K.den, x.num), Times(y, K.num)),
                           den |-> K.den * x.den])
  BY <1>4 DEF Update
<1>7. /\ P_' = q /\ lambda' = L /\ eta' = Plus(eta, Times(p * z, h))
      /\ exact' = exact /\ steady' = steady
  BY <1>4 DEF Update
<1>8. y \in Int /\ (steady => y = z * x.den - Dot(h, x.num))
  <2>1. Dot(h, x.num) \in Int /\ z * x.den \in Int
    BY <1>1, <1>3, Closed
  <2>2. CASE steady
    BY <2>1, <2>2, <1>6 DEF Residuals
  <2>3. CASE ~steady
    <3>1. PICK r \in Readings : y = r * x.den
      BY <2>3, <1>6 DEF Residuals
    <3>2. r \in Int
      BY KalmanAssumption
    <3>3. QED
      BY <2>3, <3>1, <3>2, <1>3
  <2>4. QED
    BY <2>2, <2>3
<1>9. L \in Matrices /\ eta' \in Vectors
  <2>1. p * z \in Int
    BY <1>1
  <2>2. Times(p * z, h) \in Vectors /\ Scaled(p, Outer(h, h)) \in Matrices
    BY <1>1, <2>1, Closed
  <2>3. QED
    BY <1>3, <1>7, <2>2, Closed
<1> DEFINE v == Plus(Times(K.den, x.num), Times(y, K.num))
<1>10. v \in Vectors /\ K.den * x.den \in Positives /\ K.den * x.den \in Int
  <2>1. Times(K.den, x.num) \in Vectors /\ Times(y, K.num) \in Vectors
    BY <1>3, <1>4, <1>5, <1>8, Closed
  <2>2. QED
    BY <1>3, <1>4, <1>5, <2>1, Closed, PositiveProduct
<1>11. q \in [num : Matrices, den : Positives] /\ k \in Positives /\ k \in Int
  BY <1>1, <1>2, UpdatedCovariance DEF Positives
<1>12. PICK g \in Positives : Scaled(k, N) = Scaled(g, q.num) /\ k * (s * d) = g * q.den
  BY <1>1, <1>2, UpdatedCovariance
<1>13. Covariance(q.num)
  BY <1>1, <1>2, UpdatedShrinks
<1>14. N \in Matrices
  BY <1>1, <1>2, PosteriorCovariance
<1> HIDE DEF s, d, L, k, N, q, v, K
<1>15. /\ x'.num \in Vectors /\ x'.den \in Positives /\ x' \in [num : Vectors, den : Positives]
       /\ \E j \in Positives : v = Times(j, x'.num) /\ K.den * x.den = j * x'.den
  BY <1>6, <1>10, LowestVectorEqual DEF v
<1>16. TypeKept'
  BY <1>3, <1>7, <1>9, <1>15 DEF TypeKept
<1>17. CovarianceKept'
  BY <1>7, <1>11, <1>13 DEF CovarianceKept
<1>18. InverseKept'
  <2> SUFFICES ASSUME exact'
               PROVE  /\ Product(q.num, L) = Scaled(Unit * q.den, Identity)
                      /\ Product(L, q.num) = Scaled(Unit * q.den, Identity)
    BY <1>7 DEF InverseKept
  <2>1. /\ Product(P_.num, lambda) = Scaled(Unit * P_.den, Identity)
        /\ Product(lambda, P_.num) = Scaled(Unit * P_.den, Identity)
    BY <1>7 DEF Inv, InverseKept
  <2>2. /\ Unit \in Positives /\ Unit \in Int
        /\ s * (Unit * d) \in Int /\ k * (s * (Unit * d)) \in Int
    BY <1>2, <1>4, <1>11, KalmanAssumption DEF Positives
  <2>3. /\ Product(N, L) = Scaled(s * (Unit * d), Identity)
        /\ Product(L, N) = Scaled(s * (Unit * d), Identity)
    BY <1>1, <1>2, <1>3, <2>1, PosteriorInverse DEF N, L, s, d, Weight
  <2>4. /\ Product(Scaled(k, N), L) = Scaled(k * (s * (Unit * d)), Identity)
        /\ Product(L, Scaled(k, N)) = Scaled(k * (s * (Unit * d)), Identity)
    <3>1. /\ Product(Scaled(k, N), L) = Scaled(k, Product(N, L))
          /\ Product(L, Scaled(k, N)) = Scaled(k, Product(L, N))
      BY <1>9, <1>11, <1>14, ProductScaled
    <3>2. Scaled(k, Scaled(s * (Unit * d), Identity)) = Scaled(k * (s * (Unit * d)), Identity)
      BY <1>11, <2>2, NoneIs, Multiples
    <3>3. QED
      BY <2>3, <3>1, <3>2
  <2>5. q.num \in Matrices /\ q.den \in Positives /\ Scaled(k, N) \in Matrices
    BY <1>11, <1>14, Closed
  <2>6. k * (s * (Unit * d)) = g * (Unit * q.den) /\ Unit * q.den \in Positives
    <3>1. Unit * q.den \in Positives
      BY <2>2, <2>5, PositiveProduct
    <3>2. g \in Int /\ q.den \in Int
      BY <2>5 DEF Positives
    <3>3. k * (s * (Unit * d)) = Unit * (k * (s * d))
      BY <1>2, <1>4, <1>11, <2>2
    <3>4. QED
      BY <1>12, <2>2, <3>1, <3>2, <3>3
  <2>7. QED
    <3>1. Unit * q.den \in Positives /\ k * (s * (Unit * d)) = g * (Unit * q.den)
      BY <2>6
    <3>2. ASSUME NEW m \in Positives, NEW e \in Int, e = g * m,
                 /\ Product(Scaled(k, N), L) = Scaled(e, Identity)
                 /\ Product(L, Scaled(k, N)) = Scaled(e, Identity)
          PROVE  Product(q.num, L) = Scaled(m, Identity) /\ Product(L, q.num) = Scaled(m, Identity)
      BY <1>9, <1>12, <2>5, <3>2, InverseLowest
    <3>3. QED
      BY <2>2, <2>4, <3>1, <3>2
<1>19. EstimateKept'
  <2> SUFFICES ASSUME exact', steady'
               PROVE  Apply(L, x'.num) = Times(x'.den, eta')
    BY <1>7 DEF EstimateKept
  <2>1. /\ Product(lambda, P_.num) = Scaled(Unit * P_.den, Identity)
        /\ Apply(lambda, x.num) = Times(x.den, eta)
    BY <1>7 DEF Inv, InverseKept, EstimateKept
  <2>2. y = z * x.den - Dot(h, x.num)
    BY <1>7, <1>8
  <2>3. Apply(L, v) = Times(K.den * x.den, eta')
    BY <1>1, <1>2, <1>3, <1>7, <2>1, <2>2, PosteriorEstimate DEF L, v, K, Weight
  <2>4. QED
    BY <1>9, <1>10, <1>15, <2>3, EstimateLowest
<1>20. QED
  BY <1>16, <1>17, <1>18, <1>19 DEF Inv

\* Every step keeps it.
LEMMA NextInv == Inv /\ [Next]_vars => Inv'
<1> SUFFICES ASSUME Inv, [Next]_vars
             PROVE  Inv'
  OBVIOUS
<1>1. ASSUME NEW m \in Motions, NEW Q \in Noises, Predict(m, Q)
      PROVE  Inv'
  BY <1>1, PredictInv
<1>2. ASSUME NEW z \in Readings, NEW h \in Sensors, NEW p \in Precisions, Update(z, h, p)
      PROVE  Inv'
  BY <1>2, UpdateInv
<1>3. CASE UNCHANGED vars
  BY <1>3 DEF vars, Inv, TypeKept, CovarianceKept, InverseKept, EstimateKept
<1>4. QED
  BY <1>1, <1>2, <1>3 DEF Next, Done

-----------------------------------------------------------------------------
(* Theorems.                                                               *)

\* In every reachable state of the filter the inductive invariant holds: the
\* numbers have their types, P_ is a covariance, and without process noise it is
\* the inverse of the information.
THEOREM InvariantHolds == Spec => []Inv
<1>1. QED
  BY InitInv, NextInv, PTL DEF Spec

\* Without process noise the filter is the least-squares estimate: P_ is the
\* inverse of the information, and with a residual operator that returns a vector
\* x solves the normal equations, however predict() and update() follow each
\* other.
THEOREM FilterMatchesInformation == Spec => []MatchesInformationFilter
<1>1. Inv => MatchesInformationFilter
  BY DEF Inv, InverseKept, EstimateKept, MatchesInformationFilter
<1>2. QED
  BY <1>1, InvariantHolds, PTL

\* P_ stays symmetric and positive semidefinite, and update() leaves no direction
\* more uncertain than it was, whatever the residual, with process noise and
\* without.
THEOREM UpdatesShrink == Spec => UpdatesShrinkCovariance
<1> DEFINE Shrinks == /\ Covariance(P_'.num)
                      /\ PositiveSemidefinite(Sum(Scaled(P_'.den, P_.num),
                                                  Scaled(-P_.den, P_'.num)))
<1>1. Inv /\ [Next]_vars => [last' = "update" => Shrinks]_vars
  <2> SUFFICES ASSUME Inv, Next, last' = "update", vars' # vars
               PROVE  Shrinks
    OBVIOUS
  <2>1. ASSUME NEW m \in Motions, NEW Q \in Noises, Predict(m, Q)
        PROVE  Shrinks
    BY <2>1 DEF Predict
  <2>2. ASSUME NEW z \in Readings, NEW h \in Sensors, NEW p \in Precisions, Update(z, h, p)
        PROVE  Shrinks
    <3>1. CovarianceKept /\ h \in Vectors /\ p \in Positives
      BY KalmanAssumption DEF Inv, Positives
    <3>2. ~Refuses(h, p)
      BY <3>1, GainForm
    <3>3. P_' = LowestMatrix(Symmetrized(Joseph(Gain(h, p), h, p)))
      BY <2>2, <3>2 DEF Update
    <3>4. QED
      BY <3>1, <3>3, UpdatedShrinks
  <2>3. QED
    BY <2>1, <2>2 DEF Next, Done
<1>2. QED
  BY <1>1, InvariantHolds, PTL DEF Spec, UpdatesShrinkCovariance

\* update() never returns false: the innovation covariance is positive for every
\* measurement, so neither the refusal nor a pivot of zero is ever reached from a
\* covariance.
THEOREM NeverRefuses ==
  Spec => [](\A h \in Sensors, p \in Precisions : InnovationCovariance(h, p).num > 0)
<1>1. Inv => \A h \in Sensors, p \in Precisions : InnovationCovariance(h, p).num > 0
  <2> SUFFICES ASSUME Inv, NEW h \in Sensors, NEW p \in Precisions
               PROVE  InnovationCovariance(h, p).num > 0
    OBVIOUS
  <2>1. CovarianceKept /\ h \in Vectors /\ p \in Positives
    BY KalmanAssumption DEF Inv, Positives
  <2>2. Pivot(h, p) > 0
    BY <2>1, GainForm DEF Positives
  <2>3. QED
    BY <2>2 DEF InnovationCovariance, Pivot, Reach, Weight
<1>2. QED
  BY <1>1, InvariantHolds, PTL
=============================================================================
