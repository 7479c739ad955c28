--------------------------- MODULE InferenceProofs ---------------------------
(***************************************************************************)
(* Proofs about Inference, for all sizes of the image, the ball, the input *)
(* of the network and its output.                                          *)
(***************************************************************************)
EXTENDS Inference, TLAPS

-----------------------------------------------------------------------------
(* Division of integers, and what a conversion to int leaves.              *)

LEMMA Division ==
  ASSUME NEW n \in Nat, NEW d \in Nat \ {0}
  PROVE  n \div d \in Nat /\ d * (n \div d) <= n /\ n < d * (n \div d) + d
  OBVIOUS

LEMMA ExactDivision ==
  ASSUME NEW n \in Nat, NEW d \in Nat \ {0}, n % d = 0
  PROVE  n = d * (n \div d)
  OBVIOUS

\* A float that is converted to int loses less than one, or exactly one.
LEMMA FloatBounds ==
  ASSUME NEW n \in Nat, NEW d \in Nat \ {0}, NEW r \in TruncatedFloat(n, d)
  PROVE  r \in Int /\ r * d <= n /\ n <= r * d + d
<1> DEFINE q == n \div d
<1>1. q \in Nat /\ d * q <= n /\ n < d * q + d
  BY Division
<1>2. CASE r = q
  BY <1>1, <1>2
<1>3. CASE n % d = 0 /\ r = q - 1
  <2>1. n = d * q
    BY <1>3, ExactDivision
  <2>2. (q - 1) * d = d * q - d
    BY <1>1
  <2>3. QED
    BY <1>1, <1>3, <2>1, <2>2
<1>4. QED
  BY <1>2, <1>3 DEF TruncatedFloat

\* The conversion rounds towards zero.
LEMMA TruncatedBounds ==
  ASSUME NEW n \in Int, NEW d \in Nat \ {0}
  PROVE  /\ Truncated(n, d) \in Int
         /\ n - d < d * Truncated(n, d) /\ d * Truncated(n, d) < n + d
         /\ n >= 0 => d * Truncated(n, d) <= n
<1>1. CASE n >= 0
  BY <1>1, Division DEF Truncated
<1>2. CASE n < 0
  <2>1. -n \in Nat
    BY <1>2
  <2>2. (-n) \div d \in Nat /\ d * ((-n) \div d) <= -n /\ -n < d * ((-n) \div d) + d
    BY <2>1, Division
  <2>3. Truncated(n, d) = -((-n) \div d)
    BY <1>2 DEF Truncated
  <2>4. d * (-((-n) \div d)) = -(d * ((-n) \div d))
    BY <2>2
  <2>5. QED
    BY <1>2, <2>2, <2>3, <2>4
<1>3. QED
  BY <1>1, <1>2
\* From a product to its factors.
LEMMA CancelFactor ==
  ASSUME NEW a \in Int, NEW b \in Int, NEW d \in Nat \ {0}, a * d <= b * d
  PROVE  a <= b
  OBVIOUS

LEMMA CancelStrictly ==
  ASSUME NEW a \in Int, NEW b \in Int, NEW d \in Nat \ {0}, a * d < b * d
  PROVE  a < b
  OBVIOUS

LEMMA KeepFactor ==
  ASSUME NEW a \in Int, NEW b \in Int, NEW d \in Nat, a <= b
  PROVE  a * d <= b * d
  OBVIOUS

LEMMA KeepStrictly ==
  ASSUME NEW a \in Int, NEW b \in Int, NEW d \in Nat \ {0}, a < b
  PROVE  a * d < b * d
  OBVIOUS

-----------------------------------------------------------------------------
(* The image in the input of the network.                                  *)

\* The image has pixels, and the ball is in it.
ImageInv ==
  /\ image \in [cols : Nat \ {0}, rows : Nat \ {0}, x : Nat, y : Nat, diameter : Nat \ {0}]
  /\ image.x <= image.cols /\ image.y <= image.rows
  /\ image.diameter <= image.cols /\ image.diameter <= image.rows

\* The resized image has pixels; it has been scaled, and is where it belongs.
PlacedInv ==
  /\ scale = Scale(image)
  /\ placed.new_w \in NewSizes(image.cols) /\ placed.new_w > 0
  /\ placed.new_h \in NewSizes(image.rows) /\ placed.new_h > 0
  /\ placed.left = Pad(input_cols, placed.new_w)
  /\ placed.top = Pad(input_rows, placed.new_h)

\* Neither side of the image, when it is scaled, is longer than the input's.
LEMMA ScaleFits ==
  ASSUME ImageInv
  PROVE  /\ Scale(image).num \in Nat \ {0} /\ Scale(image).den \in Nat \ {0}
         /\ image.cols * Scale(image).num <= input_cols * Scale(image).den
         /\ image.rows * Scale(image).num <= input_rows * Scale(image).den
<1> USE InferenceAssumption DEF ImageInv, Scale
<1>1. CASE input_cols * image.rows <= input_rows * image.cols
  BY <1>1
<1>2. CASE ~(input_cols * image.rows <= input_rows * image.cols)
  BY <1>2
<1>3. QED
  BY <1>1, <1>2

\* What the conversion to int has left of a side of the image.
LEMMA NewSizeBounds ==
  ASSUME ImageInv, NEW size \in Nat, NEW new \in NewSizes(size), NEW input \in Nat,
         size * Scale(image).num <= input * Scale(image).den
  PROVE  /\ new \in Int /\ new <= input
         /\ new * Scale(image).den <= size * Scale(image).num
         /\ size * Scale(image).num <= new * Scale(image).den + Scale(image).den
<1> DEFINE num == Scale(image).num
           den == Scale(image).den
<1>1. num \in Nat \ {0} /\ den \in Nat \ {0} /\ size * num \in Nat
  BY ScaleFits
<1>2. new \in TruncatedFloat(size * num, den)
  BY DEF NewSizes
<1>3. size * num <= input * den
  OBVIOUS
<1> HIDE DEF num, den
<1>4. new \in Int /\ new * den <= size * num /\ size * num <= new * den + den
  BY <1>1, <1>2, FloatBounds
<1>5. new * den <= input * den
  BY <1>1, <1>3, <1>4
<1>6. new <= input
  BY <1>1, <1>4, <1>5, CancelFactor
<1>7. QED
  BY <1>4, <1>6 DEF num, den

\* The padding is half of what is left, up to a pixel.
LEMMA PadHalves ==
  ASSUME NEW input \in Nat, NEW new \in Int, new <= input
  PROVE  /\ Pad(input, new) \in Nat /\ Pad(input, new) + new <= input
         /\ input - new - 2 * Pad(input, new) \in {0, 1}
  BY DEF Pad

\* An image that cannot be resized is very long, or the input very thin.
LEMMA ThrowsOnlyIfLong ==
  ASSUME ImageInv, NEW new_w \in NewSizes(image.cols), NEW new_h \in NewSizes(image.rows),
         new_w <= 0 \/ new_h <= 0
  PROVE  \/ image.cols >= input_cols * image.rows \/ image.rows >= input_rows * image.cols
         \/ input_cols = 1 \/ input_rows = 1
<1> DEFINE num == Scale(image).num
           den == Scale(image).den
<1>a. /\ num \in Nat \ {0} /\ den \in Nat \ {0}
      /\ image.cols \in Nat \ {0} /\ image.rows \in Nat \ {0}
      /\ input_cols \in Nat \ {0} /\ input_rows \in Nat \ {0}
  BY ScaleFits, InferenceAssumption DEF ImageInv
<1>b. /\ new_w \in Int /\ image.cols * num <= new_w * den + den
      /\ new_h \in Int /\ image.rows * num <= new_h * den + den
  BY <1>a, ScaleFits, NewSizeBounds
<1>c. /\ new_w <= 0 => image.cols * num <= den
      /\ new_h <= 0 => image.rows * num <= den
  BY <1>a, <1>b
<1>1. CASE input_cols * image.rows <= input_rows * image.cols
  <2>1. num = input_cols /\ den = image.cols
    BY <1>1 DEF Scale
  <2> HIDE DEF num, den
  <2>2. CASE new_w <= 0
    <3>1. image.cols * input_cols <= image.cols
      BY <1>c, <2>1, <2>2
    <3>2. input_cols = 1
      BY <1>a, <3>1
    <3>3. QED
      BY <3>2
  <2>3. CASE new_h <= 0
    BY <1>a, <1>c, <2>1, <2>3
  <2>4. QED
    BY <2>2, <2>3
<1>2. CASE ~(input_cols * image.rows <= input_rows * image.cols)
  <2>1. num = input_rows /\ den = image.rows
    BY <1>2 DEF Scale
  <2> HIDE DEF num, den
  <2>2. CASE new_h <= 0
    <3>1. image.rows * input_rows <= image.rows
      BY <1>c, <2>1, <2>2
    <3>2. input_rows = 1
      BY <1>a, <3>1
    <3>3. QED
      BY <3>2
  <2>3. CASE new_w <= 0
    BY <1>a, <1>c, <2>1, <2>3
  <2>4. QED
    BY <2>2, <2>3
<1>3. QED
  BY <1>1, <1>2
\* The placement, in numbers.
LEMMA PlacedBounds ==
  ASSUME ImageInv, PlacedInv
  PROVE  /\ placed.left \in Nat /\ placed.left + placed.new_w <= input_cols
         /\ placed.top \in Nat /\ placed.top + placed.new_h <= input_rows
         /\ input_cols - placed.new_w - 2 * placed.left \in {0, 1}
         /\ input_rows - placed.new_h - 2 * placed.top \in {0, 1}
         /\ placed.new_w \in Nat \ {0} /\ placed.new_h \in Nat \ {0}
         /\ scale.num \in Nat \ {0} /\ scale.den \in Nat \ {0}
         /\ placed.new_w * scale.den <= image.cols * scale.num
         /\ image.cols * scale.num <= placed.new_w * scale.den + scale.den
         /\ placed.new_h * scale.den <= image.rows * scale.num
         /\ image.rows * scale.num <= placed.new_h * scale.den + scale.den
<1>a. /\ image.cols \in Nat /\ image.rows \in Nat
      /\ input_cols \in Nat /\ input_rows \in Nat
  BY InferenceAssumption DEF ImageInv
<1>1. /\ placed.new_w \in Int /\ placed.new_w <= input_cols
      /\ placed.new_w * scale.den <= image.cols * scale.num
      /\ image.cols * scale.num <= placed.new_w * scale.den + scale.den
  BY <1>a, ScaleFits, NewSizeBounds DEF PlacedInv
<1>2. /\ placed.new_h \in Int /\ placed.new_h <= input_rows
      /\ placed.new_h * scale.den <= image.rows * scale.num
      /\ image.rows * scale.num <= placed.new_h * scale.den + scale.den
  BY <1>a, ScaleFits, NewSizeBounds DEF PlacedInv
<1>3. placed.new_w > 0 /\ placed.new_h > 0
  BY DEF PlacedInv
<1>4. /\ placed.left \in Nat /\ placed.left + placed.new_w <= input_cols
      /\ input_cols - placed.new_w - 2 * placed.left \in {0, 1}
  BY <1>a, <1>1, PadHalves DEF PlacedInv
<1>5. /\ placed.top \in Nat /\ placed.top + placed.new_h <= input_rows
      /\ input_rows - placed.new_h - 2 * placed.top \in {0, 1}
  BY <1>a, <1>2, PadHalves DEF PlacedInv
<1>6. scale.num \in Nat \ {0} /\ scale.den \in Nat \ {0}
  BY ScaleFits DEF PlacedInv
<1>7. QED
  BY <1>1, <1>2, <1>3, <1>4, <1>5, <1>6

-----------------------------------------------------------------------------
(* The output of the network.                                              *)

\* The output has the dimensions it is said to have, in one of the shapes.
TensorInv ==
  /\ tensor.c \in Nat /\ tensor.c >= Fields
  /\ tensor.a \in Nat \ {0} /\ tensor.hit \in 0 .. tensor.a - 1
  /\ \/ tensor.shape = << 1, tensor.c, tensor.a >> /\ tensor.last = FALSE
     \/ tensor.shape = << 1, tensor.a, tensor.c >> /\ tensor.last = TRUE
     \/ tensor.shape = << 1, tensor.c, tensor.a, 1 >> /\ tensor.last = FALSE
     \/ tensor.shape = << tensor.c, tensor.a >> /\ tensor.last = FALSE

LEMMA TensorsHaveShapes == tensor \in Tensors => TensorInv
<1> SUFFICES ASSUME tensor \in Tensors PROVE TensorInv
  OBVIOUS
<1>a. PICK c \in ChannelCounts, a \in AnchorCounts :
        tensor \in { [shape |-> s.shape, last |-> s.last, c |-> c, a |-> a, hit |-> hit] :
                       s \in Shapes(c, a), hit \in {0, a - 1} }
  BY DEF Tensors
<1>b. PICK s \in Shapes(c, a), hit \in {0, a - 1} :
        tensor = [shape |-> s.shape, last |-> s.last, c |-> c, a |-> a, hit |-> hit]
  BY <1>a
<1>2. /\ c \in Nat /\ c >= Fields /\ a \in Nat \ {0} /\ hit \in 0 .. a - 1
  BY InferenceAssumption
<1>3. \/ s.shape = << 1, c, a >> /\ s.last = FALSE
      \/ s.shape = << 1, a, c >> /\ s.last = TRUE
      \/ s.shape = << 1, c, a, 1 >> /\ s.last = FALSE
      \/ s.shape = << c, a >> /\ s.last = FALSE
  BY DEF Shapes
<1>4. tensor.shape = s.shape /\ tensor.last = s.last /\ tensor.c = c /\ tensor.a = a /\ tensor.hit = hit
  BY <1>b
<1>5. QED
  BY <1>2, <1>3, <1>4 DEF TensorInv

\* The order that is guessed is the order of the output.
LEMMA PlanFits ==
  ASSUME TensorInv, Guessable
  PROVE  PlanOf(tensor.shape) = [anchors |-> tensor.a, channels |-> tensor.c,
                                 is_channel_last |-> tensor.last]
<1> DEFINE shape == tensor.shape
<1>a. tensor.c \in Nat /\ tensor.a \in Nat
  BY DEF TensorInv
<1>1. CASE shape = << 1, tensor.c, tensor.a >> /\ tensor.last = FALSE
  <2>1. Len(shape) = 3 /\ shape[2] = tensor.c /\ shape[3] = tensor.a
    BY <1>1
  <2>2. ~(shape[2] > shape[3])
    BY <1>a, <1>1, <2>1 DEF Guessable
  <2> HIDE DEF shape
  <2>3. PlanOf(shape) = [anchors |-> shape[3], channels |-> shape[2], is_channel_last |-> FALSE]
    BY <2>1, <2>2 DEF PlanOf
  <2>4. QED
    BY <1>1, <2>1, <2>3 DEF shape
<1>2. CASE shape = << 1, tensor.a, tensor.c >> /\ tensor.last = TRUE
  <2>1. Len(shape) = 3 /\ shape[2] = tensor.a /\ shape[3] = tensor.c
    BY <1>2
  <2>2. shape[2] > shape[3]
    BY <1>a, <1>2, <2>1 DEF Guessable
  <2> HIDE DEF shape
  <2>3. PlanOf(shape) = [anchors |-> shape[2], channels |-> shape[3], is_channel_last |-> TRUE]
    BY <2>1, <2>2 DEF PlanOf
  <2>4. QED
    BY <1>2, <2>1, <2>3 DEF shape
<1>3. CASE shape = << 1, tensor.c, tensor.a, 1 >> /\ tensor.last = FALSE
  <2>1. Len(shape) = 4 /\ shape[2] = tensor.c /\ shape[3] = tensor.a
    BY <1>3
  <2> HIDE DEF shape
  <2>2. PlanOf(shape) = [anchors |-> shape[3], channels |-> shape[2], is_channel_last |-> FALSE]
    BY <2>1 DEF PlanOf
  <2>3. QED
    BY <1>3, <2>1, <2>2 DEF shape
<1>4. CASE shape = << tensor.c, tensor.a >> /\ tensor.last = FALSE
  <2>1. Len(shape) = 2
    BY <1>4
  <2>2. QED
    BY <2>1 DEF Guessable
<1>5. QED
  BY <1>1, <1>2, <1>3, <1>4 DEF TensorInv

\* Two rows of a table of n columns do not overlap.
LEMMA RowsApart ==
  ASSUME NEW n \in Nat \ {0}, NEW i \in Nat, NEW j \in Nat,
         NEW k \in 0 .. n - 1, NEW m \in 0 .. n - 1, i * n + k = j * n + m
  PROVE  i = j /\ k = m
<1>1. ASSUME i < j PROVE FALSE
  <2>1. (i + 1) * n <= j * n /\ (i + 1) * n = i * n + n
    BY <1>1
  <2>2. QED
    BY <2>1
<1>2. ASSUME j < i PROVE FALSE
  <2>1. (j + 1) * n <= i * n /\ (j + 1) * n = j * n + n
    BY <1>2
  <2>2. QED
    BY <2>1
<1>3. i = j
  BY <1>1, <1>2
<1>4. QED
  BY <1>3

\* A table of m rows of n columns has m * n cells.
LEMMA RowsInside ==
  ASSUME NEW n \in Nat \ {0}, NEW m \in Nat \ {0}, NEW i \in 0 .. m - 1, NEW k \in 0 .. n - 1
  PROVE  i * n + k \in 0 .. m * n - 1
<1>1. (i + 1) * n <= m * n /\ (i + 1) * n = i * n + n
  OBVIOUS
<1>2. i * n \in Nat /\ m * n \in Nat
  OBVIOUS
<1>3. QED
  BY <1>1, <1>2

\* No two values of the output share a cell.
LEMMA CellsApart ==
  ASSUME TensorInv, NEW i \in 0 .. tensor.a - 1, NEW j \in 0 .. tensor.a - 1,
         NEW k \in Channels, NEW m \in Channels, Cell(i, k) = Cell(j, m)
  PROVE  i = j /\ k = m
<1>1. /\ tensor.c \in Nat \ {0} /\ tensor.a \in Nat \ {0}
      /\ k \in 0 .. tensor.c - 1 /\ m \in 0 .. tensor.c - 1
  BY DEF TensorInv, Fields, Channels
<1>2. CASE tensor.last
  BY <1>1, <1>2, RowsApart DEF Cell
<1>3. CASE ~tensor.last
  BY <1>1, <1>3, RowsApart DEF Cell
<1>4. QED
  BY <1>2, <1>3
\* Every value is read where it is.
LEMMA ReadsCell ==
  ASSUME TensorInv, Guessable, NEW i \in 0 .. tensor.a - 1, NEW k \in Channels
  PROVE  /\ Address(PlanOf(tensor.shape), i, k) = Cell(i, k)
         /\ Cell(i, k) \in 0 .. tensor.a * tensor.c - 1
<1>1. /\ tensor.c \in Nat \ {0} /\ tensor.a \in Nat \ {0} /\ k \in 0 .. tensor.c - 1
      /\ i \in Nat
  BY DEF TensorInv, Fields, Channels
<1>2. Address(PlanOf(tensor.shape), i, k)
        = (IF tensor.last THEN i * tensor.c ELSE i) + k * (IF tensor.last THEN 1 ELSE tensor.a)
  BY PlanFits DEF Address
<1>3. CASE tensor.last
  <2>1. Cell(i, k) = i * tensor.c + k
    BY <1>3 DEF Cell
  <2>2. Cell(i, k) \in 0 .. tensor.a * tensor.c - 1
    BY <1>1, <2>1, RowsInside
  <2>3. QED
    BY <1>1, <1>2, <1>3, <2>1, <2>2
<1>4. CASE ~tensor.last
  <2>1. Cell(i, k) = k * tensor.a + i
    BY <1>4 DEF Cell
  <2>2. Cell(i, k) \in 0 .. tensor.c * tensor.a - 1 /\ tensor.c * tensor.a = tensor.a * tensor.c
    BY <1>1, <2>1, RowsInside
  <2>3. QED
    BY <1>1, <1>2, <1>4, <2>1, <2>2
<1>5. QED
  BY <1>3, <1>4

\* A cell holds what the network found, or nothing.
LEMMA CellHolds ==
  ASSUME TensorInv, NEW i \in 0 .. tensor.a - 1, NEW k \in Channels
  PROVE  Data(Cell(i, k)) = IF i = tensor.hit THEN Found(k) ELSE [num |-> 0, den |-> 1]
<1>a. tensor.hit \in 0 .. tensor.a - 1
  BY DEF TensorInv
<1>1. CASE i = tensor.hit
  <2>1. \A m \in Channels : Cell(i, k) = Cell(tensor.hit, m) => m = k
    BY <1>a, CellsApart
  <2>2. (CHOOSE m \in Channels : Cell(i, k) = Cell(tensor.hit, m)) = k
    BY <1>1, <2>1
  <2>3. QED
    BY <1>1, <2>2 DEF Data
<1>2. CASE i # tensor.hit
  <2>1. ~ \E m \in Channels : Cell(i, k) = Cell(tensor.hit, m)
    BY <1>a, <1>2, CellsApart
  <2>2. QED
    BY <1>2, <2>1 DEF Data
<1>3. QED
  BY <1>1, <1>2

\* The anchors above the threshold.
Hits(p) == {i \in 0 .. p.anchors - 1 : Data(Address(p, i, kScore)).num > 0}

\* There is one box, that of the ball.
LEMMA OneHit ==
  ASSUME TensorInv, Guessable
  PROVE  Hits(PlanOf(tensor.shape)) = {tensor.hit}
<1> DEFINE p == PlanOf(tensor.shape)
<1>1. p.anchors = tensor.a
  BY PlanFits
<1>2. kScore \in Channels
  BY DEF kScore, Channels, Fields
<1>3. ASSUME NEW i \in 0 .. tensor.a - 1
      PROVE  Data(Address(p, i, kScore))
               = IF i = tensor.hit THEN Found(kScore) ELSE [num |-> 0, den |-> 1]
  BY <1>2, ReadsCell, CellHolds
<1>4. Found(kScore).num = 1
  BY DEF Found, kCx, kCy, kW, kH, kScore
<1>5. tensor.hit \in 0 .. tensor.a - 1
  BY DEF TensorInv
<1> HIDE DEF p
<1>6. \A i \in 0 .. tensor.a - 1 : Data(Address(p, i, kScore)).num > 0 <=> i = tensor.hit
  BY <1>3, <1>4
<1>7. QED
  BY <1>1, <1>5, <1>6 DEF Hits, p

\* The box of the ball, where the network found it.
BallBox ==
  [x      |-> Edge(Found(kCx), Found(kW)),
   y      |-> Edge(Found(kCy), Found(kH)),
   width  |-> Truncated(Found(kW).num, Found(kW).den),
   height |-> Truncated(Found(kH).num, Found(kH).den)]

LEMMA FieldsFound ==
  /\ Found(kCx) = [num |-> placed.left * image.cols + image.x * placed.new_w, den |-> image.cols]
  /\ Found(kCy) = [num |-> placed.top * image.rows + image.y * placed.new_h, den |-> image.rows]
  /\ Found(kW) = [num |-> image.diameter * placed.new_w, den |-> image.cols]
  /\ Found(kH) = [num |-> image.diameter * placed.new_h, den |-> image.rows]
<1>1. /\ kCy # kCx /\ kW # kCx /\ kW # kCy /\ kH # kCx /\ kH # kCy /\ kH # kW
      /\ kScore # kCx /\ kScore # kCy /\ kScore # kW /\ kScore # kH
  BY DEF kCx, kCy, kW, kH, kScore
<1>2. Found(kCx) = [num |-> placed.left * image.cols + image.x * placed.new_w, den |-> image.cols]
  BY <1>1 DEF Found
<1>3. Found(kCy) = [num |-> placed.top * image.rows + image.y * placed.new_h, den |-> image.rows]
  BY <1>1 DEF Found
<1>4. Found(kW) = [num |-> image.diameter * placed.new_w, den |-> image.cols]
  BY <1>1 DEF Found
<1>5. Found(kH) = [num |-> image.diameter * placed.new_h, den |-> image.rows]
  BY <1>1 DEF Found
<1>6. QED
  BY <1>2, <1>3, <1>4, <1>5

LEMMA BoxFound ==
  ASSUME TensorInv, Guessable
  PROVE  BoxOf(PlanOf(tensor.shape), tensor.hit) = BallBox
<1> DEFINE p == PlanOf(tensor.shape)
<1>1. tensor.hit \in 0 .. tensor.a - 1
  BY DEF TensorInv
<1>2. \A k \in Channels : Data(Address(p, tensor.hit, k)) = Found(k)
  BY <1>1, ReadsCell, CellHolds
<1>3. kCx \in Channels /\ kCy \in Channels /\ kW \in Channels /\ kH \in Channels
  BY DEF Channels, Fields, kCx, kCy, kW, kH
<1> HIDE DEF p
<1>4. QED
  BY <1>2, <1>3 DEF BoxOf, BallBox, p

-----------------------------------------------------------------------------
(* The ball, from the image to the box and back.  A side of the image has  *)
(* c pixels and is resized to w; a ball at x of diameter d on it is at n/c *)
(* in the input, of diameter m/c.                                          *)

\* The corner of a box is within a pixel of the center less half the size.
LEMMA EdgeBounds ==
  ASSUME NEW c \in Nat \ {0}, NEW n \in Int, NEW m \in Int
  PROVE  LET edge == Edge([num |-> n, den |-> c], [num |-> m, den |-> c]) IN
           /\ edge \in Int
           /\ 2 * n - m - 2 * c < 2 * c * edge /\ 2 * c * edge < 2 * n - m + 2 * c
<1> DEFINE numerator == 2 * n * c - m * c
           edge == Truncated(numerator, 2 * c * c)
<1>1. numerator \in Int /\ 2 * c * c \in Nat \ {0}
  OBVIOUS
<1>2. /\ edge \in Int
      /\ numerator - 2 * c * c < 2 * c * c * edge /\ 2 * c * c * edge < numerator + 2 * c * c
  BY <1>1, TruncatedBounds
<1>3. Edge([num |-> n, den |-> c], [num |-> m, den |-> c]) = edge
  BY DEF Edge
<1> HIDE DEF edge
<1>4. /\ 2 * c * c * edge = (2 * c * edge) * c
      /\ numerator - 2 * c * c = (2 * n - m - 2 * c) * c
      /\ numerator + 2 * c * c = (2 * n - m + 2 * c) * c
  BY <1>2
<1>5. /\ 2 * c * edge \in Int /\ 2 * n - m - 2 * c \in Int /\ 2 * n - m + 2 * c \in Int
  BY <1>2
<1>6. 2 * n - m - 2 * c < 2 * c * edge
  BY <1>2, <1>4, <1>5, CancelStrictly
<1>7. 2 * c * edge < 2 * n - m + 2 * c
  BY <1>2, <1>4, <1>5, CancelStrictly
<1>8. QED
  BY <1>2, <1>3, <1>6, <1>7

\* A restored center is where the ball was, up to two and a half pixels.
LEMMA CenterNear ==
  ASSUME NEW c \in Nat \ {0}, NEW w \in Nat, NEW x \in 0 .. c, NEW d \in Nat, NEW pad \in Nat,
         NEW num \in Nat, NEW den \in Nat \ {0},
         w * den <= c * num, c * num <= w * den + den,
         NEW edge, edge = Edge([num |-> pad * c + x * w, den |-> c], [num |-> d * w, den |-> c]),
         NEW side, side = Truncated(d * w, c)
  PROVE  LET distance == (2 * edge + side - 2 * pad) * den - 2 * x * num IN
           -5 * den < distance /\ distance < 5 * den
<1> DEFINE center == 2 * edge + side - 2 * pad
           distance == center * den - 2 * x * num
           xw == x * w
           m == d * w
<1>1. xw \in Nat /\ m \in Nat /\ pad * c \in Nat
  OBVIOUS
<1>2. /\ edge \in Int
      /\ 2 * (pad * c + xw) - m - 2 * c < 2 * c * edge
      /\ 2 * c * edge < 2 * (pad * c + xw) - m + 2 * c
  <2>1. pad * c + xw \in Int /\ m \in Int
    BY <1>1
  <2> HIDE DEF xw, m
  <2>2. QED
    BY <2>1, EdgeBounds DEF xw, m
<1>3. side \in Int /\ m - c < c * side /\ c * side <= m
  BY <1>1, TruncatedBounds
<1>4. c * center = 2 * c * edge + c * side - 2 * (pad * c)
  BY <1>2, <1>3
<1>5. 2 * xw - 3 * c < center * c /\ center * c < 2 * xw + 2 * c /\ center \in Int
  <2>1. c * side \in Int /\ 2 * c * edge \in Int /\ center \in Int /\ c * center = center * c
    BY <1>2, <1>3
  <2> HIDE DEF center, xw, m
  <2>2. QED
    BY <1>1, <1>2, <1>3, <1>4, <2>1
<1>6. /\ (2 * xw - 3 * c) * den < (center * c) * den
      /\ (center * c) * den < (2 * xw + 2 * c) * den
  <2>1. 2 * xw - 3 * c \in Int /\ center * c \in Int /\ 2 * xw + 2 * c \in Int
    BY <1>1, <1>5
  <2> HIDE DEF center, xw
  <2>2. QED
    BY <1>5, <2>1, KeepStrictly
<1>7. /\ 2 * (xw * den) <= 2 * ((x * num) * c)
      /\ 2 * ((x * num) * c) <= 2 * (xw * den) + 2 * (c * den)
  <2>1. (w * den) * x <= (c * num) * x /\ (c * num) * x <= (w * den + den) * x
    BY KeepFactor
  <2>2. den * x <= den * c
    OBVIOUS
  <2>3. /\ (w * den) * x = xw * den /\ (c * num) * x = (x * num) * c
        /\ (w * den + den) * x = xw * den + den * x /\ den * c = c * den
    OBVIOUS
  <2>4. /\ xw * den \in Nat /\ (x * num) * c \in Nat /\ den * x \in Nat /\ c * den \in Nat
    OBVIOUS
  <2> HIDE DEF xw
  <2>5. QED
    BY <2>1, <2>2, <2>3, <2>4
<1>8. /\ (2 * xw - 3 * c) * den = 2 * (xw * den) - 3 * (c * den)
      /\ (2 * xw + 2 * c) * den = 2 * (xw * den) + 2 * (c * den)
      /\ (center * c) * den = (center * den) * c
  BY <1>1, <1>5
<1>9. distance \in Int /\ distance * c = (center * den) * c - 2 * ((x * num) * c)
  BY <1>5
<1>10. (-5 * den) * c < distance * c /\ distance * c < (5 * den) * c
  <2> DEFINE A == xw * den
             B == (x * num) * c
             C == c * den
             E == (center * den) * c
  <2>1. A \in Nat /\ B \in Nat /\ C \in Nat \ {0} /\ E \in Int
    BY <1>5
  <2>2. (-5 * den) * c = -5 * C /\ (5 * den) * c = 5 * C
    OBVIOUS
  <2>3. 2 * A - 3 * C < E /\ E < 2 * A + 2 * C
    BY <1>6, <1>8
  <2>4. 2 * A <= 2 * B /\ 2 * B <= 2 * A + 2 * C
    BY <1>7
  <2>5. distance * c = E - 2 * B
    BY <1>9
  <2> HIDE DEF A, B, C, E, distance
  <2>6. -5 * C < E - 2 * B /\ E - 2 * B < 5 * C
    BY <2>1, <2>3, <2>4
  <2>7. QED
    BY <2>2, <2>5, <2>6
<1>11. -5 * den < distance /\ distance < 5 * den
  <2> HIDE DEF distance
  <2>1. QED
    BY <1>9, <1>10, CancelStrictly
<1>12. QED
  BY <1>11

\* A side of the box is that of the ball, up to two pixels too short.
LEMMA SideBounds ==
  ASSUME NEW c \in Nat \ {0}, NEW w \in Nat, NEW d \in 0 .. c,
         NEW num \in Nat, NEW den \in Nat \ {0},
         w * den <= c * num, c * num <= w * den + den,
         NEW side, side = Truncated(d * w, c)
  PROVE  side \in Int /\ side * den <= d * num /\ d * num < (side + 2) * den
<1> DEFINE m == d * w
<1>1. m \in Nat
  OBVIOUS
<1>2. side \in Int /\ m - c < c * side /\ c * side <= m
  BY <1>1, TruncatedBounds
<1>3. c * side \in Int /\ c * side <= m /\ m < c * side + c
  <2> HIDE DEF m
  <2>1. QED
    BY <1>1, <1>2
<1>4. (c * side) * den <= m * den /\ m * den < (c * side + c) * den
  <2> HIDE DEF m
  <2>1. QED
    BY <1>1, <1>3, KeepFactor, KeepStrictly
<1>5. m * den <= (d * num) * c /\ (d * num) * c <= m * den + c * den
  <2>1. (w * den) * d <= (c * num) * d /\ (c * num) * d <= (w * den + den) * d
    BY KeepFactor
  <2>2. den * d <= den * c
    OBVIOUS
  <2>3. /\ (w * den) * d = m * den /\ (c * num) * d = (d * num) * c
        /\ (w * den + den) * d = m * den + den * d /\ den * c = c * den
    OBVIOUS
  <2>4. /\ m * den \in Nat /\ (d * num) * c \in Nat /\ den * d \in Nat /\ c * den \in Nat
    OBVIOUS
  <2> HIDE DEF m
  <2>5. QED
    BY <2>1, <2>2, <2>3, <2>4
<1>6. /\ (c * side) * den = (side * den) * c
      /\ (c * side + c) * den + c * den = ((side + 2) * den) * c
  BY <1>2
<1>7. (side * den) * c <= (d * num) * c /\ (d * num) * c < ((side + 2) * den) * c
  <2>1. /\ (side * den) * c \in Int /\ ((side + 2) * den) * c \in Int /\ m * den \in Int
        /\ (d * num) * c \in Int /\ c * den \in Int /\ (c * side + c) * den \in Int
        /\ (c * side) * den \in Int
    BY <1>2
  <2> HIDE DEF m
  <2>2. QED
    BY <1>4, <1>5, <1>6, <2>1
<1>8. side * den \in Int /\ d * num \in Int /\ (side + 2) * den \in Int
  BY <1>2
<1>9. QED
  BY <1>2, <1>7, <1>8, CancelFactor, CancelStrictly

-----------------------------------------------------------------------------
(* The invariant: what every stage has made, and from what.                *)

\* An image that cannot be resized.
Elongated ==
  \/ image.cols >= input_cols * image.rows \/ image.rows >= input_rows * image.cols
  \/ input_cols = 1 \/ input_rows = 1

SInv ==
  /\ ImageInv
  /\ stage \in {"image", "request", "output", "boxes", "result", "terminated"}
  /\ stage \notin {"image", "terminated"} => PlacedInv
  /\ stage \in {"output", "boxes", "result"} => TensorInv
  /\ stage \in {"boxes", "result"} =>
       /\ plan = PlanOf(tensor.shape)
       /\ Guessable => boxes = [i \in {tensor.hit} |-> BallBox]
  /\ stage = "result" => balls = [i \in DOMAIN boxes |-> Restored(boxes[i])]
  /\ stage = "terminated" => Elongated

LEMMA InitHolds == Init => SInv
<1> SUFFICES ASSUME Init PROVE SInv
  OBVIOUS
<1>1. PICK cols \in Sizes : \E rows, diameter \in Sizes :
        /\ diameter <= cols /\ diameter <= rows
        /\ image \in [cols : {cols}, rows : {rows}, x : 0 .. cols, y : 0 .. rows,
                      diameter : {diameter}]
  BY DEF Init
<1>2. PICK rows \in Sizes, diameter \in Sizes :
        /\ diameter <= cols /\ diameter <= rows
        /\ image \in [cols : {cols}, rows : {rows}, x : 0 .. cols, y : 0 .. rows,
                      diameter : {diameter}]
  BY <1>1
<1>3. cols \in Nat \ {0} /\ rows \in Nat \ {0} /\ diameter \in Nat \ {0}
  BY InferenceAssumption
<1>4. ImageInv
  BY <1>2, <1>3 DEF ImageInv
<1>5. QED
  BY <1>4 DEF SInv, Init

LEMMA NextHolds == SInv /\ [Next]_vars => SInv'
<1> SUFFICES ASSUME SInv, [Next]_vars PROVE SInv'
  OBVIOUS
<1>1. CASE Place
  <2>1. PICK new_w \in NewSizes(image.cols), new_h \in NewSizes(image.rows) :
          /\ new_w > 0 /\ new_h > 0
          /\ placed' = [left |-> Pad(input_cols, new_w), top |-> Pad(input_rows, new_h),
                        new_w |-> new_w, new_h |-> new_h]
    BY <1>1 DEF Place
  <2>2. image' = image /\ scale' = Scale(image) /\ stage' = "request"
    BY <1>1 DEF Place
  <2>3. ImageInv'
    BY <2>2 DEF SInv, ImageInv
  <2>4. PlacedInv'
    BY <2>1, <2>2 DEF PlacedInv, NewSizes, Scale
  <2>5. QED
    BY <2>2, <2>3, <2>4 DEF SInv
<1>2. CASE ResizeThrows
  <2>1. Elongated
    BY <1>2, ThrowsOnlyIfLong DEF ResizeThrows, SInv, Elongated
  <2>2. QED
    BY <1>2, <2>1 DEF ResizeThrows, SInv, ImageInv, Elongated
<1>3. CASE Infer
  <2>1. (tensor \in Tensors => TensorInv)'
    BY TensorsHaveShapes, PTL
  <2>2. TensorInv'
    BY <1>3, <2>1 DEF Infer, Tensors, Shapes
  <2>3. PlacedInv' /\ ImageInv'
    BY <1>3 DEF Infer, SInv, PlacedInv, ImageInv, NewSizes, Scale
  <2>4. QED
    BY <1>3, <2>2, <2>3 DEF Infer, SInv
<1>4. CASE Parse
  <2>1. PlacedInv' /\ ImageInv' /\ TensorInv'
    BY <1>4 DEF Parse, SInv, PlacedInv, ImageInv, NewSizes, Scale, TensorInv
  <2>2. plan' = PlanOf(tensor.shape)'
    BY <1>4 DEF Parse
  <2>3. ASSUME Guessable'
        PROVE  boxes' = [i \in {tensor.hit} |-> BallBox]'
    <3>1. TensorInv /\ Guessable
      BY <1>4, <2>3 DEF Parse, SInv, Guessable
    <3>2. boxes' = [i \in Hits(PlanOf(tensor.shape)) |-> BoxOf(PlanOf(tensor.shape), i)]
      BY <1>4 DEF Parse, Hits
    <3>3. boxes' = [i \in {tensor.hit} |-> BallBox]
      BY <3>1, <3>2, OneHit, BoxFound
    <3>4. BallBox' = BallBox /\ tensor' = tensor
      BY <1>4 DEF Parse, BallBox, Found
    <3>5. QED
      BY <3>3, <3>4
  <2>4. QED
    BY <1>4, <2>1, <2>2, <2>3 DEF Parse, SInv
<1>5. CASE Restore
  <2>1. PlacedInv' /\ ImageInv' /\ TensorInv'
    BY <1>5 DEF Restore, SInv, PlacedInv, ImageInv, NewSizes, Scale, TensorInv
  <2>2. plan' = PlanOf(tensor.shape)'
    BY <1>5 DEF Restore, SInv
  <2>3. BallBox' = BallBox /\ tensor' = tensor /\ boxes' = boxes
    BY <1>5 DEF Restore, BallBox, Found
  <2>4. Guessable' => boxes' = [i \in {tensor.hit} |-> BallBox]'
    BY <1>5, <2>3 DEF Restore, SInv, Guessable
  <2>5. balls' = [i \in DOMAIN boxes |-> Restored(boxes[i])]'
    BY <1>5 DEF Restore, Restored
  <2>6. QED
    BY <1>5, <2>1, <2>2, <2>4, <2>5 DEF Restore, SInv
<1>6. CASE UNCHANGED vars
  <2>1. ImageInv' = ImageInv /\ PlacedInv' = PlacedInv /\ TensorInv' = TensorInv
    BY <1>6 DEF vars, PlacedInv, ImageInv, NewSizes, Scale, TensorInv
  <2>2. BallBox' = BallBox /\ Guessable' = Guessable /\ Elongated' = Elongated
    BY <1>6 DEF vars, BallBox, Found, Guessable, Elongated
  <2>3. [i \in DOMAIN boxes |-> Restored(boxes[i])]' = [i \in DOMAIN boxes |-> Restored(boxes[i])]
    BY <1>6 DEF vars, Restored
  <2>4. QED
    BY <1>6, <2>1, <2>2, <2>3 DEF vars, SInv
<1>7. QED
  BY <1>1, <1>2, <1>3, <1>4, <1>5, <1>6 DEF Next, Finished

\* The invariant holds in every execution.
THEOREM SInvCorrect == Spec => []SInv
<1>1. QED
  BY InitHolds, NextHolds, PTL DEF Spec

-----------------------------------------------------------------------------
(* What follows from it.                                                   *)

\* For an image of any size: once generate_openvino_request has resized it, it
\* lies inside the input and in its middle up to a pixel; and only an image as
\* elongated as the property says, or an input of a single row or column, makes
\* cv::resize throw.
THEOREM FitsCorrect == Spec => []FitsInside
<1>1. SInv => FitsInside
  BY PlacedBounds DEF SInv, FitsInside, Elongated
<1>2. QED
  BY <1>1, SInvCorrect, PTL

\* For an output of any size whose order can be told from its shape,
\* parse_inference_output reads all anchors, every value from the cell where
\* the network has put it, and nothing outside.
THEOREM ReadsCorrect == Spec => []ReadsTheirCell
<1>1. SInv => ReadsTheirCell
  <2> SUFFICES ASSUME SInv, stage = "boxes", Guessable PROVE ReadsTheirCell
    BY DEF ReadsTheirCell
  <2>1. TensorInv /\ plan = PlanOf(tensor.shape)
    BY DEF SInv
  <2>2. plan.anchors = tensor.a
    BY <2>1, PlanFits
  <2>3. QED
    BY <2>1, <2>2, ReadsCell DEF ReadsTheirCell
<1>2. QED
  BY <1>1, SInvCorrect, PTL

\* For all sizes of the image, the ball, the input and the output, the one ball
\* the network has found is the one ball restore_coordinates returns, where it
\* was up to two and a half pixels of the input, and up to one too small.
THEOREM RestoredCorrect == Spec => []BallRestored
<1>1. SInv => BallRestored
  <2> SUFFICES ASSUME SInv, stage = "result", Guessable PROVE BallRestored
    BY DEF BallRestored
  <2> DEFINE num == scale.num
             den == scale.den
             d == image.diameter
             edge_x == Edge(Found(kCx), Found(kW))
             edge_y == Edge(Found(kCy), Found(kH))
             width == Truncated(Found(kW).num, Found(kW).den)
             height == Truncated(Found(kH).num, Found(kH).den)
             ball == balls[tensor.hit]
  <2>1. ImageInv /\ PlacedInv /\ TensorInv /\ plan = PlanOf(tensor.shape)
    BY DEF SInv
  <2>2. /\ boxes = [i \in {tensor.hit} |-> BallBox]
        /\ balls = [i \in DOMAIN boxes |-> Restored(boxes[i])]
    BY DEF SInv
  <2>3. DOMAIN balls = {tensor.hit}
    BY <2>2
  <2>4. boxes[tensor.hit] = [x |-> edge_x, y |-> edge_y, width |-> width, height |-> height]
    BY <2>2 DEF BallBox
  <2>5. ball = [center_x |-> 2 * edge_x + width - 2 * placed.left,
                center_y |-> 2 * edge_y + height - 2 * placed.top,
                radius   |-> height + width]
    BY <2>2, <2>3, <2>4 DEF Restored
  <2>6. /\ Found(kCx) = [num |-> placed.left * image.cols + image.x * placed.new_w,
                         den |-> image.cols]
        /\ Found(kCy) = [num |-> placed.top * image.rows + image.y * placed.new_h,
                         den |-> image.rows]
        /\ Found(kW) = [num |-> image.diameter * placed.new_w, den |-> image.cols]
        /\ Found(kH) = [num |-> image.diameter * placed.new_h, den |-> image.rows]
    BY FieldsFound
  <2>7. /\ width = Truncated(d * placed.new_w, image.cols)
        /\ height = Truncated(d * placed.new_h, image.rows)
    BY <2>6
  <2>8. /\ image.cols \in Nat \ {0} /\ image.rows \in Nat \ {0}
        /\ image.x \in 0 .. image.cols /\ image.y \in 0 .. image.rows
        /\ d \in 0 .. image.cols /\ d \in 0 .. image.rows /\ d \in Nat
    BY <2>1 DEF ImageInv
  <2>9. /\ placed.left \in Nat /\ placed.top \in Nat
        /\ placed.new_w \in Nat /\ placed.new_h \in Nat
        /\ num \in Nat /\ den \in Nat \ {0}
        /\ placed.new_w * den <= image.cols * num
        /\ image.cols * num <= placed.new_w * den + den
        /\ placed.new_h * den <= image.rows * num
        /\ image.rows * num <= placed.new_h * den + den
    BY <2>1, PlacedBounds
  <2>10. edge_x = Edge([num |-> placed.left * image.cols + image.x * placed.new_w,
                        den |-> image.cols],
                       [num |-> d * placed.new_w, den |-> image.cols])
    BY <2>6
  <2>11. edge_y = Edge([num |-> placed.top * image.rows + image.y * placed.new_h,
                        den |-> image.rows],
                       [num |-> d * placed.new_h, den |-> image.rows])
    BY <2>6
  <2> HIDE DEF num, den, d, edge_x, edge_y, width, height
  <2>12. LET distance == (2 * edge_x + width - 2 * placed.left) * den - 2 * image.x * num
         IN  -5 * den < distance /\ distance < 5 * den
    BY <2>7, <2>8, <2>9, <2>10, CenterNear
  <2>13. LET distance == (2 * edge_y + height - 2 * placed.top) * den - 2 * image.y * num
         IN  -5 * den < distance /\ distance < 5 * den
    BY <2>7, <2>8, <2>9, <2>11, CenterNear
  <2>14. width \in Int /\ width * den <= d * num /\ d * num < (width + 2) * den
    BY <2>7, <2>8, <2>9, SideBounds
  <2>15. height \in Int /\ height * den <= d * num /\ d * num < (height + 2) * den
    BY <2>7, <2>8, <2>9, SideBounds
  <2>16. (height + width) * den <= 2 * d * num /\ 2 * d * num < (height + width + 4) * den
    <3>1. /\ (height + width) * den = height * den + width * den
          /\ (height + width + 4) * den = (height + 2) * den + (width + 2) * den
          /\ 2 * d * num = d * num + d * num
      BY <2>8, <2>9, <2>14, <2>15
    <3>2. /\ height * den \in Int /\ width * den \in Int /\ d * num \in Int
          /\ (height + 2) * den \in Int /\ (width + 2) * den \in Int
      BY <2>8, <2>9, <2>14, <2>15
    <3>3. QED
      BY <2>14, <2>15, <3>1, <3>2
  <2>17. Near(ball.center_x, image.x, 5) /\ Near(ball.center_y, image.y, 5)
    BY <2>5, <2>12, <2>13 DEF Near, num, den
  <2>18. /\ ball.radius * scale.den <= 2 * image.diameter * scale.num
         /\ 2 * image.diameter * scale.num < (ball.radius + 4) * scale.den
    BY <2>5, <2>16 DEF num, den, d
  <2>19. QED
    BY <2>3, <2>17, <2>18 DEF BallRestored
<1>2. QED
  BY <1>1, SInvCorrect, PTL
=============================================================================
