----------------------------- MODULE Inference -----------------------------
(***************************************************************************)
(* The way of a ball through OpenVinoNet (src/module/identifier/model.cpp):*)
(* generate_openvino_request scales an image into the middle of the        *)
(* network's input, parse_inference_output finds the boxes in the flat     *)
(* output and rounds them to integers, restore_coordinates maps them back  *)
(* to the image.                                                           *)
(*                                                                         *)
(* The network is external: it finds the one ball of the image exactly     *)
(* where it is in its input and reports it at one anchor.  Its output has  *)
(* the dimensions batch, channels and anchors, in one of two orders,       *)
(* possibly with a further dimension of size one, or without the batch;    *)
(* the network knows the order, parse_inference_output guesses it.         *)
(*                                                                         *)
(* Floating-point numbers are represented by the rational they stand for.  *)
(* Where the exact value is an integer, the float may be just below it,    *)
(* and its conversion to int is one less.                                  *)
(***************************************************************************)
EXTENDS Integers, Sequences

CONSTANTS
  input_cols, input_rows, \* config
  Sizes,         \* bound: columns and rows of an image, diameter of a ball
  ChannelCounts, \* bounds: the sizes of the dimensions of the network's
  AnchorCounts   \* output

Fields == 5  \* kCx, kCy, kW, kH, kScore: the channels the function reads

ASSUME InferenceAssumption ==
  /\ input_cols \in Nat \ {0} /\ input_rows \in Nat \ {0}
  /\ Sizes \subseteq Nat \ {0} /\ AnchorCounts \subseteq Nat \ {0}
  /\ ChannelCounts \subseteq Nat /\ \A c \in ChannelCounts : c >= Fields

VARIABLES
  stage,   \* "image", "request", "output", "boxes", "result" or "terminated"
  image,   \* cols and rows of the image, and the ball in it
  scale,   \* the scale is scale.num / scale.den
  placed,  \* where the resized image lies in the input
  tensor,  \* the output: its shape, its sizes and where it has the ball
  plan,    \* what parse_inference_output has made of the shape
  boxes,   \* the boxes it returns, by anchor
  balls    \* twice the restored center and four times the radius, both
           \* multiplied by the scale, by anchor

vars == << stage, image, scale, placed, tensor, plan, boxes, balls >>

Channels == 0 .. Fields - 1
kCx    == 0
kCy    == 1
kW     == 2
kH     == 3
kScore == 4

\* static_cast<int>(n / d), which rounds towards zero.
Truncated(n, d) == IF n >= 0 THEN n \div d ELSE -((-n) \div d)

\* ... and what it may be for the float nearest to a product that is n / d.
TruncatedFloat(n, d) == {n \div d} \union (IF n % d = 0 THEN {n \div d - 1} ELSE {})

NoTensor == [shape |-> << >>, last |-> FALSE, c |-> 0, a |-> 0, hit |-> 0]
NoPlan   == [anchors |-> 0, channels |-> 0, is_channel_last |-> FALSE]

Init ==
  /\ stage = "image"
  /\ \E cols, rows, diameter \in Sizes :
       /\ diameter <= cols /\ diameter <= rows
       /\ image \in [cols : {cols}, rows : {rows}, x : 0 .. cols, y : 0 .. rows,
                     diameter : {diameter}]
  /\ scale = [num |-> 1, den |-> 1]
  /\ placed = [left |-> 0, top |-> 0, new_w |-> 0, new_h |-> 0]
  /\ tensor = NoTensor
  /\ plan = NoPlan
  /\ boxes = << >>
  /\ balls = << >>

-----------------------------------------------------------------------------
(* generate_openvino_request.                                              *)

\* Defect: the ratios are those of integers.
ScaleOfIntegers(i) ==
  IF input_cols \div i.cols <= input_rows \div i.rows
  THEN [num |-> input_cols \div i.cols, den |-> 1]
  ELSE [num |-> input_rows \div i.rows, den |-> 1]

\* std::min(input_w / img_w, input_h / img_h).
Scale(i) ==
  IF input_cols * i.rows <= input_rows * i.cols
  THEN [num |-> input_cols, den |-> i.cols]
  ELSE [num |-> input_rows, den |-> i.rows]

NewSizes(size) == TruncatedFloat(size * Scale(image).num, Scale(image).den)

Pad(input, new) == (input - new) \div 2

Place ==
  /\ stage = "image"
  /\ \E new_w \in NewSizes(image.cols), new_h \in NewSizes(image.rows) :
       /\ new_w > 0 /\ new_h > 0
       /\ placed' = [left |-> Pad(input_cols, new_w), top |-> Pad(input_rows, new_h),
                     new_w |-> new_w, new_h |-> new_h]
  /\ scale' = Scale(image)
  /\ stage' = "request"
  /\ UNCHANGED << image, tensor, plan, boxes, balls >>

\* cv::resize to a size of zero throws out of a noexcept function.
ResizeThrows ==
  /\ stage = "image"
  /\ \E new_w \in NewSizes(image.cols), new_h \in NewSizes(image.rows) :
       new_w <= 0 \/ new_h <= 0
  /\ stage' = "terminated"
  /\ UNCHANGED << image, scale, placed, tensor, plan, boxes, balls >>

-----------------------------------------------------------------------------
(* The network.                                                            *)

Shapes(c, a) ==
  { [shape |-> <<1, c, a>>, last |-> FALSE], [shape |-> <<1, a, c>>, last |-> TRUE],
    [shape |-> <<1, c, a, 1>>, last |-> FALSE], [shape |-> <<c, a>>, last |-> FALSE] }

\* The sizes that can occur, and an anchor for the ball.
Tensors ==
  UNION { { [shape |-> s.shape, last |-> s.last, c |-> c, a |-> a, hit |-> hit] :
              s \in Shapes(c, a), hit \in {0, a - 1} } :
            c \in ChannelCounts, a \in AnchorCounts }

Infer ==
  /\ stage = "request"
  /\ tensor' \in Tensors
  /\ stage' = "output"
  /\ UNCHANGED << image, scale, placed, plan, boxes, balls >>

\* Where the tensor has the value of a channel of an anchor.
Cell(anchor, channel) ==
  IF tensor.last THEN anchor * tensor.c + channel ELSE channel * tensor.a + anchor

\* The box of the ball in the network's input.
Found(channel) ==
  CASE channel = kCx -> [num |-> placed.left * image.cols + image.x * placed.new_w,
                         den |-> image.cols]
    [] channel = kCy -> [num |-> placed.top * image.rows + image.y * placed.new_h,
                         den |-> image.rows]
    [] channel = kW  -> [num |-> image.diameter * placed.new_w, den |-> image.cols]
    [] channel = kH  -> [num |-> image.diameter * placed.new_h, den |-> image.rows]
    [] channel = kScore -> [num |-> 1, den |-> 1]

\* A cell of the output; the other anchors and the channels nobody reads hold
\* zero.
Data(address) ==
  IF \E k \in Channels : address = Cell(tensor.hit, k)
  THEN Found(CHOOSE k \in Channels : address = Cell(tensor.hit, k))
  ELSE [num |-> 0, den |-> 1]

-----------------------------------------------------------------------------
(* parse_inference_output.                                                 *)

\* The larger dimension is that of the anchors.  A shape of fewer dimensions
\* has no boxes.
PlanOf(shape) ==
  IF Len(shape) < 3 THEN NoPlan
  ELSE IF Len(shape) = 3 /\ shape[2] > shape[3]
  THEN [anchors |-> shape[2], channels |-> shape[3], is_channel_last |-> TRUE]
  ELSE [anchors |-> shape[3], channels |-> shape[2], is_channel_last |-> FALSE]

\* Defect: the stride of the other order.
AddressStrided(p, anchor, channel) ==
  (IF p.is_channel_last THEN anchor * p.channels ELSE anchor)
    + channel * (IF p.is_channel_last THEN 1 ELSE p.channels)

\* offset + channel * stride
Address(p, anchor, channel) ==
  (IF p.is_channel_last THEN anchor * p.channels ELSE anchor)
    + channel * (IF p.is_channel_last THEN 1 ELSE p.anchors)

\* static_cast<int>(center - size * 0.5F)
Edge(center, size) ==
  Truncated(2 * center.num * size.den - size.num * center.den,
            2 * center.den * size.den)

BoxOf(p, anchor) ==
  LET field(k) == Data(Address(p, anchor, k)) IN
    [x      |-> Edge(field(kCx), field(kW)),
     y      |-> Edge(field(kCy), field(kH)),
     width  |-> Truncated(field(kW).num, field(kW).den),
     height |-> Truncated(field(kH).num, field(kH).den)]

\* The loop over the anchors; only a value of one is above the threshold.
Parse ==
  /\ stage = "output"
  /\ LET p    == PlanOf(tensor.shape)
         hits == {i \in 0 .. p.anchors - 1 : Data(Address(p, i, kScore)).num > 0}
     IN /\ plan' = p
        /\ boxes' = [i \in hits |-> BoxOf(p, i)]
  /\ stage' = "boxes"
  /\ UNCHANGED << image, scale, placed, tensor, balls >>

-----------------------------------------------------------------------------
(* restore_coordinates.                                                    *)

\* Defect: the padding is not taken off.
RestoredPadded(box) ==
  [center_x |-> 2 * box.x + box.width,
   center_y |-> 2 * box.y + box.height,
   radius   |-> box.height + box.width]

Restored(box) ==
  [center_x |-> 2 * box.x + box.width - 2 * placed.left,
   center_y |-> 2 * box.y + box.height - 2 * placed.top,
   radius   |-> box.height + box.width]

\* NMSBoxes keeps the one box there is.
Restore ==
  /\ stage = "boxes"
  /\ balls' = [i \in DOMAIN boxes |-> Restored(boxes[i])]
  /\ stage' = "result"
  /\ UNCHANGED << image, scale, placed, tensor, plan, boxes >>

Finished == stage \in {"result", "terminated"} /\ UNCHANGED vars

Next == Place \/ ResizeThrows \/ Infer \/ Parse \/ Restore \/ Finished

Spec == Init /\ [][Next]_vars

-----------------------------------------------------------------------------
(* Properties.                                                             *)

\* The resized image lies inside the input, so that copying it there cannot
\* fail, and in its middle up to a pixel; and no image ends the process unless
\* its longer side is as many times its shorter one as the input has pixels, or
\* the input is but one pixel wide or high.
FitsInside ==
  /\ stage \notin {"image", "terminated"} =>
       /\ placed.left >= 0 /\ placed.left + placed.new_w <= input_cols
       /\ placed.top >= 0 /\ placed.top + placed.new_h <= input_rows
       /\ input_cols - placed.new_w - 2 * placed.left \in {0, 1}
       /\ input_rows - placed.new_h - 2 * placed.top \in {0, 1}
  /\ stage = "terminated" =>
       \/ image.cols >= input_cols * image.rows \/ image.rows >= input_rows * image.cols
       \/ input_cols = 1 \/ input_rows = 1

\* The order of the dimensions can be told from the shape as the function
\* does it.
Guessable ==
  \/ Len(tensor.shape) = 3 /\ tensor.a > tensor.c
  \/ Len(tensor.shape) = 3 /\ tensor.a = tensor.c /\ ~tensor.last
  \/ Len(tensor.shape) = 4

\* Every anchor is read, every value is the one the network has put there for
\* that anchor and that channel, and no read is outside the output.
ReadsTheirCell ==
  stage = "boxes" /\ Guessable =>
    /\ plan.anchors = tensor.a
    /\ \A i \in 0 .. plan.anchors - 1, k \in Channels :
         /\ Address(plan, i, k) = Cell(i, k)
         /\ Address(plan, i, k) \in 0 .. tensor.a * tensor.c - 1

\* Twice the distance of restored from original, in pixels of the input, is
\* less than limit.
Near(restored, original, limit) ==
  LET distance == restored * scale.den - 2 * original * scale.num IN
    -limit * scale.den < distance /\ distance < limit * scale.den

\* The one ball of the image is the one ball of the result, wherever in the
\* output its anchor is.  Its center is where it was up to two and a half
\* pixels of the network's input, and its radius is not too large and too small
\* by less than one such pixel.
BallRestored ==
  stage = "result" /\ Guessable =>
    /\ DOMAIN balls = {tensor.hit}
    /\ LET ball  == balls[tensor.hit]
           exact == 2 * image.diameter * scale.num
       IN /\ Near(ball.center_x, image.x, 5)
          /\ Near(ball.center_y, image.y, 5)
          /\ ball.radius * scale.den <= exact
          /\ exact < (ball.radius + 4) * scale.den
=============================================================================
