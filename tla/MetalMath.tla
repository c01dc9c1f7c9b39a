------------------------------ MODULE MetalMath ------------------------------
(***************************************************************************)
(* The arithmetic the generated kernels compute with.  A shader's floats   *)
(* are replaced by the integers modulo a prime, where sums, products and   *)
(* quotients are exact and a sum does not depend on its order, so that a   *)
(* kernel's result is right when it equals the closed formula and wrong    *)
(* when an element is missed, counted twice or taken from the wrong place. *)
(* exp is a power of a generator: exp(a-b) * exp(b-c) = exp(a-c), the one  *)
(* identity the rescaling kernels live on, holds as it does for reals.     *)
(* Other unary functions (sqrt, rsqrt, log, a rounding cast, an            *)
(* activation) are opaque: Fn(n, x) is some fixed function named n.        *)
(* NaN stands for a value nobody may use: an uninitialised or racing read, *)
(* -inf minus -inf, a division by zero.  It is absorbed by every operator. *)
(***************************************************************************)
EXTENDS Integers, Sequences, FiniteSets, TLC, Functions, SequencesExt

Prime == 257
NaN == -99999999
NegInf == -88888888
\* the finite -1e30 some kernels start a running maximum from
Low == -1000000
\* a NaN that is data: max and min pass it over, everything else returns it
Quiet == -77777777
\* integers are exact; an unsigned comparison reads a negative one modulo Word
Word == 65536
AllOnes == 255

\* Power[e] is 3^(e - 1), digit by digit of e - 1 in base 4
Power ==
  LET digit(e, b) == 1 + (((e - 1) \div b) % 4) IN
  [e \in 1..(Prime - 1) |->
     (((<<1, 3, 9, 27>>[digit(e, 1)] * <<1, 81, 136, 222>>[digit(e, 4)]) % Prime)
      * ((<<1, 249, 64, 2>>[digit(e, 16)] * <<1, 241, 256, 16>>[digit(e, 64)]) % Prime)) % Prime]
Inverses == [x \in 1..(Prime-1) |-> CHOOSE y \in 1..(Prime-1) : (x * y) % Prime = 1]
Names == <<"sqrt", "rsqrt", "log", "sin", "cos", "tanh", "silu", "gelu", "round", "fp8", "sigmoid", "elu", "leaky_relu", "hardswish">>
Number(n) == CHOOSE i \in DOMAIN Names : Names[i] = n

Add(x, y) ==
  IF NaN \in {x, y} THEN NaN ELSE IF NegInf \in {x, y} THEN NegInf ELSE (x + y) % Prime
Sub(x, y) == IF NaN \in {x, y} THEN NaN ELSE (x - y) % Prime
Mul(x, y) == IF {NaN, NegInf} \cap {x, y} # {} THEN NaN ELSE (x * y) % Prime
Div(x, y) == IF {NaN, NegInf, 0} \cap {y} # {} THEN NaN ELSE Mul(x, Inverses[y % Prime])
\* a difference that goes into exp keeps its sign
Diff(x, y) ==
  IF NaN \in {x, y} \/ y = NegInf THEN NaN ELSE IF x = NegInf THEN NegInf ELSE x - y
Exp(d) ==
  IF d = NaN THEN NaN ELSE IF d < Low \div 2 THEN 0 ELSE Power[1 + (d % (Prime - 1))]
\* a rounding keeps zero
Fn(n, x) == IF x = NaN THEN NaN ELSE IF x = 0 /\ n \in {"round", "fp8"} THEN 0 ELSE ((x * x * x) + (7 * x) + (13 * Number(n)) + 5) % Prime
Top(x, y) == IF NaN \in {x, y} THEN NaN ELSE IF x >= y THEN x ELSE y
Bottom(x, y) == IF NaN \in {x, y} THEN NaN ELSE IF x <= y THEN x ELSE y

\* f is a function: the sum, the largest, the smallest of its values
Total(f) == IF NaN \in Range(f) THEN NaN ELSE SumFunction(f) % Prime
Largest(f) == FoldFunction(Top, NegInf, f)
Least(f) == FoldFunction(Bottom, -NegInf, f)
Dot(f, g) == Total([i \in DOMAIN f |-> Mul(f[i], g[i])])
Unsigned(x) == x % Word
\* the integer whose bits are those of x and y joined by f
BitOf(x, b) == (x \div 2^b) % 2
Joined(f(_, _), x, y) == SumFunction([b \in 0..15 |-> f(BitOf(x, b), BitOf(y, b)) * 2^b])
Picked(x, y, first) == IF first THEN x ELSE y
Fold2(op, x, y) ==
  IF NaN \in {x, y} THEN NaN
  ELSE CASE op = "sum" -> Add(x, y)
         [] op = "prod" -> Mul(x, y)
         [] op \in {"max", "min"} /\ Quiet \in {x, y} -> Picked(x, y, y = Quiet)
         [] op \in {"nanmax", "nanmin"} /\ Quiet \in {x, y} -> Quiet
         [] op \in {"max", "nanmax"} /\ Quiet \notin {x, y} -> Top(x, y)
         [] op \in {"min", "nanmin"} /\ Quiet \notin {x, y} -> Bottom(x, y)
         [] op = "isum" -> x + y
         [] op = "iprod" -> x * y
         [] op = "umax" -> Picked(x, y, Unsigned(x) >= Unsigned(y))
         [] op = "umin" -> Picked(x, y, Unsigned(x) <= Unsigned(y))
         [] op = "and" -> Joined(LAMBDA p, q : p * q, x, y)
         [] op = "or" -> Joined(LAMBDA p, q : (p + q + 1) \div 2, x, y)
         [] op = "xor" -> Joined(LAMBDA p, q : (p + q) % 2, x, y)
Identity(op) ==
  CASE op \in {"sum", "isum", "or", "xor", "umax"} -> 0
    [] op \in {"prod", "iprod"} -> 1
    [] op \in {"max", "nanmax"} -> NegInf
    [] op \in {"min", "nanmin"} -> -NegInf
    [] op = "umin" -> Word - 1
    [] op = "and" -> AllOnes
Combine(op, f) ==
  CASE op = "sum" -> Total(f)
    [] OTHER -> FoldFunction(LAMBDA x, y : Fold2(op, x, y), Identity(op), f)

CeilDiv(a, b) == (a + b - 1) \div b
\* the elements a thread of a strided loop visits: for (i = first; i < n; i += step)
Strided(first, n, step) == {i \in first..(n - 1) : (i - first) % step = 0}
\* a row-major cell of a matrix with c columns
Row(i, c) == i \div c
Col(i, c) == i % c
\* distinct input data for the array numbered a
Datum(a, i) == 1 + (((37 * a) + (11 * i) + (5 * i * i) + (a * i)) % 250)
Input(a, n) == [i \in 0..(n - 1) |-> Datum(a, i)]
Filled(n, x) == [i \in 0..(n - 1) |-> x]
\* f itself; TLC evaluates each of its values once
Table(f) == CHOOSE g \in {f} : g = f
\* f where it is defined, g elsewhere
Overlay(f, g) == [x \in DOMAIN f \cup DOMAIN g |-> IF x \in DOMAIN f THEN f[x] ELSE g[x]]
\* writes: nothing, one cell
Nothing == [a \in {} |-> a]
Cell(i, x) == [j \in {i} |-> x]
Put(a, i, x) == [b \in {a} |-> Cell(i, x)]
==============================================================================
