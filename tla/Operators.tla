----------------------------- MODULE Operators -----------------------------
(***************************************************************************)
(* The operators of math/ on host tensors, the addresses of tensor views,  *)
(* Tensor::fill and the GEMM task: loops over flat memory, as the code     *)
(* writes them.  A behaviour is one call on arbitrary contents; the        *)
(* property compares its result with what the operator means.  Numbers     *)
(* and the tuples that stand for divisions, roots, powers and logarithms   *)
(* are as in Kernels; alpha, beta, eps and the temperature are left out.   *)
(***************************************************************************)
EXTENDS Kernels

CONSTANTS Shapes,    \* shapes of tensors, sequences of dimensions above 0
          Values,    \* elements
          GemmSizes  \* m, n and k

ASSUME OperatorAssumption ==
  /\ Shapes \subseteq Seq(Nat \ {0}) \ {<<>>}
  /\ Values \subseteq Int
  /\ GemmSizes \subseteq Nat \ {0}

VARIABLES shape,     \* the shape of the tensors x, y and z
          mem,       \* their elements, by flat index
          before,    \* history: the elements before the call
          call,      \* the call made, NoCall before it
          answer     \* the elements it returned, or NotImplemented

opVars == <<shape, mem, before, call, answer>>

NoCall == <<"none">>

NotImplemented == [ok |-> FALSE, out |-> <<>>]

Ok(elements) == [ok |-> TRUE, out |-> elements]

\* for (i = first; i < n; ++i)
For(first, n, step(_, _), start) ==
  LET value[k \in first..n] == IF k = first THEN start ELSE step(value[k - 1], k - 1) IN value[n]

Product(s) == For(0, Len(s), LAMBDA n, i : n * s[i + 1], 1)

NumElements == Product(shape)

OpInit ==
  /\ shape \in Shapes
  /\ \E x \in [0..(NumElements - 1) -> Values] :
       mem = [t \in {"x", "y", "z"} |-> [i \in DOMAIN x |->
                CASE t = "x" -> x[i] [] t = "y" -> i - 1 [] OTHER -> 2 - i]]
  /\ before = mem
  /\ call = NoCall
  /\ answer = NotImplemented

\* out[first + i] = v[i], for n elements.
Store(first, n, v, out) == For(0, n, LAMBDA o, i : [o EXCEPT ![first + i] = v[i]], out)

\* The same for every row r, with elements v[r].
StoreRows(rows, n, v, out) == For(0, rows, LAMBDA o, r : Store(r * n, n, v[r], o), out)

Row(d, r, n) == [c \in 0..(n - 1) |-> d[r * n + c]]

Blank(n) == [i \in 0..(n - 1) |-> <<>>]

Returns(c, result) ==
  /\ call = NoCall
  /\ call' = c
  /\ answer' = result
  /\ UNCHANGED <<shape, mem, before>>

-----------------------------------------------------------------------------
(* math/elementwise                                                        *)

Apply(op, x, y) ==
  CASE op = "add" -> x + y
    [] op = "add_scalar" -> x + 2
    [] op = "sub" -> x - y
    [] op = "mul" -> x * y
    [] op = "div" -> <<x, y>>
    [] op = "negate" -> -x
    [] op = "abs" -> IF x < 0 THEN -x ELSE x
    [] op \in {"sqrt", "rsqrt", "pow"} -> <<op, x>>
    [] op = "clamp" -> IF x < 0 THEN 0 ELSE IF x > 1 THEN 1 ELSE x

\* A new tensor, element by element, from x and b.
ElementByElement(op, x, b, n) ==
  Ok(Store(0, n, [i \in 0..(n - 1) |-> Apply(op, x[i], b[i])], Blank(n)))

Arithmetic == {"add", "add_scalar", "sub", "mul", "div"}

Functions1 == {"negate", "abs", "sqrt", "rsqrt", "pow", "clamp"}

\* add, add_scalar, sub, mul and div; both arguments may be one tensor.
Elementwise ==
  \E op \in Arithmetic, b \in {"x", "y"} :
    Returns(<<op, "x", b>>, ElementByElement(op, mem["x"], mem[b], NumElements))

ElementwiseUnary ==
  \E op \in Functions1 :
    Returns(<<op, "x", "x">>, ElementByElement(op, mem["x"], mem["x"], NumElements))

\* out[i] = a[i] + b[i], or 2 * a[i], in memory where they may be one tensor.
Overwrite(op, a, b, out, n, m) ==
  For(0, n, LAMBDA q, i : [q EXCEPT ![out][i] = Apply(op, q[a][i], IF op = "mul" THEN 2 ELSE q[b][i])], m)

\* add into out, add_inplace and mul_scalar_inplace.
InPlace ==
  \E op \in {"add", "mul"}, a, b, out \in {"x", "y", "z"} :
    /\ call = NoCall
    /\ op = "mul" => a = b /\ b = out
    /\ mem' = Overwrite(op, a, b, out, NumElements, mem)
    /\ call' = <<op, a, b, out>>
    /\ answer' = Ok(<<>>)
    /\ UNCHANGED <<shape, before>>

-----------------------------------------------------------------------------
(* math/reduction                                                          *)

SumF32(d, n) == For(0, n, LAMBDA acc, i : acc + d[i], 0)

\* Mutant: the maximum of max_f32 starts at zero.
MaxFromZero(d, n) == For(0, n, LAMBDA acc, i : IF acc < d[i] THEN d[i] ELSE acc, 0)

MaxF32(d, n) == For(1, n, LAMBDA acc, i : IF acc < d[i] THEN d[i] ELSE acc, d[0])

MinF32(d, n) == For(1, n, LAMBDA acc, i : IF acc > d[i] THEN d[i] ELSE acc, d[0])

ProdF32(d, n) == For(0, n, LAMBDA acc, i : acc * d[i], 1)

\* The mean is sum / n, and the variance the first element over n^3.
VarF32(d, n) ==
  LET s == SumF32(d, n) IN SumF32([i \in 0..(n - 1) |-> (n * d[i] - s) * (n * d[i] - s)], n)

ArgMax(d, n) == For(1, n, LAMBDA best, i : IF d[i] > d[best] THEN i ELSE best, 0)

Reduced(op, d, n) ==
  CASE op \in {"sum", "mean"} -> SumF32(d, n)
    [] op = "max" -> MaxF32(d, n)
    [] op = "min" -> MinF32(d, n)
    [] op = "prod" -> ProdF32(d, n)
    [] op \in {"var", "std"} -> VarF32(d, n)
    [] op = "norm" -> SumF32([i \in 0..(n - 1) |-> Apply("abs", d[i], 0)], n)
    [] op = "argmax" -> ArgMax(d, n)

WholeReductions == {"sum", "mean", "max", "min", "prod", "var", "std", "norm", "argmax"}

\* sum, mean, max, min, prod, var, std, norm and argmax without an axis.
Reduce ==
  \E op \in WholeReductions :
    Returns(<<op>>, Ok([i \in {0} |-> Reduced(op, mem["x"], NumElements)]))

\* The same along an axis, argmin and batch_norm.
ReduceAxis == \E op \in {"sum", "mean", "max", "argmax", "argmin", "batch_norm"} :
                Returns(<<op, "axis">>, NotImplemented)

-----------------------------------------------------------------------------
(* math/softmax and math/normalization                                     *)

\* exp(d[i] - max), for each of n elements.
Exps(d, n) == LET m == MaxF32(d, n) IN [i \in 0..(n - 1) |-> Exp(d[i] - m)]

\* softmax_f32: <<exp, sum of exps>>.
SoftmaxF32(d, n) ==
  LET e == Exps(d, n)
      total == SumF32(e, n) IN [i \in 0..(n - 1) |-> <<e[i], total>>]

\* log_softmax_f32: <<x - max, sum of exps>>.
LogSoftmaxF32(d, n) ==
  LET m == MaxF32(d, n)
      total == SumF32(Exps(d, n), n) IN [i \in 0..(n - 1) |-> <<d[i] - m, total>>]

LastAxis(axis, s) == axis = -1 \/ axis = Len(s) - 1

\* Row by row.
SoftmaxRows(op, x, rows, n) ==
  Ok(StoreRows(rows, n, [r \in 0..(rows - 1) |-> IF op = "softmax" THEN SoftmaxF32(Row(x, r, n), n)
                                                 ELSE LogSoftmaxF32(Row(x, r, n), n)], Blank(rows * n)))

\* A matrix row by row, any other tensor as one row.
SoftmaxOf(op, axis, x, s) ==
  IF ~LastAxis(axis, s) THEN NotImplemented
  ELSE IF Len(s) = 2 THEN SoftmaxRows(op, x, s[1], s[2])
  ELSE SoftmaxRows(op, x, 1, Product(s))

\* softmax, softmax_stable and softmax_with_temperature, and log_softmax.
Softmax ==
  \E op \in {"softmax", "log_softmax"}, axis \in -1..2 :
    Returns(<<op, axis>>, SoftmaxOf(op, axis, mem["x"], shape))

\* out[r * cols + best] = 1, row by row.
OneHot(x, rows, n, out) ==
  For(0, rows, LAMBDA o, r : [o EXCEPT ![r * n + ArgMax(Row(x, r, n), n)] = 1], out)

\* Fills in matrices only, and never says that it cannot.
HardmaxOf(axis, x, s) ==
  LET zero == [i \in 0..(Product(s) - 1) |-> 0] IN
  Ok(IF LastAxis(axis, s) /\ Len(s) = 2 THEN OneHot(x, s[1], s[2], zero) ELSE zero)

Hardmax == \E axis \in -1..2 : Returns(<<"hardmax", axis>>, HardmaxOf(axis, mem["x"], shape))

Cols(s) == s[Len(s)]

\* layer_norm_f32 on a row: <<n * (x - mean), n^3 * variance, weight, bias>>.
LayerNormF32(row, n, w, b) ==
  [c \in 0..(n - 1) |-> <<n * row[c] - SumF32(row, n), VarF32(row, n), w[c], b[c]>>]

\* rms_norm_f32 on a row: <<x, sum of squares, weight>>.
RmsNormF32(row, n, w) ==
  LET sq == SumF32([c \in 0..(n - 1) |-> row[c] * row[c]], n) IN [c \in 0..(n - 1) |-> <<row[c], sq, w[c]>>]

\* Over the last dimension; the weights are y and z.
NormRows(op, m, rows, n) ==
  Ok(StoreRows(rows, n, [r \in 0..(rows - 1) |->
       IF op = "layer_norm" THEN LayerNormF32(Row(m["x"], r, n), n, m["y"], m["z"])
       ELSE RmsNormF32(Row(m["x"], r, n), n, m["y"])], Blank(rows * n)))

LayerNorm == Returns(<<"layer_norm">>, NormRows("layer_norm", mem, Product(Front(shape)), Cols(shape)))

RmsNorm == Returns(<<"rms_norm">>, NormRows("rms_norm", mem, Product(Front(shape)), Cols(shape)))

-----------------------------------------------------------------------------
(* tensor: fill and the addresses of views                                 *)

\* memcpy(data + step, data, n)
Copied(data, step, n) ==
  [i \in DOMAIN data |-> IF i \in step..(step + n - 1) THEN data[i - step] ELSE data[i]]

\* fill: the first element, then copies of ever more elements; n rounds are enough.
FillLoop(x, n, v) ==
  For(0, n, LAMBDA a, k :
        IF a.step < n THEN [data |-> Copied(a.data, a.step, AtMost(a.step, n - a.step)), step |-> a.step * 2]
        ELSE a, [data |-> [x EXCEPT ![0] = v], step |-> 1]).data

Fill == Returns(<<"fill">>, Ok(FillLoop(mem["x"], NumElements, 5)))

\* TensorShape::strides, from the last dimension back.
Strides(s) == LET stride[i \in DOMAIN s] == IF i = Len(s) THEN 1 ELSE stride[i + 1] * s[i + 1] IN stride

\* TensorView::offset and at.
Offset(index, strides) == SumOf([i \in DOMAIN index |-> index[i] * strides[i]], DOMAIN index)

Indices(s) ==
  {ix \in [DOMAIN s -> UNION {0..(s[i] - 1) : i \in DOMAIN s}] : \A i \in DOMAIN s : ix[i] < s[i]}

ViewOf(s, strides, first) == [ix \in Indices(s) |-> first + Offset(ix, strides)]

\* The addresses a view gives: slice takes the strides of its own shape.
SliceOf(s, d, from, to) ==
  LET new == [s EXCEPT ![d] = to - from] IN Ok(ViewOf(new, Strides(new), from * Strides(s)[d]))

Slice ==
  \E d \in DOMAIN shape : \E from \in 0..(shape[d] - 1) : \E to \in (from + 1)..shape[d] :
    Returns(<<"slice", d, from, to>>, SliceOf(shape, d, from, to))

Swap(s, i, j) == [s EXCEPT ![i] = s[j], ![j] = s[i]]

TransposeOf(s, i, j) == Ok(ViewOf(Swap(s, i, j), Swap(Strides(s), i, j), 0))

Transpose == \E i, j \in DOMAIN shape : Returns(<<"transpose", i, j>>, TransposeOf(shape, i, j))

Reshape ==
  \E s \in Shapes :
    /\ Product(s) = NumElements
    /\ Returns(<<"reshape", s>>, Ok(ViewOf(s, Strides(s), 0)))

-----------------------------------------------------------------------------
(* The GEMM task                                                           *)

\* Where cublasSgemm reads factor p of element <<r, c>> of the product: the first
\* matrix is B, the second A, both column-major with the leading dimensions given.
ReadB(r, p, trans, ld) == IF trans THEN p + r * ld ELSE r + p * ld

ReadA(p, c, trans, ld) == IF trans THEN c + p * ld ELSE p + c * ld

\* execute: cublasSgemm(transb, transa, n, m, k, B, ldb, A, lda, C, ldc).  cuBLAS
\* refuses a leading dimension below the rows of the matrix as stored and the
\* process ends; it does not know where the three tensors end, and
\* a read or write past the end is left open here.
GemmTask(m, n, k, ta, tb) ==
  LET A == [i \in 0..(m * k - 1) |-> i + 1]
      B == [i \in 0..(k * n - 1) |-> 3 * i + 2]
      ldb == IF tb THEN n ELSE k
      lda == IF ta THEN k ELSE m
      ldc == m
      refused == ldb < (IF tb THEN k ELSE n) \/ lda < (IF ta THEN m ELSE k) \/ ldc < n
      ends == \E r \in 0..(n - 1), c \in 0..(m - 1), p \in 0..(k - 1) :
                \/ ReadB(r, p, tb, ldb) \notin DOMAIN B
                \/ ReadA(p, c, ta, lda) \notin DOMAIN A
                \/ r + c * ldc >= m * n IN
  IF refused \/ ends THEN NotImplemented
  ELSE Ok([i \in {r + c * ldc : r \in 0..(n - 1), c \in 0..(m - 1)} |->
         SumOf([p \in 0..(k - 1) |-> B[ReadB(i % ldc, p, tb, ldb)] * A[ReadA(p, i \div ldc, ta, lda)]],
               0..(k - 1))])

Gemm ==
  \E m, n, k \in GemmSizes, ta, tb \in BOOLEAN :
    Returns(<<"gemm", m, n, k, ta, tb>>, GemmTask(m, n, k, ta, tb))

OpNext ==
  \/ Elementwise \/ ElementwiseUnary \/ InPlace \/ Reduce \/ ReduceAxis \/ Softmax \/ Hardmax \/ LayerNorm \/ RmsNorm
  \/ Fill \/ Slice \/ Transpose \/ Reshape \/ Gemm

OpSpec == OpInit /\ [][OpNext]_opVars

-----------------------------------------------------------------------------
(* What the operators mean                                                 *)

\* The elements of the last axis at flat index i, of a tensor of any shape.
Group(i) == LET n == Cols(shape) IN {(i \div n) * n + c : c \in 0..(n - 1)}

Largest(x, S) == CHOOSE v \in {x[i] : i \in S} : \A i \in S : x[i] <= v

MeansReduce(x, v) ==
  LET all == DOMAIN x
      n == Cardinality(all)
      op == call[1] IN
  CASE op \in {"sum", "mean"} -> v = SumOf(x, all)
    [] op = "max" -> v \in {x[i] : i \in all} /\ \A i \in all : x[i] <= v
    [] op = "min" -> v \in {x[i] : i \in all} /\ \A i \in all : x[i] >= v
    [] op = "prod" -> v = FoldFunctionOnSet(LAMBDA a, b : a * b, 1, x, all)
    [] op \in {"var", "std"} -> v = n * (n * SumOf([i \in all |-> x[i] * x[i]], all) - SumOf(x, all) * SumOf(x, all))
    [] op = "norm" -> v = SumOf([i \in all |-> Apply("abs", x[i], 0)], all)
    [] op = "argmax" -> /\ \A i \in all : x[i] <= x[v]
                        /\ \A i \in all : i < v => x[i] < x[v]

MeansRow(x, i) ==
  LET op == call[1]
      row == Group(i)
      n == Cols(shape)
      top == Largest(x, row)
      exps == SumOf([j \in row |-> Exp(x[j] - top)], row)
      squares == SumOf([j \in row |-> x[j] * x[j]], row)
      total == SumOf(x, row) IN
  CASE op = "softmax" -> <<Exp(x[i] - top), exps>>
    [] op = "log_softmax" -> <<x[i] - top, exps>>
    [] op = "rms_norm" -> <<x[i], squares, before["y"][i % n]>>
    [] op = "layer_norm" -> <<n * x[i] - total, n * (n * squares - total * total),
                              before["y"][i % n], before["z"][i % n]>>

\* Row-major order: how many indices come before ix.
Before(jx, ix) == \E d \in DOMAIN ix : jx[d] < ix[d] /\ \A e \in 1..(d - 1) : jx[e] = ix[e]

Address(ix, s) == Cardinality({jx \in Indices(s) : Before(jx, ix)})

MeansView(ix) ==
  CASE call[1] = "slice" -> Address([ix EXCEPT ![call[2]] = @ + call[3]], shape)
    [] call[1] = "transpose" -> Address(Swap(ix, call[2], call[3]), shape)
    [] call[1] = "reshape" -> Address(ix, call[2])

\* A slice whose own strides are right: whole, or nothing before its dimension.
Sliceable == \/ call[4] - call[3] = shape[call[2]]
             \/ \A d \in 1..(call[2] - 1) : shape[d] = 1

MeansGemm(m, n, k, ta, tb, i) ==
  LET a(r, p) == IF ta THEN p * m + r + 1 ELSE r * k + p + 1
      b(p, c) == 3 * (IF tb THEN c * k + p ELSE p * n + c) + 2 IN
  SumOf([p \in 0..(k - 1) |-> a(i \div n, p) * b(p, i % n)], 0..(k - 1))

MeansElements == \A i \in DOMAIN before["x"] : answer.out[i] = Apply(call[1], before["x"][i], before[call[3]][i])

MeansInPlace ==
  /\ \A i \in DOMAIN before["x"] :
       mem[call[4]][i] = Apply(call[1], before[call[2]][i], IF call[1] = "mul" THEN 2 ELSE before[call[3]][i])
  /\ \A t \in {"x", "y", "z"} \ {call[4]} : mem[t] = before[t]

MeansRows == \A i \in DOMAIN before["x"] : answer.out[i] = MeansRow(before["x"], i)

FirstLargest(x, S) == CHOOSE j \in S : \A k \in S : x[k] < x[j] \/ (x[k] = x[j] /\ j <= k)

MeansOneHot ==
  \A i \in DOMAIN before["x"] :
    answer.out[i] = IF i = FirstLargest(before["x"], Group(i)) THEN 1 ELSE 0

MeansViews == \A ix \in DOMAIN answer.out : answer.out[ix] = MeansView(ix)

Square == call[1] = "gemm" /\ call[2] = call[3] /\ call[3] = call[4]

MeansProduct == \A i \in 0..(call[2] * call[3] - 1) :
                  answer.out[i] = MeansGemm(call[2], call[3], call[4], call[5], call[6], i)

\* A softmax that is taken over the whole of a tensor of more than two dimensions.
Flattened == call[1] \in {"softmax", "log_softmax"} /\ Len(shape) > 2

\* A call that answers gives what its operator means, for every content: elementwise
\* calls also when their arguments are one tensor; reductions; softmax (but for
\* Flattened) and normalisation over the last axis; fill; the elements a view leads
\* to.  Three operators do so for some arguments, and for no others: hardmax gives a
\* one-hot vector for matrices along their last axis, a slice leads to the tensor's
\* elements unless it is inside an inner dimension, and the GEMM task stays in its
\* matrices, and gives their product, when they are square.
MeetsReference ==
  LET op == call[1] IN
  /\ Square => answer.ok
  /\ answer.ok /\ ~Flattened =>
    CASE Len(call) = 3 /\ op \in Arithmetic \cup Functions1 -> MeansElements
      [] Len(call) = 4 /\ op \in {"add", "mul"} -> MeansInPlace
      [] op \in {"softmax", "log_softmax", "layer_norm", "rms_norm"} -> MeansRows
      [] op = "hardmax" -> MeansOneHot <=> LastAxis(call[2], shape) /\ Len(shape) = 2
      [] op = "fill" -> \A i \in DOMAIN before["x"] : answer.out[i] = 5
      [] op = "slice" -> MeansViews <=> Sliceable
      [] op \in {"transpose", "reshape"} -> MeansViews
      [] op = "gemm" -> Square /\ MeansProduct
      [] OTHER -> MeansReduce(before["x"], answer.out[0])
=============================================================================
