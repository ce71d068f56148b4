------------------------------ MODULE Kernels ------------------------------
(***************************************************************************)
(* The CUDA kernels that work through shared memory (cuda/kernels) and the *)
(* elementwise and sum kernels of the kernel bridge.  A step is one warp   *)
(* running from one __syncthreads to the next, its lanes in lock step; the *)
(* warps of a block take their steps in any order.  Blocks write disjoint  *)
(* cells and run one after another here.  Numbers are integers: exp(x) is  *)
(* a power of two, and divisions, rsqrt and log are left to the reader of  *)
(* the result, a tuple of the values they are applied to.  Weights and     *)
(* biases, which are applied column by column, are left out.               *)
(***************************************************************************)
EXTENDS Integers, Sequences, FiniteSets, SequencesExt

CONSTANTS Warp,      \* warpSize, a power of two
          Dims,      \* blockDim.x, multiples of Warp and powers of two
          MaxGrid,   \* the cap on gridDim.x of the reductions
          Lengths,   \* n, or the columns of a row
          Rows,      \* rows of the row-wise kernels
          MaxSpread  \* bound: largest difference of two inputs of a row

\* for (s = n / 2; s > 0; s >>= 1)
Halvings[n \in Nat] == IF n < 2 THEN <<>> ELSE <<n \div 2>> \o Halvings[n \div 2]

\* A power of two: halving it leaves no remainder before 1.
IsPower(n) == LET s == <<n>> \o Halvings[n] IN \A k \in 2..Len(s) : s[k - 1] = 2 * s[k]

ASSUME KernelAssumption ==
  /\ Warp \in Nat \ {0} /\ MaxGrid \in Nat \ {0} /\ MaxSpread \in Nat
  /\ Dims \subseteq Nat \ {0} /\ Lengths \subseteq Nat \ {0} /\ Rows \subseteq Nat \ {0}
  /\ IsPower(Warp) /\ \A d \in Dims : IsPower(d) /\ d % Warp = 0

VARIABLES job,       \* the launch: kernel, block size, grid size, n and input
          kblock,    \* the block that runs
          kpc,       \* how many segments each of its warps has run
          kshared,   \* its shared memory
          kout,      \* the output, a tuple in each cell, <<>> before the first write
          koutside   \* an access fell outside the shared memory of the launch

kernelVars == <<job, kblock, kpc, kshared, kout, koutside>>

RowKernels == {"softmax", "log_softmax", "rms_norm", "layer_norm"}

Garbage == -77

NegInf == -1000

-----------------------------------------------------------------------------
(* Launches                                                                *)

Ceil(a, b) == (a + b - 1) \div b

AtMost(a, b) == IF a < b THEN a ELSE b

\* launch_sum, launch_max, and the bridge's reduce_sum with its single block.
ReduceGrid(kernel, n, dim) ==
  IF kernel = "bridge_sum" THEN 1 ELSE AtMost(Ceil(n, 2 * dim), MaxGrid)

\* The grids of the elementwise launches: an element for each thread.
MapGrid(n, dim) == Ceil(n, dim)

\* Cells of shared memory each launch asks for.
Cells(kernel, dim) ==
  CASE kernel \in {"sum", "bridge_sum"}          -> dim
    [] kernel = "max"                            -> dim \div Warp
    [] kernel \in {"softmax", "log_softmax"}     -> dim \div Warp + 1
    [] kernel = "rms_norm"                       -> Ceil(dim, Warp)
    [] kernel = "layer_norm"                     -> 2 * dim
    [] OTHER                                     -> 0

Fresh(kernel, dim) == [c \in 0..(Cells(kernel, dim) - 1) |-> Garbage]

\* One element stands out, or all are negative and fall.
Inputs(size) ==
  {[i \in 0..(size - 1) |-> IF i = p THEN 1 ELSE 0] : p \in 0..(size - 1)}
    \cup {[i \in 0..(size - 1) |-> -1 - i]}

Launches ==
  LET reduce == {[kernel |-> k, dim |-> d, grid |-> ReduceGrid(k, n, d), n |-> n] :
                   k \in {"sum", "max", "bridge_sum"}, d \in Dims, n \in Lengths}
      map == {[kernel |-> k, dim |-> d, grid |-> MapGrid(n, d), n |-> n] :
                k \in {"map", "bridge_map", "bridge_div"}, d \in Dims, n \in Lengths}
      row == {[kernel |-> k, dim |-> d, grid |-> r, n |-> n] :
                k \in RowKernels, d \in Dims, r \in Rows, n \in Lengths} IN
  reduce \cup map \cup row

Size(l) == IF l.kernel \in RowKernels THEN l.grid * l.n ELSE l.n

KernelInit ==
  /\ \E l \in Launches : \E in \in Inputs(Size(l)) :
       job = [kernel |-> l.kernel, dim |-> l.dim, grid |-> l.grid, n |-> l.n, in |-> in]
  /\ kblock = 0
  /\ kpc = [w \in 0..(job.dim \div Warp - 1) |-> 0]
  /\ kshared = Fresh(job.kernel, job.dim)
  /\ kout = [i \in DOMAIN job.in |-> <<>>]
  /\ koutside = FALSE

-----------------------------------------------------------------------------
(* What threads compute                                                    *)

SumOf(f, S) == FoldFunctionOnSet(LAMBDA x, y : x + y, 0, f, S)

MaxOf(f, S) == FoldFunctionOnSet(LAMBDA x, y : IF x > y THEN x ELSE y, NegInf, f, S)

Warps == DOMAIN kpc

\* threadIdx.x of the lanes of warp w.
Lanes(w) == (w * Warp)..(w * Warp + Warp - 1)

Stride(start, n, step) == {i \in start..(n - 1) : (i - start) % step = 0}

\* What thread t of the block reads in sum_kernel and max_kernel.
Pairs(t) ==
  LET first == Stride(kblock * job.dim * 2 + t, job.n, job.dim * 2 * job.grid) IN
  first \cup {i + job.dim : i \in {j \in first : j + job.dim < job.n}}

\* What it reads of its row.
Columns(t) == {kblock * job.n + i : i \in Stride(t, job.n, job.dim)}

Exp(x) == IF x \in (-MaxSpread)..0 THEN 2 ^ (MaxSpread + x) ELSE Garbage

\* __shfl_down_sync for f over the lanes of warp w: the last lanes get their own value.
ShuffleDown(f, w, offset) ==
  [t \in Lanes(w) |-> f[IF t + offset \in Lanes(w) THEN t + offset ELSE t]]

\* warp_reduce_sum and warp_reduce_max: the value in the first lane.
WarpSum(f, w) ==
  FoldLeft(LAMBDA g, offset : [t \in Lanes(w) |-> g[t] + ShuffleDown(g, w, offset)[t]],
           f, Halvings[Warp])[w * Warp]

WarpMax(f, w) ==
  FoldLeft(LAMBDA g, offset : [t \in Lanes(w) |-> MaxOf(<<g[t], ShuffleDown(g, w, offset)[t]>>, {1, 2})],
           f, Halvings[Warp])[w * Warp]

\* The writes of a segment, to shared memory and to the output.
Nothing == [shared |-> <<>>, out |-> <<>>]

ToShared(f) == [shared |-> f, out |-> <<>>]

ToOut(f) == [shared |-> <<>>, out |-> f]

OneCell(c, v) == [x \in {c} |-> v]

-----------------------------------------------------------------------------
(* The segments of each kernel: what warp w does between two barriers      *)

\* block_reduce_sum's loop, step k, over the first cells only.
ReduceStep(w, k, cells) ==
  LET s == Halvings[job.dim][k] IN
  ToShared([t \in {u \in Lanes(w) : u < s /\ u + s < cells} |-> kshared[t] + kshared[t + s]])

Steps == Len(Halvings[job.dim])

SumSegment(w, k) ==
  CASE k = 0        -> ToShared([t \in Lanes(w) |-> SumOf(job.in, Pairs(t))])
    [] k \in 1..Steps -> ReduceStep(w, k, job.dim)
    [] OTHER        -> IF w = 0 THEN ToOut(OneCell(kblock, <<kshared[0]>>)) ELSE Nothing

BridgeSumSegment(w, k) ==
  CASE k = 0        -> ToShared([t \in Lanes(w) |-> IF t < job.n THEN job.in[t] ELSE 0])
    [] k \in 1..Steps -> ReduceStep(w, k, job.n)
    [] OTHER        -> IF w = 0 THEN ToOut(OneCell(kblock, <<kshared[0]>>)) ELSE Nothing

MaxSegment(w, k) ==
  CASE k = 0 -> ToShared(OneCell(w, WarpMax([t \in Lanes(w) |-> MaxOf(job.in, Pairs(t))], w)))
    [] OTHER -> IF w = 0 THEN ToOut(OneCell(kblock, <<MaxOf(kshared, Warps)>>)) ELSE Nothing

\* Shared memory past the end holds anything.
Read(c) == IF c \in DOMAIN kshared THEN kshared[c] ELSE Garbage

\* Cell of shared_sum[w].
SumCell(w) == job.dim \div Warp + w

RowExp(i) == Exp(job.in[i] - kshared[0])

SoftmaxMax(w, k) ==
  CASE k = 0 -> ToShared(OneCell(w, WarpMax([t \in Lanes(w) |-> MaxOf(job.in, Columns(t))], w)))
    [] k = 1 -> IF w = 0 THEN ToShared(OneCell(0, MaxOf(kshared, Warps))) ELSE Nothing

\* The sum of the exponentials, and after it the same two segments as for the maximum.
SoftmaxSum(w, k) ==
  LET all == UNION {Columns(t) : t \in Lanes(w)}
      exps == [i \in all |-> RowExp(i)] IN
  CASE k = 2 -> [shared |-> OneCell(SumCell(w), WarpSum([t \in Lanes(w) |-> SumOf(exps, Columns(t))], w)),
                 out |-> [i \in all |-> <<exps[i]>>]]
    [] k = 3 -> IF w = 0 THEN ToShared(OneCell(SumCell(0),
                                SumOf([v \in Warps |-> Read(SumCell(v))], Warps))) ELSE Nothing

SoftmaxSegment(w, k) ==
  IF k < 2 THEN SoftmaxMax(w, k)
  ELSE IF k < 4 THEN SoftmaxSum(w, k)
  ELSE ToOut([i \in UNION {Columns(t) : t \in Lanes(w)} |-> <<kout[i][1], kshared[SumCell(0)]>>])

\* log_softmax_kernel keeps the exponentials in registers.
LogSoftmaxSegment(w, k) ==
  IF k < 2 THEN SoftmaxMax(w, k)
  ELSE IF k < 4 THEN [SoftmaxSum(w, k) EXCEPT !.out = <<>>]
  ELSE ToOut([i \in UNION {Columns(t) : t \in Lanes(w)} |->
               <<job.in[i] - kshared[0], kshared[SumCell(0)]>>])

Squares == [i \in DOMAIN job.in |-> job.in[i] * job.in[i]]

RmsSegment(w, k) ==
  CASE k = 0 -> ToShared(OneCell(w, WarpSum([t \in Lanes(w) |-> SumOf(Squares, Columns(t))], w)))
    [] k = 1 -> IF w = 0 THEN ToShared(OneCell(0, SumOf(kshared, Warps))) ELSE Nothing
    [] OTHER -> ToOut([i \in UNION {Columns(t) : t \in Lanes(w)} |-> <<job.in[i], kshared[0]>>])

\* s_mean[0] becomes the total (the mean times n), s_var[0] the variance times n^2.
LayerNormSegment(w, k) ==
  LET d == job.dim
      total == SumOf(kshared, 0..(d - 1))
      totalSq == SumOf(kshared, d..(2 * d - 1)) IN
  CASE k = 0 -> ToShared([c \in Lanes(w) \cup {t + d : t \in Lanes(w)} |->
                  IF c < d THEN SumOf(job.in, Columns(c)) ELSE SumOf(Squares, Columns(c - d))])
    [] k = 1 -> IF w = 0
                THEN ToShared([c \in {0, d} |-> IF c = 0 THEN total ELSE job.n * totalSq - total * total])
                ELSE Nothing
    [] OTHER -> ToOut([i \in UNION {Columns(t) : t \in Lanes(w)} |->
                  <<job.n * job.in[i] - kshared[0], kshared[d]>>])

\* The eight elementwise kernels: a grid-stride loop, one write for each element
\* (kept in a list here, so that a second write would show).
MapSegment(w) ==
  ToOut([i \in UNION {Stride(kblock * job.dim + t, job.n, job.dim * job.grid) : t \in Lanes(w)} |->
          Append(kout[i], job.in[i])])

\* The bridge's: one element for each thread.  Its division skips a divisor of
\* zero (the input here is the divisor).
BridgeMapSegment(w) ==
  LET mine == {kblock * job.dim + t : t \in Lanes(w)} \cap 0..(job.n - 1) IN
  ToOut([i \in {j \in mine : job.kernel = "bridge_div" => job.in[j] # 0} |-> Append(kout[i], job.in[i])])

Segment(w, k) ==
  CASE job.kernel = "sum"         -> SumSegment(w, k)
    [] job.kernel = "max"         -> MaxSegment(w, k)
    [] job.kernel = "bridge_sum"  -> BridgeSumSegment(w, k)
    [] job.kernel = "softmax"     -> SoftmaxSegment(w, k)
    [] job.kernel = "log_softmax" -> LogSoftmaxSegment(w, k)
    [] job.kernel = "rms_norm"    -> RmsSegment(w, k)
    [] job.kernel = "layer_norm"  -> LayerNormSegment(w, k)
    [] job.kernel = "map"         -> MapSegment(w)
    [] job.kernel \in {"bridge_map", "bridge_div"} -> BridgeMapSegment(w)

Segments ==
  CASE job.kernel \in {"sum", "bridge_sum"}       -> Steps + 2
    [] job.kernel = "max"                         -> 2
    [] job.kernel \in {"softmax", "log_softmax"}  -> 5
    [] job.kernel \in {"rms_norm", "layer_norm"}  -> 3
    [] OTHER                                      -> 1

-----------------------------------------------------------------------------
\* Mutant: no __syncthreads.
NoBarrier(w) == TRUE

\* __syncthreads: no warp is a barrier ahead of another.
Barrier(w) == \A v \in Warps : kpc[v] >= kpc[w]

\* A write past the shared memory of the launch is undefined; the run ends there.
WarpStep(w) ==
  LET writes == Segment(w, kpc[w]) IN
  /\ ~koutside /\ kblock < job.grid /\ kpc[w] < Segments /\ Barrier(w)
  /\ koutside' = ~(DOMAIN writes.shared \subseteq DOMAIN kshared)
  /\ kshared' = [c \in DOMAIN kshared |-> IF c \in DOMAIN writes.shared THEN writes.shared[c] ELSE kshared[c]]
  /\ kout' = [i \in DOMAIN kout |-> IF i \in DOMAIN writes.out THEN writes.out[i] ELSE kout[i]]
  /\ kpc' = [kpc EXCEPT ![w] = @ + 1]
  /\ UNCHANGED <<job, kblock>>

\* The next block starts with shared memory of any contents.
NextBlock ==
  /\ ~koutside /\ kblock < job.grid
  /\ \A w \in Warps : kpc[w] = Segments
  /\ kblock' = kblock + 1
  /\ kpc' = [w \in Warps |-> 0]
  /\ kshared' = Fresh(job.kernel, job.dim)
  /\ UNCHANGED <<job, kout, koutside>>

KernelNext == NextBlock \/ \E w \in Warps : WarpStep(w)

KernelSpec == KernelInit /\ [][KernelNext]_kernelVars

-----------------------------------------------------------------------------
RowOf(i) == {(i \div job.n) * job.n + c : c \in 0..(job.n - 1)}

\* What each cell should hold at the end, and how many cells the blocks fill.
Expected(i) ==
  LET row == RowOf(i)
      top == MaxOf(job.in, row)
      exps == SumOf([j \in row |-> Exp(job.in[j] - top)], row)
      total == SumOf(job.in, row) IN
  CASE job.kernel \in {"map", "bridge_map"} -> <<job.in[i]>>
    [] job.kernel = "bridge_div"  -> IF job.in[i] = 0 THEN <<>> ELSE <<job.in[i]>>
    [] job.kernel = "softmax"     -> <<Exp(job.in[i] - top), exps>>
    [] job.kernel = "log_softmax" -> <<job.in[i] - top, exps>>
    [] job.kernel = "rms_norm"    -> <<job.in[i], SumOf(Squares, row)>>
    [] job.kernel = "layer_norm"  -> <<job.n * job.in[i] - total,
          SumOf([j \in row |-> (job.n * job.in[j] - total) * (job.n * job.in[j] - total)], row) \div job.n>>

Partial(b) == kout[b][1]

\* Every kernel computes what it should from every element, in whatever order the
\* warps run: the reductions over all blocks (the bridge's over the first block
\* of elements only), the row-wise kernels on each row, the elementwise kernels
\* with one write for each element (the bridge's division leaves the quotient by
\* zero unwritten).  Only the softmax launches leave their shared memory, and only
\* when a block has two warps or more.
KernelsCompute ==
  /\ koutside => job.kernel \in {"softmax", "log_softmax"} /\ job.dim > Warp
  /\ kblock = job.grid =>
       LET all == DOMAIN job.in
           blocks == 0..(job.grid - 1) IN
       CASE job.kernel = "sum" -> SumOf([b \in blocks |-> Partial(b)], blocks) = SumOf(job.in, all)
         [] job.kernel = "max" -> MaxOf([b \in blocks |-> Partial(b)], blocks) = MaxOf(job.in, all)
         [] job.kernel = "bridge_sum" ->
              Partial(0) = SumOf(job.in, 0..(AtMost(job.n, job.dim) - 1))
         [] OTHER -> \A i \in all : kout[i] = Expected(i)
=============================================================================
