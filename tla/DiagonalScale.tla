----------------------------- MODULE DiagonalScale -----------------------------
(***************************************************************************)
(* DiagonalScale( side, orientation, d, A ), include/El/blas_like/level1/  *)
(* DiagonalScale.hpp lines 14-96:  A := op(D) A (LEFT) or A op(D) (RIGHT), *)
(* D = diag(d), op the conjugate for ADJOINT and the identity otherwise.   *)
(*                                                                         *)
(* Three entry points are modelled: the typed CPU overload (the loops of  *)
(* lines 34-71), the typed GPU overload (cublas::Dgmm, NORMAL only, lines *)
(* 14-32) and the AbstractMatrix overload (lines 73-96), which switches   *)
(* on A.GetDevice() and casts d and A to the typed matrices of a device.   *)
(* The distributed overload (lines 98-165, reached through the           *)
(* AbstractDistMatrix switch of lines 168-183) is a fourth entry, "dist": *)
(* A is a DistMatrix over a colStride x rowStride grid, spread by element *)
(* or by block from its alignments and cuts.  A read proxy of d is        *)
(* aligned with A's rows (LEFT) or columns (RIGHT), then every process    *)
(* runs the local overload on its block.  DistMatrixReadProxy and the     *)
(* distribution rules are outside this repository; they are modelled from *)
(* Elemental's layout.  A distributed call has A all ones and             *)
(* d(k) = (k+1) + i, so each entry of the result says which entry of d    *)
(* scaled it.                                                              *)
(*                                                                         *)
(* Entries are Gaussian integers <<re, im>>; Conj negates im.             *)
(***************************************************************************)
EXTENDS Integers, Sequences, FiniteSets

CONSTANTS
    Heights, Widths,   \* values of A.Height() and A.Width()
    Values,            \* entries of d and A
    DistHeight, DistWidth, \* A.Height(), A.Width() of a DistMatrix
    Strides,           \* values of colStride and rowStride
    BlockSizes         \* values of blockHeight and blockWidth

VARIABLES
    side, orientation,
    entry,       \* "CPU", "GPU" (typed overloads), "abstract" or "dist"
    device,      \* A.GetDevice(): where A's memory lives
    m, n,        \* A.Height(), A.Width()
    d, A,
    A0,          \* A on entry (for the properties)
    k,           \* the outer loop index: i for LEFT, j for RIGHT
    kernel,      \* the device of the overload running, or "none"
    pc,          \* "dispatch", "loop", "local", "done", "error" or "undefined"
    wrap, colStride, rowStride,
    colAlign, rowAlign,      \* A.ColAlign(), A.RowAlign()
    blockHeight, blockWidth, \* A.BlockHeight(), A.BlockWidth()
    colCut, rowCut,          \* A.ColCut(), A.RowCut()
    dLocal,                  \* the proxy's local entries, by grid rank
    scaled                   \* the processes that have scaled their block

local == <<side, orientation, entry, device, m, n, d, A, A0, k, kernel, pc>>
dist == <<wrap, colStride, rowStride, colAlign, rowAlign, blockHeight,
          blockWidth, colCut, rowCut, dLocal, scaled>>
vars == <<local, dist>>

Mul(x, y) == <<x[1] * y[1] - x[2] * y[2], x[1] * y[2] + x[2] * y[1]>>
Conj(x) == <<x[1], -x[2]>>

\* Variant of Delta that conjugates for TRANSPOSE as well.
DeltaConjAlways(idx) == IF orientation # "NORMAL" THEN Conj(d[idx]) ELSE d[idx]

\* Lines 44, 53 and 66: delta = conj ? Conj(d(i)) : d(i), conj = ADJOINT.
Delta(idx) == IF orientation = "ADJOINT" THEN Conj(d[idx]) ELSE d[idx]

\* Lines 28-31: cublas::Dgmm( side, m, n, A, lda, d, 1, A, lda ), the
\* product diag(d) A or A diag(d) in one call.
Dgmm == [r \in 0 .. m - 1 |-> [c \in 0 .. n - 1 |->
            Mul(A[r][c], d[IF side = "LEFT" THEN r ELSE c])]]

-----------------------------------------------------------------------------
(* The distribution of a DistMatrix.                                       *)

Grid == (0 .. colStride - 1) \X (0 .. rowStride - 1)

\* dPre( k ) of a distributed call: a distinct complex entry per index.
dEntry(idx) == <<idx + 1, 1>>

\* The grid rank owning global index i of a dimension distributed with
\* the given wrap, alignment, block size, cut and stride.
Owner(i, w, align, b, cut, stride) ==
    IF w = "ELEMENT" THEN (i + align) % stride
    ELSE ((i + cut) \div b + align) % stride

\* What a read past the end of a local buffer yields.
Garbage == <<0, 0>>

\* The position of global index i among the indices in S (local index).
LocalIndex(i, S) == Cardinality({j \in S : j < i})

\* Variant of ProxyCtrl whose RIGHT branch copies the LEFT one's colAlign,
\* blockHeight and colCut.
ProxyCtrlFromColumns ==
    [align |-> colAlign, b |-> blockHeight, cut |-> colCut,
     stride |-> IF side = "LEFT" THEN colStride ELSE rowStride]

\* Lines 110-114, 123-127, 137-145 and 154-156: the proxy of d is
\* aligned with A's rows for LEFT (ColAlign, BlockHeight, ColCut) and
\* with A's columns for RIGHT (RowAlign, BlockWidth, RowCut).
ProxyCtrl ==
    IF side = "LEFT"
    THEN [align |-> colAlign, b |-> blockHeight, cut |-> colCut, stride |-> colStride]
    ELSE [align |-> rowAlign, b |-> blockWidth, cut |-> rowCut, stride |-> rowStride]

\* DistMatrixReadProxy( dPre, ctrl ) with colConstrain: on grid rank r the
\* entries of d whose index r owns under ctrl, in increasing order.
Proxy(ctrl) ==
    [r \in 0 .. ctrl.stride - 1 |->
        LET S == {j \in DOMAIN d :
                    Owner(j, wrap, ctrl.align, ctrl.b, ctrl.cut, ctrl.stride) = r}
        IN  [t \in 1 .. Cardinality(S) |->
                d[CHOOSE j \in S : LocalIndex(j, S) = t - 1]]]

\* The global rows (columns) that process (c, w) holds of A.
LocalRows(c) == {i \in 0 .. m - 1 : Owner(i, wrap, colAlign, blockHeight, colCut, colStride) = c}
LocalCols(w) == {j \in 0 .. n - 1 : Owner(j, wrap, rowAlign, blockWidth, rowCut, rowStride) = w}

-----------------------------------------------------------------------------

\* A local call: any matrix on either device.  A distributed call
\* (lines 168-183 cast A to its DistMatrix type; the templates of lines
\* 98-165 are those of a CPU DistMatrix): any grid, wrap, alignment and cut.
Init ==
    /\ side \in {"LEFT", "RIGHT"}
    /\ orientation \in {"NORMAL", "TRANSPOSE", "ADJOINT"}
    /\ entry \in {"CPU", "GPU", "abstract", "dist"}
    /\ device \in {"CPU", "GPU"}
    /\ entry \in {"CPU", "GPU"} => device = entry
    /\ entry = "dist" => device = "CPU"
    /\ \/ /\ entry # "dist"
          /\ m \in Heights
          /\ n \in Widths
          /\ A \in [0 .. m - 1 -> [0 .. n - 1 -> Values]]
          /\ d \in [0 .. (IF side = "LEFT" THEN m ELSE n) - 1 -> Values]
          /\ wrap = "ELEMENT" /\ colStride = 1 /\ rowStride = 1
       \/ /\ entry = "dist"
          /\ m = DistHeight
          /\ n = DistWidth
          /\ A = [i \in 0 .. m - 1 |-> [j \in 0 .. n - 1 |-> <<1, 0>>]]
          /\ d = [idx \in 0 .. (IF side = "LEFT" THEN m ELSE n) - 1 |-> dEntry(idx)]
          /\ wrap \in {"ELEMENT", "BLOCK"}
          /\ colStride \in Strides
          /\ rowStride \in Strides
    /\ colAlign \in 0 .. colStride - 1
    /\ rowAlign \in 0 .. rowStride - 1
    /\ blockHeight \in IF wrap = "BLOCK" THEN BlockSizes ELSE {1}
    /\ blockWidth \in IF wrap = "BLOCK" THEN BlockSizes ELSE {1}
    /\ colCut \in 0 .. blockHeight - 1
    /\ rowCut \in 0 .. blockWidth - 1
    /\ dLocal = <<>>
    /\ scaled = {}
    /\ A0 = A
    /\ k = 0
    /\ kernel = "none"
    /\ pc = "dispatch"

\* Lines 79-85: the CPU case of the switch calls the CPU loops.
DispatchCPU ==
    /\ pc = "dispatch"
    /\ entry = "abstract"
    /\ device = "CPU"
    /\ kernel' = "CPU"
    /\ pc' = "loop"
    /\ UNCHANGED <<side, orientation, entry, device, m, n, d, A, A0, k>>
    /\ UNCHANGED dist

\* Lines 87-91: the GPU case casts d and A to Matrix<T,Device::CPU> and
\* calls the CPU loops on the memory of a GPU matrix, which is undefined
\* behaviour (a fault or garbage in A); the model stops there.
DispatchGPU ==
    /\ pc = "dispatch"
    /\ entry = "abstract"
    /\ device = "GPU"
    /\ kernel' = "CPU"
    /\ pc' = "undefined"
    /\ UNCHANGED <<side, orientation, entry, device, m, n, d, A, A0, k>>
    /\ UNCHANGED dist

\* The typed CPU overload called directly.
EnterCPU ==
    /\ pc = "dispatch"
    /\ entry = "CPU"
    /\ kernel' = "CPU"
    /\ pc' = "loop"
    /\ UNCHANGED <<side, orientation, entry, device, m, n, d, A, A0, k>>
    /\ UNCHANGED dist

\* Lines 14-32: cublas::Dgmm scales A in one call; any orientation but
\* NORMAL is a LogicError.
GPUScale ==
    /\ pc = "dispatch"
    /\ entry = "GPU"
    /\ kernel' = "GPU"
    /\ \/ /\ orientation = "NORMAL"
          /\ A' = Dgmm
          /\ pc' = "done"
       \/ /\ orientation # "NORMAL"
          /\ pc' = "error"
          /\ UNCHANGED A
    /\ UNCHANGED <<side, orientation, entry, device, m, n, d, A0, k>>
    /\ UNCHANGED dist

\* Lines 51-56: one iteration i of the LEFT loop scales row i by delta.
ScaleRow ==
    /\ pc = "loop"
    /\ side = "LEFT"
    /\ k < m
    /\ A' = [A EXCEPT ![k] = [c \in 0 .. n - 1 |-> Mul(A[k][c], Delta(k))]]
    /\ k' = k + 1
    /\ UNCHANGED <<side, orientation, entry, device, m, n, d, A0, kernel, pc>>
    /\ UNCHANGED dist

\* Lines 64-69: one iteration j of the RIGHT loop scales column j.
ScaleColumn ==
    /\ pc = "loop"
    /\ side = "RIGHT"
    /\ k < n
    /\ A' = [r \in 0 .. m - 1 |-> [A[r] EXCEPT ![k] = Mul(@, Delta(k))]]
    /\ k' = k + 1
    /\ UNCHANGED <<side, orientation, entry, device, m, n, d, A0, kernel, pc>>
    /\ UNCHANGED dist

\* The loop over i (LEFT) or j (RIGHT) ends.
LoopDone ==
    /\ pc = "loop"
    /\ k = IF side = "LEFT" THEN m ELSE n
    /\ pc' = "done"
    /\ UNCHANGED <<side, orientation, entry, device, m, n, d, A, A0, k, kernel>>
    /\ UNCHANGED dist

\* Lines 116-117, 129-130, 147-149 and 160-162: build the read proxy
\* (a collective redistribution of dPre over the grid).
MakeProxy ==
    /\ pc = "dispatch"
    /\ entry = "dist"
    /\ dLocal' = Proxy(ProxyCtrl)
    /\ kernel' = "CPU"
    /\ pc' = "local"
    /\ UNCHANGED <<side, orientation, entry, device, m, n, d, A, A0, k>>
    /\ UNCHANGED <<wrap, colStride, rowStride, colAlign, rowAlign,
                   blockHeight, blockWidth, colCut, rowCut, scaled>>

\* Lines 119, 132, 151 and 164 on process (c, w): the local DiagonalScale
\* of d.LockedMatrix() and A.Matrix(), which scales local row (column) t
\* by the t-th local entry of d.  A local d shorter than the local block
\* would be read past its end in a release build (undefined; one outcome,
\* Garbage, is kept) and fail the debug check of lines 47-50 / 60-63.
LocalScale(c, w) ==
    LET rows == LocalRows(c)
        cols == LocalCols(w)
        dl == dLocal[IF side = "LEFT" THEN c ELSE w]
        op(x) == IF orientation = "ADJOINT" THEN Conj(x) ELSE x
    IN  /\ pc = "local"
        /\ <<c, w>> \notin scaled
        /\ A' = [i \in 0 .. m - 1 |-> [j \in 0 .. n - 1 |->
                   IF i \in rows /\ j \in cols
                   THEN LET t == 1 + IF side = "LEFT" THEN LocalIndex(i, rows)
                                                      ELSE LocalIndex(j, cols)
                        IN  Mul(A[i][j], op(IF t <= Len(dl) THEN dl[t] ELSE Garbage))
                   ELSE A[i][j]]]
        /\ scaled' = scaled \cup {<<c, w>>}
        /\ pc' = IF scaled' = Grid THEN "done" ELSE "local"
        /\ UNCHANGED <<side, orientation, entry, device, m, n, d, A0, k, kernel>>
        /\ UNCHANGED <<wrap, colStride, rowStride, colAlign, rowAlign,
                       blockHeight, blockWidth, colCut, rowCut, dLocal>>

Next ==
    \/ MakeProxy \/ \E p \in Grid : LocalScale(p[1], p[2])
    \/ DispatchCPU \/ DispatchGPU \/ EnterCPU \/ GPUScale
    \/ ScaleRow \/ ScaleColumn \/ LoopDone

Spec == Init /\ [][Next]_vars

-----------------------------------------------------------------------------
(* Properties.                                                             *)

\* Every overload that returns leaves A = op(D) A or A op(D), whichever
\* entry point and loop nest the call took.
ScaledCorrectly ==
    LET op(x) == IF orientation = "ADJOINT" THEN Conj(x) ELSE x
    IN  pc = "done" =>
           A = [r \in 0 .. m - 1 |-> [c \in 0 .. n - 1 |->
                   Mul(A0[r][c], op(d[IF side = "LEFT" THEN r ELSE c]))]]

\* The overload that runs is the one for the device A's memory is on
\* (the AbstractMatrix overload dispatches on A.GetDevice()).
KernelOnOwnDevice == kernel # "none" => kernel = device

=============================================================================
