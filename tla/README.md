# TLA+ models of Elemental's lattice enumeration, matrix builders, argument reader and diagonal scaling

This directory holds TLA+ models of parts of the C++ sources under `src/`.
Each model is translated from the code. `PROJECT.json` maps every definition
to the lines it models, and lists each TLC run, the mutants that check the
runs' properties, the findings and the hazards.

## The system and its parts

| Part | Source | What it does |
|---|---|---|
| Short-vector enumeration | `src/src/lattice/Enumerate.cpp` 14-342 | One call looks for a lattice vector of `B` with norm below an exclusive bound. It first tries the trivial vector `b_0`. It then runs one of three strategies. FULL and YSPARSE call a leaf kernel. GNR runs `numTrials` trials. Each trial perturbs the basis with a random unimodular `U`, reduces it with BKZ and enumerates under pruning bounds. A vector found is mapped back through `U`. |
| Precision cascade | same file, 33-146 and 380-485 | Both entry points first compute `neededPrec` from the basis one-norm. They then try each narrower type whose mantissa is wider than `neededPrec`, in the order float, double, DoubleDouble, QuadDouble, Quad. The call recurses into the function at that type and catches any exception. If no narrower type succeeds, the call falls through to working precision. |
| Shortest-vector loop | same file, 345-545 | Starts from `targetNorm = Min(normUpperBound, ‖b_0‖)`. It repeats the short-vector call with the target set to each norm found, until a call finds nothing. It raises `RuntimeError` if the first call failed and `‖b_0‖` is above the bound. |
| GNR pruning bounds | same file, 163-209 | Computes the per-depth bounds: either linear, or interpolated from a 17-entry table. |
| YSPARSE phase plan | same file, 301-315 | Computes the start index, the number of phases and the per-phase norm arrays. |
| DynamicRegCounter | `src/src/matrices/DynamicRegCounter.cpp` | Four builders of the same 2n×2n matrix: dense, distributed dense, sparse (a queue of updates) and distributed sparse (one queue per process, each for its own rows). |
| MpiArgs | `src/include/elemental/core/imports/mpi_choice.hpp` | A command-line reader run by every rank. Rank 0 tracks which argv positions have been consumed and warns of conflicts and of repeated options. `Process` reports and throws when a required option is missing or `--help` is given. |
| DiagonalScale | `src/include/El/blas_like/level1/DiagonalScale.hpp` | `A := op(D) A` or `A op(D)`. There are CPU loops, a cuBLAS GPU overload, an AbstractMatrix overload that dispatches on the device, and distributed overloads. |
| MPI AllReduce / Broadcast | `src/src/core/imports/mpi/*.hpp` | Collective wrappers run by every rank. They have one overload per element kind: Aluminum, packed real, complex (reduced as 2·count reals under `EL_AVOID_COMPLEX_MPI` when the op is SUM), non-packed (serialized), and a bad-type overload that raises `LogicError`. There are early returns for `count == 0` and, in some overloads, for a one-process communicator. |
| TriangularInverse, `[*,*]`, `[*,MC]` | headers | Declarations only. |

How the parts interact:

- The shortest-vector loop calls the short-vector enumeration.
- The precision cascade wraps both of them: each recursive call re-enters the cascade at a narrower type.
- GNR uses the pruning bounds, and YSPARSE uses the phase plan.
- DiagonalScale's distributed overloads build a read proxy of `d` aligned with `A`'s distribution, then call the local overload on every process.
- The MPI collectives are the communication layer under the distributed matrices.
- The other parts are independent of each other.

## Modules

The modules are listed in build order. The later ones compose the earlier ones.

- **`Lattice`**: operators on integer matrices stored as columns: `MatVec`, `MatMul`, `ColumnAxpy`, `NormSq`, and a recursive `Det` used by `IsUnimodular`.
- **`ShortVectorContract`**: the abstract specification of one short-vector call. A call returns either a lattice norm below the bound together with its vector, or a value at or above the bound.
- **`ShortVectorEnumeration`** (extends `Lattice`): one call, step by step. The state is `BNew`, `U`, `trial`, `v` and `pc`.
  - One action per branch: `ImpossibleBound`, `EmptyBasis`, `TrivialVector`, `FullEnum`, `YSparseEnum`, `StartGNR`, `BeginTrial`, `Perturb`, `FixUpBKZ`, `GNRSearch`, `TrialsExhausted`.
  - The kernels and BKZ are modelled by what they promise. BKZ steps are drawn from a set of unimodular matrices.
  - `Contract` instantiates `ShortVectorContract` through an `INSTANCE ... WITH` refinement mapping: the call has returned once `pc = "done"`.
- **`ShortestVectorEnumeration`** (instantiates `ShortVectorEnumeration`): the tightening loop. It calls the inner module's actions as its `Call` step.
  - `CallsMeetContract` checks each call the loop makes against the inner module's `Contract`: every step that returns from a call must be a `Return` the contract allows for that call's bound.
  - The model keeps `BNew` and `U` from the previous call, whereas the code declares them afresh in each call (line 217). This does not matter: `BeginTrial` sets `BNew = B` and `U = I` before either is used (lines 221-222).
- **`PrecisionCascade`**: the cascade as a call stack of frames (function, type, remaining loop calls).
  - Actions: `TryLower`, `SkipLower`, `EnterBody`, `LoopCall`, `BodyReturn`, `BodyThrow`, `Finish`, `ReturnFromLower`, `ReturnToLoop`, `CatchLower`, `ThrowIntoLoop`.
  - Two bounds exist only in the model. `EnterBody` gives a loop frame a budget of at most `MaxLoopCalls` calls, standing for the code's `while(true)`, whose ending is checked in `ShortestVectorEnumeration`. `TryLower` is guarded by `Len(stack) < MaxDepth`, a depth the code's ladder never exceeds, so the guard never binds.
  - `ToUnsigned` models the conversion of a negative `Ceil(Log2(...))` to `unsigned`. That conversion is undefined behaviour, so the model chooses nondeterministically between the wrapped value and 0.
  - Each frame also carries the data a `ShortVectorEnumeration` call decides on: its `normUpperBound` and `R(0,0)` at its type, and once it returns, its result and the exact norm of its `v`.
  - Values are integers in a unit where a type of width w holds the multiples of `Ulp[w]` (one binade). `RoundTo` is the conversion to that type, round to nearest with ties to even. `TryLower` applies it to the bound (`RealLower(normUpperBound)`, line 48) and to `R(0,0)` (`Copy( R, RLower )`, line 46).
  - `KernelAnswers` is a body's answer: the trivial vector when `R(0,0) < bound` at the frame's type (line 150), otherwise the FULL kernel. The kernel is modelled by its contract. It computes each norm correctly rounded at the frame's type and returns a vector below the bound if there is one. Otherwise it returns the bound itself or `2·bound+1`, since spec.md 6 allows any value `≥` the bound.
  - `ReturnFromLower` copies `vLower` and `Real(result)` back exactly, because the narrower type's values are also values of the wider type.
- **`GNRPruningBounds`**: the bound loop in exact rationals over the denominator `10000 n`.
- **`YSparsePhases`**: the plan, using C++ truncating division. A negative phase count ends in `std::length_error`. `phaseLength = 0` divides by zero on line 307; that is undefined behaviour, and `ZeroPhaseLength` stops the model in `"undefined"`.
- **`EnumerationSetup`**: composes the two set-ups as the call does. `ctrl.enumType` (lines 162 and 301) selects one branch. The branch is an `INSTANCE` of `GNRPruningBounds` or of `YSparsePhases`, and the other branch's variables stay at their initial values.
- **`DynamicRegCounter`**: the sparse builder and the distributed builder, one queue per process, with the dense matrix as the reference. `ProcessQueues` is modelled as a fold that sums the queued updates.
- **`MpiArgs`**: `Input` (both overloads), `MissingValue` (the `ArgException` path), and `Process`, which folds in `PrintReport`.
- **`MpiCollectives`**: AllReduce, in-place AllReduce and Broadcast across the ranks of one communicator. Each rank is a process, with its state in functions from ranks.
  - Actions `BadType(r)`, `Enter(r)` (early return, or Serialize and enter the call) and `Unpack(r)` (Deserialize).
  - The collective steps `AllReduceCall` and `BcastCall` fire only once every rank has entered, as an MPI collective completes.
  - `AsReals` and `FromReals` model the reinterpretation of a complex buffer as 2·count reals.
- **`DiagonalScale`**: the entry points `EnterCPU`, `GPUScale`, `DispatchCPU` and `DispatchGPU`, the loops `ScaleRow` and `ScaleColumn`, and `LoopDone`.
  - A fourth entry, `"dist"`, is the distributed overload on a `colStride × rowStride` grid, with element or block wrapping, alignments and cuts.
  - `ProxyCtrl` translates the proxy set-up of lines 106-158.
  - `Proxy` is the read proxy's result: Elemental's distribution rule, modelled because the proxy's code is not in this repository.
  - `MakeProxy` builds the proxy, then `LocalScale(c, w)` runs the local overload on each process's block.
  - The same `ScaledCorrectly` covers local and distributed calls.

The `MC_*` modules and `.cfg` files give the constants.

## Runs

| Run | Checks | States | Shows |
|---|---|---|---|
| `shortest_safety` | TypeOK, ReturnSound, ShortestOnFull, BasisTracked, CallsMeetContract | 122,462 | A returned norm is the norm of the returned `v` and within the bound. With FULL it is a shortest vector. In every call the loop makes, `BNew = B U` with `U` unimodular, and the call returns what its contract allows. |
| `shortest_terminates` | Terminates | 3,640 | The loop ends. |
| `shortest_inclusive` (violation) | ErrorOnlyIfUnsatisfiable | – | The inclusive bound is searched exclusively (finding). |
| `cascade` | FailuresAbsorbed, AnswerExactUnlessRounded, Terminates | 29,620 | The recursion ends, and a failure at a narrower type never reaches the caller. A call's answer is the exact one except where converting the bound and `R` to the answering type makes a strict test tie (see below). |
| `cascade_order` (violation) | AttemptOrder | – | QuadDouble is tried before Quad (finding). |
| `enum_setup` | PruningMonotone, LastBoundIsFull, PhasesPartitionTail | 48,528 | GNR: for every n ≤ 48, the bounds are monotone and at most the caller's bound, and the last one equals it. YSPARSE: the phases exactly partition `startIndex..n-1`. |
| `regcounter` | TypeOK, QueuesWithinReserve, BuildersAgree | 771 | The sparse builders stay within their reservations and produce the dense matrix. |
| `mpiargs` | ConflictsWarned | 36,464 | Every overlap of consumed argv positions is warned about on rank 0. |
| `diagonal_scale` | ScaledCorrectly | 404,304 | Every entry point that returns computes `op(D) A` or `A op(D)`. This includes the distributed one, on every grid up to 3×3 with every wrap, alignment and cut. |
| `mpi_collectives` | CollectiveResult, AllReturn | 123,476 | Every overload of both collectives leaves each rank with the entrywise reduction or the root's buffer, including early returns, the complex-as-reals path and serialized types, and every rank returns. |
| `ysparse_plan` (violation) | PlanFitsPhases | – | `phaseLength = 0` divides by zero, and caller-supplied bound arrays of any length are handed to the phase kernel (finding: the spec states no precondition). |
| `diagonal_scale_device` (violation) | KernelOnOwnDevice | – | The GPU case runs CPU loops on device memory (finding). |

**Rounding in the cascade.** `AnswerExactUnlessRounded` holds, and TLC reaches both of its exceptions. So a call that the cascade answers at a narrower type can disagree with spec.md 4.3, which says that if `d(0) < normUpperBound` the trivial vector is returned:
- The caller's bound 10 and `‖b_0‖ = 9` both become 8 in float. The test on line 150 fails, and the FULL kernel finds nothing strictly below 8.
- If the kernel's not-found value is the rounded bound 8, the caller reads 8 < 10 as a find, with no vector in `v`.
- Otherwise the caller is told nothing lies below its bound.
- The precision check `neededPrec` is computed from the basis alone, so nothing in the code rules this out. The mutant that truncates the bound (instead of rounding to nearest) breaks even this weaker property.

Every property of a pass run has a mutant in `PROJECT.json`. A mutant is a plausible bug in the mapped code, such as a dropped guard, an off-by-one or swapped weights, and TLC finds the property violated under that run's configuration.

## Bounds and why they are enough

- **Lattice runs.** These use two rank-2 bases: `[[2,1],[0,1]]` and `[[3,1],[0,2]]`. The second has `‖b_0‖² = 9` above a shortest norm of 5, so the loop improves twice. The runs also include the empty basis.
  - Bounds sit at 0 (a call whose bound cannot be met, which reaches `ImpossibleBound` inside the loop), and below, at, between and above the lattice norms.
  - `numTrials` is 0 or 2, and scales are in {-1, 0, 1}.
  - BKZ steps are the identity, a shear and a swap.
  - Together these cover every branch, including the boundary cases of the inclusive bound.
- **Cascade run.**
  - The ladder has the code's five types.
  - Native widths are 53, 113 and 256.
  - `Log2` is -3 (the undefined-behaviour case), 20 or 110. 110 is the value that separates QuadDouble from Quad.
  - The run allows two loop calls per frame.
  - Float has spacing 4 and double 2; the wider types are exact on the values used. The lattice has `‖b_0‖ = 9` and a shorter vector of norm 6. The caller's bound is 6, 7 or 10:
    - 6 is exact at every type, and nothing lies below it.
    - 7 rounds up to 8 in float, and 6 ties onto 8.
    - 10 rounds down to 8, and both norms round onto 8.
  - TLC reaches both exceptions of `AnswerExactUnlessRounded`. Checked without them, the property fails at bound 10.
- **Enumeration set-up run, GNR.** It takes every n up to 48, which is three times the table's 16 intervals. This includes the n that divide 16 and those that do not.
- **Enumeration set-up run, YSPARSE.** It takes every n up to 20, phase lengths 0 to 5, and start indices below, at and above n.
- **DynamicRegCounter run.** It takes n up to 3 on 1 to 3 processes. This covers uneven row blocks and processes that own only rows from the bottom half.
- **MpiArgs run.** It covers argv of up to 4 tokens and up to 3 Input calls, on rank 0 and on another rank.
- **MPI collectives run.** It covers one to three ranks, count 0 to 2, SUM and PROD, and every overload, with and without `EL_AVOID_COMPLEX_MPI`.
  - The complex values `1+i` and `i` make the complex product differ from the product of the parts.
  - Count 0 and a single rank reach every early return.
- **DiagonalScale run, distributed entry.** It uses a 3×3 matrix on grids up to 3×3, with block sizes 1 and 2 and every alignment and cut. This gives uneven blocks and processes that own nothing.
  - `d(k) = (k+1)+i` and `A` is all ones, so a misaligned proxy shows in every entry.
- **DiagonalScale run.** It covers matrices up to 2×2, including the empty ones, with Gaussian-integer entries so that `Conj` is visible.

## Fairness

- `ShortestVectorEnumeration` and `PrecisionCascade` assume weak fairness of `Next`. Both are sequential code: while a step is enabled, the single thread takes it.
- `MpiCollectives` assumes weak fairness of each rank's own steps and of the collective step. Every rank keeps executing its call, and MPI completes a collective once all ranks have entered it.
- The other modules check safety only.
- Runs that can stop say `CHECK_DEADLOCK FALSE`, because the modelled call really returns.

## Not modelled

- **Leaf kernels and BKZ** (`svp::GNREnumeration`, `svp::PhaseEnumeration`, `BKZ`): their code is not in this repository. They are modelled by what they promise and marked `spec_modelled`.
- **Rounding inside the kernels.** A kernel's norms are taken as correctly rounded at its type. The kernel's own accumulated error is not modelled, because its code is not in this repository. The cascade's conversions of the bound and of `R` are modelled.
- **`DistMatrixReadProxy` and the distribution rules**: their code is not in this repository. They are modelled from Elemental's layout (owner = (index + align) mod stride, by element or by block) and marked `spec_modelled`.
- **GPU synchronisation and host-buffer staging** in the collectives: they move no data between ranks.
- **Ranks calling a collective with differing counts**: that is erroneous under MPI, and no caller is in these files.
- **TriangularInverse**: `TriangularInverse.hpp` only selects `LVar3` or `UVar3` by `uplo` and forwards. Those variants are not in this repository, so nothing of the algorithm could be checked against the code.
- **The two DistMatrix headers** (`star_star.hpp`, `star_mc.hpp`): class declarations only.
- **Output text**: the text of warnings and reports is not modelled. A warning is recorded by its kind.

## Next steps

- Model the inclusive sampler reading of `SampleUniform(0,n)`.
