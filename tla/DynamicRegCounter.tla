--------------------------- MODULE DynamicRegCounter ---------------------------
(***************************************************************************)
(* src/src/matrices/DynamicRegCounter.cpp: four builders of the same       *)
(* 2n x 2n matrix                                                          *)
(*        [ 4 J^T J   I ]                                                  *)
(*        [   I      -I ]     (J the Jordan block with eigenvalue 1/2).    *)
(* The dense builders (lines 13-46) fill the four quadrants with           *)
(* JordanCholesky, Identity and -Identity; they are one assignment, the    *)
(* reference Dense.  The sparse builder (lines 48-75) queues the nonzeros  *)
(* row block by row block and processes the queue; the distributed sparse *)
(* builder (lines 77-115) runs on every process of a communicator, each    *)
(* queueing the entries of the rows it owns into its own queue.           *)
(*                                                                         *)
(* ProcessQueues (outside this repository) adds up the queued updates of  *)
(* each entry; a row distribution gives every process a contiguous block   *)
(* of height/commSize rows, the last process the remainder.                *)
(***************************************************************************)
EXTENDS Integers, Sequences, SequencesExt

CONSTANTS
    Dims,        \* values of n
    ProcCounts   \* communicator sizes

ASSUME Dims \subseteq Nat /\ ProcCounts \subseteq Nat \ {0}

VARIABLES
    n, p,
    e, sparseQueue, sparseReserve, sparseA,      \* the sparse builder
    iLoc, localQueue, localReserve, localA      \* each process of the dist one

vars == <<n, p, e, sparseQueue, sparseReserve, sparseA,
          iLoc, localQueue, localReserve, localA>>

Procs == 0 .. p - 1
Idx == 0 .. 2 * n - 1

\* JordanCholesky( ATL, n ): 4 J_{1/2}^T J_{1/2}, tridiagonal with diagonal
\* 1, 5, ..., 5 and off-diagonals 2.
JordanCholesky(i, k) ==
    CASE i = k /\ i = 0 -> 1
      [] i = k          -> 5
      [] i - k \in {-1, 1} -> 2
      [] OTHER          -> 0

\* Lines 17-26: Zeros, then the four quadrants.
Dense == [ij \in Idx \X Idx |->
            LET i == ij[1]  k == ij[2] IN
            CASE i < n /\ k < n   -> JordanCholesky(i, k)
              [] i < n /\ k >= n  -> IF k = i + n THEN 1 ELSE 0
              [] i >= n /\ k < n  -> IF i = k + n THEN 1 ELSE 0
              [] OTHER            -> IF i = k THEN -1 ELSE 0]

\* ProcessQueues: every entry is the sum of the updates queued for it.
Assemble(q) ==
    [ij \in Idx \X Idx |->
        FoldLeft(LAMBDA acc, u : IF <<u[1], u[2]>> = ij THEN acc + u[3] ELSE acc,
                 0, q)]

\* The block row distribution of a height-h DistSparseMatrix over p processes.
FirstLocalRow(r) == r * ((2 * n) \div p)
LocalHeight(r) ==
    IF r = p - 1 THEN 2 * n - FirstLocalRow(r) ELSE (2 * n) \div p
GlobalRow(r, k) == FirstLocalRow(r) + k

\* Line 53: A.Reserve( 6*n ).
SparseReserve(k) == 6 * k

\* Variant of LocalReserve that counts three updates per row.
LocalReserveThree(h) == 3 * h

\* Lines 85-86: A.Reserve( 4*localHeight ).
LocalReserve(h) == 4 * h

Init ==
    /\ n \in Dims
    /\ p \in ProcCounts
    /\ e = 0
    /\ sparseQueue = <<>>
    /\ sparseReserve = SparseReserve(n)
    /\ sparseA = [ij \in Idx \X Idx |-> 0]
    /\ iLoc = [r \in Procs |-> 0]
    /\ localQueue = [r \in Procs |-> <<>>]
    /\ localReserve = [r \in Procs |-> LocalReserve(LocalHeight(r))]
    /\ localA = [r \in Procs |-> [ij \in Idx \X Idx |-> 0]]

-----------------------------------------------------------------------------
(* The sparse builder, lines 52-74.                                        *)

\* Lines 57-72: the updates of iteration e.
SparseRowUpdates(k) ==
    <<<<k, k, IF k = 0 THEN 1 ELSE 5>>>>
    \o (IF k > 0 THEN <<<<k, k - 1, 2>>>> ELSE <<>>)
    \o (IF k < n - 1 THEN <<<<k, k + 1, 2>>>> ELSE <<>>)
    \o <<<<k, k + n, 1>>, <<k + n, k, 1>>, <<k + n, k + n, -1>>>>

\* Lines 55-73: one iteration of the loop over e.
SparseStep ==
    /\ e < n
    /\ sparseQueue' = sparseQueue \o SparseRowUpdates(e)
    /\ e' = e + 1
    /\ UNCHANGED <<n, p, sparseReserve, sparseA, iLoc, localQueue, localReserve, localA>>

\* Line 74: A.ProcessQueues().
SparseProcess ==
    /\ e = n
    /\ sparseQueue # <<>>
    /\ sparseA' = Assemble(sparseQueue)
    /\ sparseQueue' = <<>>
    /\ UNCHANGED <<n, p, e, sparseReserve, iLoc, localQueue, localReserve, localA>>

-----------------------------------------------------------------------------
(* The distributed sparse builder, lines 81-114, on process r.             *)

\* Variant of LocalRowUpdates that tests i < n instead of i < n-1.
LocalRowUpdatesPastEnd(i) ==
    IF i < n
    THEN <<<<i, i, IF i = 0 THEN 1 ELSE 5>>>>
         \o (IF i > 0 THEN <<<<i, i - 1, 2>>>> ELSE <<>>)
         \o (IF i < n THEN <<<<i, i + 1, 2>>>> ELSE <<>>)
         \o <<<<i, i + n, 1>>>>
    ELSE <<<<i, i - n, 1>>, <<i, i, -1>>>>

\* Lines 90-112: the updates of global row i.
LocalRowUpdates(i) ==
    IF i < n
    THEN <<<<i, i, IF i = 0 THEN 1 ELSE 5>>>>
         \o (IF i > 0 THEN <<<<i, i - 1, 2>>>> ELSE <<>>)
         \o (IF i < n - 1 THEN <<<<i, i + 1, 2>>>> ELSE <<>>)
         \o <<<<i, i + n, 1>>>>
    ELSE <<<<i, i - n, 1>>, <<i, i, -1>>>>

\* Variant of LocalStep without the loop test iLoc < localHeight.
LocalStepUnguarded(r) ==
    /\ localQueue' = [localQueue EXCEPT ![r] = @ \o LocalRowUpdates(GlobalRow(r, iLoc[r]))]
    /\ iLoc' = [iLoc EXCEPT ![r] = @ + 1]
    /\ UNCHANGED <<n, p, e, sparseQueue, sparseReserve, sparseA, localReserve, localA>>

\* Lines 88-113: one iteration of the loop over the local rows.
LocalStep(r) ==
    /\ iLoc[r] < LocalHeight(r)
    /\ localQueue' = [localQueue EXCEPT ![r] = @ \o LocalRowUpdates(GlobalRow(r, iLoc[r]))]
    /\ iLoc' = [iLoc EXCEPT ![r] = @ + 1]
    /\ UNCHANGED <<n, p, e, sparseQueue, sparseReserve, sparseA, localReserve, localA>>

\* Line 114: A.ProcessQueues() on process r.
LocalProcess(r) ==
    /\ iLoc[r] = LocalHeight(r)
    /\ localQueue[r] # <<>>
    /\ localA' = [localA EXCEPT ![r] = Assemble(localQueue[r])]
    /\ localQueue' = [localQueue EXCEPT ![r] = <<>>]
    /\ UNCHANGED <<n, p, e, sparseQueue, sparseReserve, sparseA, iLoc, localReserve>>

Next ==
    \/ SparseStep
    \/ SparseProcess
    \/ \E r \in Procs : LocalStep(r) \/ LocalProcess(r)

Spec == Init /\ [][Next]_vars

-----------------------------------------------------------------------------
(* Properties.                                                             *)

TypeOK ==
    /\ n \in Dims
    /\ p \in ProcCounts
    /\ e \in 0 .. n
    /\ sparseA \in [Idx \X Idx -> Int]
    /\ \A r \in Procs : iLoc[r] \in 0 .. LocalHeight(r)

SparseDone == e = n /\ sparseQueue = <<>>
LocalDone(r) == iLoc[r] = LocalHeight(r) /\ localQueue[r] = <<>>

\* No builder queues more updates than it reserved: 6n for the sparse
\* builder (line 53) and 4 per local row for the distributed one, the
\* bound the comment on lines 83-84 claims.
QueuesWithinReserve ==
    /\ Len(sparseQueue) <= sparseReserve
    /\ \A r \in Procs : Len(localQueue[r]) <= localReserve[r]

\* The three builders agree: once the sparse builder has processed its
\* queue it holds the dense matrix, and once every process has processed
\* its queue the rows each one owns are the dense matrix's rows, and it
\* holds nothing in the rows of the others.
BuildersAgree ==
    /\ SparseDone => sparseA = Dense
    /\ \A r \in Procs : LocalDone(r) =>
          \A ij \in Idx \X Idx :
             localA[r][ij] = IF ij[1] - FirstLocalRow(r) \in 0 .. LocalHeight(r) - 1
                             THEN Dense[ij] ELSE 0

=============================================================================
