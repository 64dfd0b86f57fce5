---------------------------- MODULE MpiCollectives ----------------------------
(***************************************************************************)
(* The collective wrappers El::mpi::AllReduce (src/core/imports/mpi/      *)
(* AllReduce.hpp) and El::mpi::Broadcast (src/core/imports/mpi/           *)
(* Broadcast.hpp), run by every rank of a communicator.                    *)
(*                                                                         *)
(* All ranks call the same overload (it is chosen by the element type and  *)
(* device) with the same count, op and root, as MPI requires.  The        *)
(* overloads are                                                           *)
(*   "aluminum"   Al::Allreduce / Al::Bcast (HYDROGEN_HAVE_ALUMINUM),      *)
(*   "packed"     a real packed type, MPI_Allreduce / MPI_Bcast directly,  *)
(*   "complex"    Complex<T>, which with EL_AVOID_COMPLEX_MPI reduces or  *)
(*                broadcasts 2*count reals instead,                       *)
(*   "serialized" a non-packed type: Serialize, the MPI call on the bytes, *)
(*                Deserialize,                                             *)
(*   "invalid"    the bad device/type overload, LogicError.               *)
(* The MPI call itself is one step taken when every rank of the           *)
(* communicator has entered it (a collective completes only then).        *)
(*                                                                         *)
(* An element is a Gaussian integer <<re, im>>; a real type has im = 0.   *)
(***************************************************************************)
EXTENDS Integers, Sequences, Functions

CONSTANTS
    CommSizes,    \* values of Size( comm )
    Counts,       \* values of count
    RealValues,   \* elements of a real type
    ComplexValues \* elements of a complex type

VARIABLES
    coll,         \* "AllReduce", "AllReduceInPlace" or "Broadcast"
    impl,         \* the overload, see above
    avoidComplex, \* EL_AVOID_COMPLEX_MPI
    op,           \* "SUM" or "PROD"
    size, count, root,
    input,        \* rank -> its sbuf (or buf on entry, for the in-place call)
    buf,          \* rank -> rbuf (or buf)
    packed,       \* rank -> packedSend / packedBuf
    recv,         \* rank -> packedRecv
    pc            \* rank -> "enter", "mpi", "unpack", "done" or "error"

vars == <<coll, impl, avoidComplex, op, size, count, root, input, buf,
          packed, recv, pc>>

Ranks == 0 .. size - 1

\* Every rank of any communicator checked.
AllRanks == UNION {0 .. s - 1 : s \in CommSizes}

\* What rbuf holds before the call.
Stale == <<-9, -9>>

Plus(x, y) == <<x[1] + y[1], x[2] + y[2]>>
Times(x, y) == <<x[1] * y[1] - x[2] * y[2], x[1] * y[2] + x[2] * y[1]>>

-----------------------------------------------------------------------------
(* The MPI library.                                                        *)

\* MPI_Allreduce over elements: entry k of every rank's result combines
\* entry k of every rank's send buffer.  A real element is <<x, 0>>, on
\* which Plus and Times are the real sum and product.
Allreduce(data, o, len) ==
    [k \in 1 .. len |->
        FoldFunction(LAMBDA x, y : IF o = "SUM" THEN Plus(x, y) ELSE Times(x, y),
                     IF o = "SUM" THEN <<0, 0>> ELSE <<1, 0>>,
                     [r \in Ranks |-> data[r][k]])]

\* A Complex<T> buffer of count entries read as 2*count entries of T (the
\* real part of each entry, then its imaginary part), and back.
AsReals(s) == [k \in 1 .. 2 * Len(s) |->
                  <<s[(k + 1) \div 2][2 - (k % 2)], 0>>]
FromReals(s) == [k \in 1 .. Len(s) \div 2 |-> <<s[2 * k - 1][1], s[2 * k][1]>>]

-----------------------------------------------------------------------------

\* Lines 301-319 of AllReduce.hpp and 138-140 of Broadcast.hpp: the
\* scalar and default-op wrappers are calls with count 1 or op SUM.
Init ==
    /\ coll \in {"AllReduce", "AllReduceInPlace", "Broadcast"}
    /\ impl \in {"aluminum", "packed", "complex", "serialized", "invalid"}
    /\ avoidComplex \in BOOLEAN
    /\ op \in IF coll = "Broadcast" THEN {"SUM"} ELSE {"SUM", "PROD"}
    /\ size \in CommSizes
    /\ count \in Counts
    /\ root \in Ranks
    /\ input \in [Ranks -> [1 .. count ->
                     IF impl = "complex" THEN ComplexValues ELSE RealValues]]
    /\ buf = IF coll = "AllReduce" THEN [r \in Ranks |-> [k \in 1 .. count |-> Stale]]
                                   ELSE input
    /\ packed = [r \in Ranks |-> <<>>]
    /\ recv = [r \in Ranks |-> <<>>]
    /\ pc = [r \in Ranks |-> "enter"]

\* Variant of EarlyReturn in which Broadcast tests the count rank r
\* receives (post_xfer_size, zero at the root) instead of count.
EarlyReturnNoTransfer(r) ==
    \/ count = 0 /\ ~(coll = "Broadcast" /\ impl = "aluminum")
    \/ coll = "Broadcast" /\ impl # "aluminum" /\ r = root
    \/ /\ size = 1
       /\ \/ coll = "Broadcast" /\ impl # "aluminum"
          \/ coll = "AllReduceInPlace" /\ impl \in {"packed", "complex"}

\* The early return of the valid overloads, as rank r evaluates it:
\* count == 0 (every overload but Al::Bcast), and Size( comm ) == 1 for
\* the MPI Broadcasts and the packed in-place AllReduces.
EarlyReturn(r) ==
    \/ count = 0 /\ ~(coll = "Broadcast" /\ impl = "aluminum")
    \/ /\ size = 1
       /\ \/ coll = "Broadcast" /\ impl # "aluminum"
          \/ coll = "AllReduceInPlace" /\ impl \in {"packed", "complex"}

\* Lines 145-152 and 292-299 of AllReduce.hpp, 129-136 of Broadcast.hpp.
BadType(r) ==
    /\ r \in Ranks
    /\ pc[r] = "enter"
    /\ impl = "invalid"
    /\ pc' = [pc EXCEPT ![r] = "error"]
    /\ UNCHANGED <<coll, impl, avoidComplex, op, size, count, root, input,
                   buf, packed, recv>>

\* Entry of a valid overload on rank r: return early, or Synchronize,
\* Serialize the send buffer (non-packed types) and enter the MPI call.
Enter(r) ==
    /\ r \in Ranks
    /\ pc[r] = "enter"
    /\ impl # "invalid"
    /\ IF EarlyReturn(r)
       THEN /\ pc' = [pc EXCEPT ![r] = "done"]
            /\ UNCHANGED packed
       ELSE /\ pc' = [pc EXCEPT ![r] = "mpi"]
            /\ packed' = IF impl = "serialized"
                         THEN [packed EXCEPT ![r] =
                                  IF coll = "AllReduce" THEN input[r] ELSE buf[r]]
                         ELSE packed
    /\ UNCHANGED <<coll, impl, avoidComplex, op, size, count, root, input,
                   buf, recv>>

\* Variant of ComplexAsReals that reduces 2*count reals for any op.
ComplexAsRealsAnyOp == impl = "complex" /\ avoidComplex

\* Lines 92-99 and 238-245: under EL_AVOID_COMPLEX_MPI a complex SUM is
\* a SUM of 2*count reals; any other op stays on the complex type.
ComplexAsReals == impl = "complex" /\ avoidComplex /\ op = "SUM"

\* The result of the AllReduce collective on the buffers data.
AllReduceResult(data) ==
    IF ComplexAsReals
    THEN [r \in Ranks |->
             FromReals(Allreduce([q \in Ranks |-> AsReals(data[q])], op, 2 * count))]
    ELSE [r \in Ranks |-> Allreduce(data, op, count)]

\* The MPI_Allreduce / Al::Allreduce call, once every rank has entered it:
\* into rbuf (or buf), or into packedRecv for a serialized type.
AllReduceCall ==
    /\ coll \in {"AllReduce", "AllReduceInPlace"}
    /\ \A r \in Ranks : pc[r] = "mpi"
    /\ LET data == IF impl = "serialized" THEN packed
                   ELSE IF coll = "AllReduce" THEN input ELSE buf
       IN  IF impl = "serialized"
           THEN /\ recv' = AllReduceResult(data)
                /\ pc' = [r \in Ranks |-> "unpack"]
                /\ UNCHANGED buf
           ELSE /\ buf' = AllReduceResult(data)
                /\ pc' = [r \in Ranks |-> "done"]
                /\ UNCHANGED recv
    /\ UNCHANGED <<coll, impl, avoidComplex, op, size, count, root, input, packed>>

\* The MPI_Bcast / Al::Bcast call: every rank receives the root's buffer
\* (under EL_AVOID_COMPLEX_MPI a complex buffer travels as 2*count reals).
BcastCall ==
    /\ coll = "Broadcast"
    /\ \A r \in Ranks : pc[r] = "mpi"
    /\ LET wire == IF impl = "complex" /\ avoidComplex
                   THEN FromReals(AsReals(buf[root])) ELSE buf[root]
       IN  IF impl = "serialized"
           THEN /\ recv' = [r \in Ranks |-> packed[root]]
                /\ pc' = [r \in Ranks |-> "unpack"]
                /\ UNCHANGED buf
           ELSE /\ buf' = [r \in Ranks |-> wire]
                /\ pc' = [r \in Ranks |-> "done"]
                /\ UNCHANGED recv
    /\ UNCHANGED <<coll, impl, avoidComplex, op, size, count, root, input, packed>>

\* Deserialize( count, packedRecv, rbuf ) on rank r.
Unpack(r) ==
    /\ r \in Ranks
    /\ pc[r] = "unpack"
    /\ buf' = [buf EXCEPT ![r] = recv[r]]
    /\ pc' = [pc EXCEPT ![r] = "done"]
    /\ UNCHANGED <<coll, impl, avoidComplex, op, size, count, root, input,
                   packed, recv>>

Next ==
    \/ \E r \in Ranks : BadType(r) \/ Enter(r) \/ Unpack(r)
    \/ AllReduceCall
    \/ BcastCall

\* Every rank keeps running its call, and MPI completes a collective once
\* all ranks have entered it.
Fairness ==
    /\ \A r \in AllRanks : WF_vars(Enter(r)) /\ WF_vars(Unpack(r)) /\ WF_vars(BadType(r))
    /\ WF_vars(AllReduceCall)
    /\ WF_vars(BcastCall)

Spec == Init /\ [][Next]_vars /\ Fairness

-----------------------------------------------------------------------------
(* Properties.                                                             *)

\* Once every rank has returned normally, each holds what the collective
\* promises: the entrywise sum or product over all ranks' inputs for
\* AllReduce (in place or not), the root's buffer for Broadcast, whichever
\* overload, early return or EL_AVOID_COMPLEX_MPI path the call took.
CollectiveResult ==
    LET combine(x, y) == IF op = "SUM" THEN Plus(x, y) ELSE Times(x, y)
        unit == IF op = "SUM" THEN <<0, 0>> ELSE <<1, 0>>
        expected ==
            IF coll = "Broadcast" THEN input[root]
            ELSE [k \in 1 .. count |->
                    FoldFunction(combine, unit, [q \in Ranks |-> input[q][k]])]
    IN  (\A r \in Ranks : pc[r] = "done") => \A r \in Ranks : buf[r] = expected

\* Every rank returns from the collective (no rank waits forever for
\* another that skipped the MPI call).
AllReturn == <>(\A r \in Ranks : pc[r] \in {"done", "error"})

=============================================================================
