--------------------------- MODULE PrecisionCascade ---------------------------
(***************************************************************************)
(* The precision cascade at the top of ShortVectorEnumeration (lines       *)
(* 33-146) and of ShortestVectorEnumeration (lines 380-485) in             *)
(* src/lattice/Enumerate.cpp.                                              *)
(*                                                                         *)
(* neededPrec = unsigned(Ceil(Log2(OneNorm(B))*fudge)).  The function,     *)
(* instantiated for a real type Real, tests the lower types float, double, *)
(* DoubleDouble, QuadDouble, Quad in that order; for each one whose        *)
(* mantissa is shorter than Real's and at least neededPrec bits wide it    *)
(* calls itself recursively at that type inside try { } and returns the    *)
(* result on success, or catches std::exception, prints it and goes on     *)
(* with the next type.  When no lower type returned, it computes at Real.  *)
(*                                                                         *)
(* A call is a frame on a stack.  What a frame computes once the cascade   *)
(* falls through is abstracted to its control: a ShortVectorEnumeration    *)
(* body returns or throws; a ShortestVectorEnumeration body makes up to    *)
(* MaxLoopCalls calls of ShortVectorEnumeration at its own type (each one  *)
(* a frame with its own cascade) and then returns or throws (a numerical   *)
(* failure, or the RuntimeError of line 512).                              *)
(*                                                                         *)
(* The data a ShortVectorEnumeration call decides on is kept: the caller's *)
(* normUpperBound, R(0,0) and the exact norms of the lattice's nonzero    *)
(* vectors, in a unit in which every value checked is an integer.  A type *)
(* of mantissa width w holds the multiples of Ulp[w] (one binade), and    *)
(* converting to it rounds to nearest, ties to even: RealLower(bound) at  *)
(* line 48 and Copy( R, RLower ) at line 46.  The body's search is the    *)
(* FULL strategy; the leaf kernel computes a vector's norm correctly      *)
(* rounded at the frame's type, and when it finds nothing it returns a    *)
(* value its contract allows (spec.md 6: any value >= the bound).  A loop *)
(* call of ShortestVectorEnumeration carries data too, but the loop's     *)
(* own use of it is modelled in ShortestVectorEnumeration.                *)
(***************************************************************************)
EXTENDS Integers, Sequences

CONSTANTS
    Ladder,        \* the lower types in the order the code tests them:
                   \* a sequence of their mantissa widths
    NativeBits,    \* mantissa widths of the types the functions are built for
    Log2Values,    \* values of Ceil(Log2(OneNorm(B))*fudge)
    MaxLoopCalls,  \* bound on the loop's calls of ShortVectorEnumeration
    Ulp,           \* mantissa width -> spacing of that type's values
    Bounds,        \* values of the caller's normUpperBound
    Norms,         \* exact norms of the lattice's nonzero vectors
    R00            \* R(0,0) = || b_0 ||, one of Norms

ASSUME MaxLoopCalls \in Nat
ASSUME R00 \in Norms

\* Conversion to the type of width w: round to the nearest multiple of
\* Ulp[w], ties to the even multiple (IEEE round-to-nearest).
RoundTo(x, w) ==
    LET u == Ulp[w]
        q == x \div u
        r == x % u
    IN  IF 2 * r < u \/ (2 * r = u /\ q % 2 = 0) THEN q * u ELSE (q + 1) * u

\* No bound underflows to zero at any type (the early return of lines 28-29
\* in a narrower call is not reached).
ASSUME \A b \in Bounds, w \in DOMAIN Ulp : b > 0 /\ RoundTo(b, w) > 0

\* What v holds when the kernel found nothing: no vector of the lattice.
NoVector == 0

VARIABLES
    neededPrec,   \* the unsigned neededPrec of the top-level call
    stack,        \* the active frames, the caller first
    outcome,      \* "running", "returned" or "raised"
    real,         \* mantissa width of the top-level call's Real
    raisedAt,     \* mantissa width of the body whose exception ended the call
    bound0,       \* the top-level call's normUpperBound
    answer        \* what the top-level call returned, once it has

vars == <<neededPrec, real, stack, outcome, raisedAt, bound0, answer>>

\* unsigned( x ) of the rounded double: defined for x >= 0; for x < 0 the
\* conversion is undefined behaviour, and the builds produce either the
\* value modulo 2^32 (x86-64 truncation) or 0 (saturating targets).  The
\* value modulo 2^32 of a small negative x is 2^32 + x, far above every
\* mantissa width, which is all neededPrec is compared with; TLC's integers
\* stop at 2^31, so 2^30 + x stands for it here.
ToUnsigned(x) == IF x >= 0 THEN {x} ELSE {2^30 + x, 0}

\* No chain of calls is deeper than this: each cascade frame is narrower
\* than its caller, and a loop's call starts one more cascade.
MaxDepth == 2 * (Len(Ladder) + 1)

\* Variant of Eligible that also accepts a type as wide as Real.
EligibleNotShorter(lower, bits) == bits >= lower /\ lower >= neededPrec

\* MantissaIsLonger<Real,Lower>::value && MantissaBits<Lower>::value >= neededPrec
Eligible(lower, bits) == bits > lower /\ lower >= neededPrec

\* A frame: the function (SHORT or SHORTEST), the mantissa width it computes
\* in, the index of the next lower type to test, the widths it has tried,
\* its phase ("cascade", "body", "return" or "throw"), the loop calls it
\* has left, its normUpperBound and R(0,0) at its type, and once it has
\* returned: its result, the exact norm of the v it returns, and the width
\* and bound of the frame whose body computed them.
Frame(fn, bits, calls, bound, r00) ==
    [fn |-> fn, bits |-> bits, next |-> 1, tried |-> <<>>,
     phase |-> "cascade", calls |-> calls, bound |-> bound, r00 |-> r00,
     result |-> 0, vec |-> NoVector, at |-> <<bits, bound>>]

Top == stack[Len(stack)]
SetTop(f) == stack' = [stack EXCEPT ![Len(stack)] = f]

Init ==
    /\ \E x \in Log2Values : neededPrec \in ToUnsigned(x)
    /\ real \in NativeBits
    /\ bound0 \in {b \in Bounds : RoundTo(b, real) = b}
    /\ \E fn \in {"SHORT", "SHORTEST"} :
          stack = <<Frame(fn, real, 0, bound0, RoundTo(R00, real))>>
    /\ outcome = "running"
    /\ raisedAt = 0
    /\ answer = [fn |-> "none"]

\* Variant of TryLower whose conversion of the bound truncates toward zero.
TryLowerTruncates ==
    /\ stack # <<>>
    /\ Top.phase = "cascade"
    /\ Top.next <= Len(Ladder)
    /\ Eligible(Ladder[Top.next], Top.bits)
    /\ Len(stack) < MaxDepth
    /\ LET f == Top
           lower == Ladder[f.next]
       IN  stack' = Append([stack EXCEPT ![Len(stack)] =
                               [f EXCEPT !.next = @ + 1,
                                         !.tried = Append(@, lower)]],
                           Frame(f.fn, lower, 0, (f.bound \div Ulp[lower]) * Ulp[lower],
                                 RoundTo(f.r00, lower)))
    /\ UNCHANGED <<neededPrec, real, outcome, raisedAt, bound0, answer>>

\* One "if( MantissaIsLonger<Real,Lower>... )" that holds: copy B and R to
\* the lower type and call the same function there inside try { }, with
\* RealLower(normUpperBound).
TryLower ==
    /\ stack # <<>>
    /\ Top.phase = "cascade"
    /\ Top.next <= Len(Ladder)
    /\ Eligible(Ladder[Top.next], Top.bits)
    /\ Len(stack) < MaxDepth
    /\ LET f == Top
           lower == Ladder[f.next]
       IN  stack' = Append([stack EXCEPT ![Len(stack)] =
                               [f EXCEPT !.next = @ + 1,
                                         !.tried = Append(@, lower)]],
                           Frame(f.fn, lower, 0, RoundTo(f.bound, lower),
                                 RoundTo(f.r00, lower)))
    /\ UNCHANGED <<neededPrec, real, outcome, raisedAt, bound0, answer>>

\* One "if" that does not hold (or is compiled out): test the next type.
SkipLower ==
    /\ stack # <<>>
    /\ Top.phase = "cascade"
    /\ Top.next <= Len(Ladder)
    /\ ~Eligible(Ladder[Top.next], Top.bits)
    /\ SetTop([Top EXCEPT !.next = @ + 1])
    /\ UNCHANGED <<neededPrec, real, outcome, raisedAt, bound0, answer>>

\* Lines 147-149 / 486-488: no lower type returned; compute at Real.  The
\* loop of ShortestVectorEnumeration will make some calls.
EnterBody ==
    /\ stack # <<>>
    /\ Top.phase = "cascade"
    /\ Top.next > Len(Ladder)
    /\ \E k \in (IF Top.fn = "SHORTEST" THEN 0 .. MaxLoopCalls ELSE {0}) :
          SetTop([Top EXCEPT !.phase = "body", !.calls = k])
    /\ UNCHANGED <<neededPrec, real, outcome, raisedAt, bound0, answer>>


\* Line 499: the loop calls ShortVectorEnumeration at its own type.
LoopCall ==
    /\ stack # <<>>
    /\ Top.phase = "body"
    /\ Top.calls > 0
    /\ stack' = Append([stack EXCEPT ![Len(stack)] = [Top EXCEPT !.calls = @ - 1]],
                       Frame("SHORT", Top.bits, 0, Top.bound, Top.r00))
    /\ UNCHANGED <<neededPrec, real, outcome, raisedAt, bound0, answer>>

\* What a ShortVectorEnumeration body at frame f may return: lines 149-155,
\* the trivial vector e_0 when R(0,0) < normUpperBound at f's type; else
\* the FULL kernel of lines 330-341, a vector whose norm at f's type is
\* below the bound, or, when there is none, a value >= the bound.
KernelAnswers(f) ==
    LET below == {x \in Norms : RoundTo(x, f.bits) < f.bound}
    IN  IF f.r00 < f.bound THEN {[result |-> f.r00, vec |-> R00]}
        ELSE IF below # {} THEN {[result |-> RoundTo(x, f.bits), vec |-> x] : x \in below}
        ELSE {[result |-> s, vec |-> NoVector] : s \in {f.bound, 2 * f.bound + 1}}

\* The body returns its result.
BodyReturn ==
    /\ stack # <<>>
    /\ Top.phase = "body"
    /\ Top.calls = 0
    /\ IF Top.fn = "SHORT"
       THEN \E a \in KernelAnswers(Top) :
               SetTop([Top EXCEPT !.phase = "return", !.result = a.result,
                                  !.vec = a.vec, !.at = <<Top.bits, Top.bound>>])
       ELSE SetTop([Top EXCEPT !.phase = "return"])
    /\ UNCHANGED <<neededPrec, real, outcome, raisedAt, bound0, answer>>

\* The body throws: a numerical failure of a kernel or of BKZ, or (in the
\* loop) RuntimeError("Could not satisfy (inclusive) norm upper bound").
BodyThrow ==
    /\ stack # <<>>
    /\ Top.phase = "body"
    /\ SetTop([Top EXCEPT !.phase = "throw"])
    /\ raisedAt' = Top.bits
    /\ UNCHANGED <<neededPrec, real, outcome, bound0, answer>>

\* The frames that have finished pass their outcome to their callers.
Caller == stack[Len(stack) - 1]
Pop(p) == stack' = [SubSeq(stack, 1, Len(stack) - 1) EXCEPT ![Len(stack) - 1] = p]

\* The outermost frame returns to, or raises in, the caller of the engine.
Finish ==
    /\ Len(stack) = 1
    /\ Top.phase \in {"return", "throw"}
    /\ stack' = <<>>
    /\ outcome' = IF Top.phase = "return" THEN "returned" ELSE "raised"
    /\ answer' = IF Top.phase = "return"
                 THEN [fn |-> Top.fn, result |-> Top.result, vec |-> Top.vec, at |-> Top.at]
                 ELSE answer
    /\ UNCHANGED <<neededPrec, real, raisedAt, bound0>>

\* Lines 49-50: the lower call succeeded; copy vLower into v and return
\* Real(result) (exact: a narrower type's values are values of Real).
ReturnFromLower ==
    /\ Len(stack) > 1
    /\ Top.phase = "return"
    /\ Caller.phase = "cascade"
    /\ Pop([Caller EXCEPT !.phase = "return", !.result = Top.result,
                         !.vec = Top.vec, !.at = Top.at])
    /\ UNCHANGED <<neededPrec, real, outcome, raisedAt, bound0, answer>>

\* Lines 498-499: the loop's call returned; the loop goes on.
ReturnToLoop ==
    /\ Len(stack) > 1
    /\ Top.phase = "return"
    /\ Caller.phase = "body"
    /\ Pop(Caller)
    /\ UNCHANGED <<neededPrec, real, outcome, raisedAt, bound0, answer>>

\* Variant of CatchLower whose handler rethrows.
CatchLowerRethrows ==
    /\ Len(stack) > 1
    /\ Top.phase = "throw"
    /\ Caller.phase = "cascade"
    /\ Pop([Caller EXCEPT !.phase = "throw"])
    /\ UNCHANGED <<neededPrec, real, outcome, raisedAt, bound0, answer>>

\* Lines 52-53: catch( std::exception& e ) { Output(...) }; test the next type.
CatchLower ==
    /\ Len(stack) > 1
    /\ Top.phase = "throw"
    /\ Caller.phase = "cascade"
    /\ Pop(Caller)
    /\ UNCHANGED <<neededPrec, real, outcome, raisedAt, bound0, answer>>

\* The loop has no try: an exception of its call propagates out of it.
ThrowIntoLoop ==
    /\ Len(stack) > 1
    /\ Top.phase = "throw"
    /\ Caller.phase = "body"
    /\ Pop([Caller EXCEPT !.phase = "throw"])
    /\ UNCHANGED <<neededPrec, real, outcome, raisedAt, bound0, answer>>

Next ==
    \/ TryLower
    \/ SkipLower
    \/ EnterBody
    \/ LoopCall
    \/ BodyReturn
    \/ BodyThrow
    \/ Finish
    \/ ReturnFromLower
    \/ ReturnToLoop
    \/ CatchLower
    \/ ThrowIntoLoop

\* One thread, never blocked.
Spec == Init /\ [][Next]_vars /\ WF_vars(Next)

-----------------------------------------------------------------------------
(* Properties.                                                             *)

TypeOK ==
    /\ neededPrec \in Nat
    /\ real \in NativeBits
    /\ Len(stack) <= MaxDepth
    /\ \A i \in DOMAIN stack :
          /\ stack[i].fn \in {"SHORT", "SHORTEST"}
          /\ stack[i].phase \in {"cascade", "body", "return", "throw"}
          /\ stack[i].calls \in 0 .. MaxLoopCalls
    /\ outcome \in {"running", "returned", "raised"}
    /\ bound0 \in Bounds

\* spec.md 4.1: the cascade tries the lower types in increasing order of
\* mantissa width, so the narrowest sufficient type is tried first.
AttemptOrder ==
    \A i \in DOMAIN stack :
        \A a, b \in DOMAIN stack[i].tried :
            a < b => stack[i].tried[a] < stack[i].tried[b]

\* A failure at a lower precision never reaches the engine's caller: the
\* call raises only when a computation at the caller's own type failed
\* (spec.md 7: lower-precision failures are recoverable).
FailuresAbsorbed == outcome = "raised" => raisedAt = real

\* spec.md 4.3 and 6: a call returns a value below its bound exactly when
\* the lattice has a vector of norm below the bound, and then v is such a
\* vector.  When a ShortVectorEnumeration call returns, its answer is that
\* exact one, except in the two ways the conversion to the type that
\* computed it (RealLower(normUpperBound) and Copy of R, lines 46-48) can
\* change it: the bound was rounded down and the kernel's not-found value
\* (a value >= the rounded bound) is that bound, which the caller reads as
\* a norm below its own bound with no vector behind it; or a vector below
\* the caller's bound has a norm that rounds onto the rounded bound, and
\* the strict tests of line 150 and of the kernel miss it.
AnswerExactUnlessRounded ==
    (outcome = "returned" /\ answer.fn = "SHORT") =>
        LET b == bound0
            w == answer.at[1]
            bw == answer.at[2]
            exact == \E x \in Norms : x < b
        IN  \/ /\ (answer.result < b) = exact
               /\ answer.result < b => answer.vec \in Norms /\ answer.vec < b
            \/ bw < b /\ answer.result = bw /\ answer.vec = NoVector
            \/ \E x \in Norms : x < b /\ RoundTo(x, w) = bw

\* The recursion over the ladder bottoms out and the call returns or
\* raises (spec.md 4.1).
Terminates == <>(outcome # "running")

=============================================================================
