------------------------------- MODULE MpiArgs -------------------------------
(***************************************************************************)
(* The command-line reader elem::choice::MpiArgs,                          *)
(* include/elemental/core/imports/mpi_choice.hpp lines 70-250.  A program  *)
(* makes a sequence of Input calls (required, or optional with a default)  *)
(* and then calls Process.  Every process of the communicator runs the     *)
(* same calls on the same argv; only rank 0 records which argv positions   *)
(* the calls consumed and writes the warnings and the report.              *)
(*                                                                         *)
(* argv is a sequence of tokens indexed from 0 as in C (argv[0] is the    *)
(* program name); a token is a model value or a string standing for one.  *)
(* The value an Input returns is the token it casts (the cast itself and  *)
(* the text of the messages are left out); a message is recorded by its   *)
(* kind.                                                                   *)
(***************************************************************************)
EXTENDS Integers, Sequences, FiniteSets

CONSTANTS
    Argvs,       \* the argument vectors, argv[1..argc-1] (argv[0] is added)
    Programs,    \* the sequences of Input calls, [name, required]
    Ranks        \* the ranks the reader can run on

VARIABLES
    argv,            \* the argument vector, a function from 0..argc-1
    program,         \* the Input calls still to make
    commRank,        \* mpi::CommRank( comm_ )
    usedArgs,        \* usedArgs_
    requiredArgs,    \* requiredArgs_: records [name, usedVal, found]
    optionalArgs,    \* optionalArgs_
    warnings,        \* the messages written to error_, by kind
    consumed,        \* argv position -> the calls whose name or value it was
    calls,           \* the number of Input calls made so far
    pc               \* "input", "thrown", "processed" or "reported"

vars == <<argv, program, commRank, usedArgs, requiredArgs, optionalArgs,
          warnings, consumed, calls, pc>>

argc == Cardinality(DOMAIN argv)
Positions == 0 .. argc - 1

\* std::find( first, argv_+argc_, name ) - argv_: the first position from
\* first on that holds name, or argc.
Find(first, name) ==
    LET hits == {k \in first .. argc - 1 : argv[k] = name}
    IN  IF hits = {} THEN argc ELSE CHOOSE k \in hits : \A h \in hits : k <= h

Init ==
    /\ \E rest \in Argvs :
          argv = [k \in 0 .. Len(rest) |-> IF k = 0 THEN "prog" ELSE rest[k]]
    /\ program \in Programs
    /\ commRank \in Ranks
    /\ usedArgs = [k \in Positions |-> FALSE]
    /\ requiredArgs = <<>>
    /\ optionalArgs = <<>>
    /\ warnings = <<>>
    /\ consumed = [k \in Positions |-> {}]
    /\ calls = 0
    /\ pc = "input"

\* Lines 79-90 / 129-140: the first occurrence of name is the last
\* argument, so it has no value: ArgException.
MissingValue ==
    /\ pc = "input"
    /\ program # <<>>
    /\ Find(0, Head(program).name) = argc - 1
    /\ warnings' = IF commRank = 0 THEN Append(warnings, "missing value")
                                   ELSE warnings
    /\ pc' = "thrown"
    /\ UNCHANGED <<argv, program, commRank, usedArgs, requiredArgs,
                   optionalArgs, consumed, calls>>

\* Variant of Bookkeeping that only tests the name's own position.
BookkeepingNameOnly(name, arg) ==
    IF commRank = 0 /\ arg < argc
    THEN LET conflict == usedArgs[arg]
             twice == Find(arg + 1, name) < argc
         IN  /\ warnings' = warnings \o (IF conflict THEN <<"conflict">> ELSE <<>>)
                                     \o (IF twice THEN <<"twice">> ELSE <<>>)
             /\ usedArgs' = [usedArgs EXCEPT ![arg] = TRUE, ![arg + 1] = TRUE]
             /\ consumed' = [consumed EXCEPT ![arg] = @ \cup {calls},
                                             ![arg + 1] = @ \cup {calls}]
    ELSE UNCHANGED <<warnings, usedArgs, consumed>>

\* Lines 96-120 / 150-174: on rank 0, a found argument whose name or value
\* position is already used is a conflict; both positions become used;
\* a later occurrence of the name is reported as given twice.
Bookkeeping(name, arg) ==
    IF commRank = 0 /\ arg < argc
    THEN LET conflict == usedArgs[arg] \/ usedArgs[arg + 1]
             twice == Find(arg + 1, name) < argc
         IN  /\ warnings' = warnings \o (IF conflict THEN <<"conflict">> ELSE <<>>)
                                     \o (IF twice THEN <<"twice">> ELSE <<>>)
             /\ usedArgs' = [usedArgs EXCEPT ![arg] = TRUE, ![arg + 1] = TRUE]
             /\ consumed' = [consumed EXCEPT ![arg] = @ \cup {calls},
                                             ![arg + 1] = @ \cup {calls}]
    ELSE UNCHANGED <<warnings, usedArgs, consumed>>

\* Lines 75-123 (required) and 125-180 (optional): record the argument
\* with the token after its first occurrence, or "N/A" / the default.
Input ==
    /\ pc = "input"
    /\ program # <<>>
    /\ LET call == Head(program)
           arg == Find(0, call.name)
           found == arg < argc
       IN  /\ arg # argc - 1
           /\ IF call.required
              THEN /\ requiredArgs' = Append(requiredArgs,
                         [name |-> call.name, found |-> found,
                          usedVal |-> IF found THEN argv[arg + 1] ELSE "N/A"])
                   /\ UNCHANGED optionalArgs
              ELSE /\ optionalArgs' = Append(optionalArgs,
                         [name |-> call.name, found |-> found,
                          usedVal |-> IF found THEN argv[arg + 1] ELSE "default"])
                   /\ UNCHANGED requiredArgs
           /\ Bookkeeping(call.name, arg)
    /\ program' = Tail(program)
    /\ calls' = calls + 1
    /\ UNCHANGED <<argv, commRank, pc>>

\* Lines 182-202: a required argument not found, or --help anywhere in
\* argv: print the report (lines 204-250, rank 0 only) and throw.
Process ==
    /\ pc = "input"
    /\ program = <<>>
    /\ LET numFailed == Cardinality({i \in DOMAIN requiredArgs : ~requiredArgs[i].found})
           foundHelp == Find(0, "--help") < argc
       IN  pc' = IF numFailed > 0 \/ foundHelp THEN "reported" ELSE "processed"
    /\ UNCHANGED <<argv, program, commRank, usedArgs, requiredArgs,
                   optionalArgs, warnings, consumed, calls>>

Next == MissingValue \/ Input \/ Process

Spec == Init /\ [][Next]_vars

-----------------------------------------------------------------------------
(* Properties.                                                             *)

\* Rank 0 warns of every clash: whenever two Input calls have taken the
\* same argv position, as the option name of one and the name or value of
\* the other, a conflict warning has been written (lines 100-112).
ConflictsWarned ==
    (commRank = 0 /\ \E k \in Positions : Cardinality(consumed[k]) >= 2)
        => \E i \in DOMAIN warnings : warnings[i] = "conflict"

=============================================================================
