------------------------------ MODULE MC_MpiArgs ------------------------------
(* The command-line reader instantiated for TLC: two options, a value and   *)
(* --help, in every order up to four arguments.                             *)
EXTENDS MpiArgs

MCTokens == {"-a", "-b", "1", "--help"}

MCArgvs == UNION {[1 .. k -> MCTokens] : k \in 0 .. 4}

\* Up to three Input calls: -a required, -b optional.
MCCalls == {[name |-> "-a", required |-> TRUE], [name |-> "-b", required |-> FALSE]}
MCPrograms == UNION {[1 .. k -> MCCalls] : k \in 0 .. 3}
====
