-------------------------------- MODULE Inputs --------------------------------
(***************************************************************************)
(* What main() makes of its command line, hosts file and config file       *)
(* (parser.hpp, hosts.hpp, config.hpp).  Text is a sequence of words, a    *)
(* file a sequence of lines; how characters make up words and numbers is   *)
(* left to NumberOf.  All indices are one larger than in C++.              *)
(***************************************************************************)
EXTENDS Integers, Sequences, SequencesExt

CONSTANTS
  NumberOf,    \* NumberOf[w]: the number the word w stands for; other words stand for none
  ULongLimit,  \* numbers from here on are out of range for std::stoul; 2^64 in the code
  IdLimit      \* the ids that survive the cast to uint8_t are below; 256 in the code

ASSUME InputsAssumption ==
  /\ \A w \in DOMAIN NumberOf : NumberOf[w] \in Int
  /\ ULongLimit \in Nat
  /\ IdLimit \in Nat \ {0}

IsNumber(w) == w \in DOMAIN NumberOf

-----------------------------------------------------------------------------
\* Parser, on argv with the name of the program in front.

\* Digits only, so no sign.
isPositiveNumber(w) == IsNumber(w) /\ NumberOf[w] >= 0

parseID(argv) ==
  /\ Len(argv) >= 3
  /\ argv[2] = "--id"
  /\ isPositiveNumber(argv[3])
  /\ NumberOf[argv[3]] < ULongLimit

parseHostPath(argv) == Len(argv) >= 5 /\ argv[4] = "--hosts"

parseOutputPath(argv) == Len(argv) >= 7 /\ argv[6] = "--output"

parseConfigPath(argv) == Len(argv) >= 8

parseInternal(argv) ==
  /\ parseID(argv)
  /\ parseHostPath(argv)
  /\ parseOutputPath(argv)
  /\ parseConfigPath(argv)

id(argv) == NumberOf[argv[3]]

\* m2.cpp and main.cpp cast the id, m1.cpp does not.
local_id(program, argv) == IF program = "m1" THEN id(argv) ELSE id(argv) % IdLimit

-----------------------------------------------------------------------------
\* Hosts, on the lines of the file.  A blank line is not one of a host.

IsHost(line) ==
  Len(line) >= 3 /\ IsNumber(line[1]) /\ IsNumber(line[3]) /\ NumberOf[line[3]] < 65536

AreHosts(lines) == \A i \in DOMAIN lines : IsHost(lines[i])

\* host_to_address, as the ids it has an address for.
ids(lines) == {NumberOf[lines[i][1]] : i \in DOMAIN lines}

-----------------------------------------------------------------------------
\* The three configurations: >> takes words across lines.

Words(lines) == FlattenSeq(lines)

Reads(lines, n) ==
  /\ Len(Words(lines)) >= n
  /\ \A i \in 1 .. n : IsNumber(Words(lines)[i])

IsConfig(program, lines) ==
  CASE program = "m1" -> Reads(lines, 2) /\ NumberOf[Words(lines)[1]] > 0
    [] program = "m2" -> Reads(lines, 1) /\ NumberOf[Words(lines)[1]] > 0
    [] program = "m3" -> Reads(lines, 3)

message_count(lines) == NumberOf[Words(lines)[1]]
receiver_id(lines) == NumberOf[Words(lines)[2]]

\* The hosts whose addresses main() looks up.
LookedUp(program, argv, lines) ==
  {local_id(program, argv)} \cup (IF program = "m1" THEN {receiver_id(lines)} ELSE {})
=============================================================================
