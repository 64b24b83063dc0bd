------------------------ MODULE MCSingleEntryCommands ------------------------
(* A small root for TLC: a folder, and two files that may follow each      *)
(* other over one path.                                                    *)
EXTENDS SingleEntryCommands

CONSTANTS f, g, d, P, Q, R, b1, b2, u

RootAbove == [p \in Paths |-> IF p = R THEN {P} ELSE {}]
RootHomes == [i \in Items |-> CASE i = d -> {P} [] i = f -> {Q, R} [] i = g -> {Q}]

(* Three disturbances in all: any two of one sort with one of another.     *)
Budget == edits + changes + failures + crashes <= 3
OneSize   == [b \in Blobs |-> 1]
=============================================================================
