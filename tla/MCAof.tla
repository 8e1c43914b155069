------------------------------- MODULE MCAof -------------------------------
(***************************************************************************)
(* A small instance of Aof: two clients that push, pop, select and run     *)
(* transactions.                                                           *)
(***************************************************************************)
EXTENDS Aof, TLC

Op(o) == [op |-> o]

AllCmds == {Op("push"), Op("bpop"), Op("multi"), Op("exec"), Select(1)}

ClientSymmetry == Permutations(Clients)
=============================================================================
