------------------------------- MODULE MCHttp -------------------------------
(* HttpProfiles for TLC: the threads run the same code and may be swapped. *)
EXTENDS HttpProfiles, TLC

ThreadSymmetry == Permutations(Threads)
=============================================================================
