----------------------------- MODULE MCServices -----------------------------
(* MdmServices with two threads and every kind of function: cellLocSrvUdp  *)
(* and cellLocConfig are, like smsDelete, one command and its OK.          *)
EXTENDS MdmServices, TLC

Fn(f, a) == [fn |-> f, arg |-> a]
MCCalls == { Fn("smsList", 1), Fn("smsSend", 0), Fn("smsDelete", 1), Fn("smsRead", 1),
             Fn("ussdCommand", 0), Fn("delFile", 0), Fn("writeFile", 3), Fn("readFile", 2),
             Fn("infoFile", 0), Fn("readFileNew", 0), Fn("cellLocSrvTcp", 0),
             Fn("cellLocRequest", 0), Fn("cellLocGetExpRes", 0),
             Fn("cellLocGetData", 0) }

Symmetry == Permutations(Threads)
=============================================================================
