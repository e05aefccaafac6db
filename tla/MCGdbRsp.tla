------------------------------ MODULE MCGdbRsp ------------------------------
(* A firmware of three instructions, one breakpoint address, one request of  *)
(* each kind.                                                                *)
EXTENDS GdbRsp

MCRequests ==
  [k : {"query", "c", "s", "reset", "M", "noack", "D", "k"}, a : {0}]
    \cup [k : {"Z", "z", "pc"}, a : {1}]
=============================================================================
