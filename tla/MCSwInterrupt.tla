--------------------------- MODULE MCSwInterrupt ---------------------------
(* A small instance of SwInterrupt.                                         *)
EXTENDS SwInterrupt

\* Firmware built with and without -DPRELOAD.
MCBuilds == {TRUE, FALSE}
=============================================================================
