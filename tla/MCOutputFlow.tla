---------------------------- MODULE MCOutputFlow ----------------------------
(***************************************************************************)
(* Small instances of OutputFlow.  With HIGH 1 and LOW 1 two chunks in     *)
(* flight park the reader and none in flight sets it free; a channel of    *)
(* one overflows as soon as the batcher falls behind.                      *)
(***************************************************************************)
EXTENDS OutputFlow
=============================================================================
