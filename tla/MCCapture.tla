----------------------------- MODULE MCCapture -----------------------------
EXTENDS Capture

(* Everything there is.                                                    *)
Kinds == [duplicates : BOOLEAN, cursor : BOOLEAN, copyrect : BOOLEAN]
(* Duplication with a painted pointer.                                     *)
Painted == [duplicates : {TRUE}, cursor : {FALSE}, copyrect : {FALSE}]
=============================================================================
