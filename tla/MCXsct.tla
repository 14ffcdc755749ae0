------------------------------- MODULE MCXsct -------------------------------
(***************************************************************************)
(* Instances of Xsct for TLC.                                              *)
(***************************************************************************)
EXTENDS Xsct

\* The thread whose connection and whose statements fail at will.
FirstThread == {1}
=============================================================================
