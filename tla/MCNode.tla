------------------------------- MODULE MCNode --------------------------------
(* A small instance of Node for TLC. *)
EXTENDS Node, TLC
CONSTANTS b1, h1

OneContent == b1 :> <<h1>>
=============================================================================
