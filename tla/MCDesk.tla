------------------------------- MODULE MCDesk -------------------------------
(***************************************************************************)
(* A small instance of Desk: two users, one of whom may hold the role that *)
(* makes him an operator.                                                  *)
(***************************************************************************)
EXTENDS Desk, TLC

MCUsers   == {"ann", "bob"}
MCHolders == {"bob"}
MCGrants  == {"write"}
=============================================================================
