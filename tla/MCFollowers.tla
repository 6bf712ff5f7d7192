----------------------------- MODULE MCFollowers -----------------------------
(* Instances of Followers for TLC.                                          *)
EXTENDS Followers
=============================================================================
