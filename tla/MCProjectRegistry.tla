-------------------------- MODULE MCProjectRegistry --------------------------
(* The registry with its admin and one owner, who may also become the admin. *)
EXTENDS SignedReviews, TLC

CONSTANTS deployer, owner

\* One document, and one too many.
SomeLists == {<<"d1">>, <<"d1", "d2">>}
=============================================================================
