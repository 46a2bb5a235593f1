---------------------------- MODULE MCPreparation ----------------------------
(***************************************************************************)
(* The pull request of a bot, for TLC: its revisions and deliveries are    *)
(* model values.                                                           *)
(***************************************************************************)
EXTENDS Preparation
=============================================================================
