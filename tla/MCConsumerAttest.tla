-------------------------- MODULE MCConsumerAttest --------------------------
(***************************************************************************)
(* A small instance of ConsumerAttest for TLC: two applications, one of      *)
(* which has a successor version.                                          *)
(***************************************************************************)
EXTENDS ConsumerAttest, TLC

MCContent == ("f1" :> "editor-1") @@ ("f2" :> "mail-1") @@ ("f3" :> "editor-2")
=============================================================================
