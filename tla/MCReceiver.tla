----------------------------- MODULE MCReceiver -----------------------------
(***************************************************************************)
(* A small instance of Receiver: messages of up to four records and an     *)
(* array that begins with one place, so that it has to grow twice.         *)
(***************************************************************************)
EXTENDS Receiver
=============================================================================
