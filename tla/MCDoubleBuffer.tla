---------------------------- MODULE MCDoubleBuffer ----------------------------
(* One Bluetooth thread and one Y1Bridge thread read while the app flushes. *)
EXTENDS DoubleBuffer, TLC
=============================================================================
