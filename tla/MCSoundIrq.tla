----------------------------- MODULE MCSoundIrq -----------------------------
(***************************************************************************)
(* Small instances of SoundIrq for TLC.                                    *)
(***************************************************************************)
EXTENDS SoundIrq
=============================================================================
