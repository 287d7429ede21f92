-------------------------- MODULE MCOfficeInstance --------------------------
(***************************************************************************)
(* Two clients on threads of their own.                                    *)
(***************************************************************************)
EXTENDS OfficeInstance
=============================================================================
