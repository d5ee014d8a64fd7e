---------------------------- MODULE ConnEventMC ----------------------------
(***************************************************************************)
(* Scripts for the connection model: the client's requests, well-formed or *)
(* not.                                                                    *)
(***************************************************************************)
EXTENDS ConnEvent

AllGood == <<TRUE, TRUE, TRUE>>
OneBad == <<TRUE, TRUE, FALSE, TRUE>>

=============================================================================
