------------------------------ MODULE MCWinShm ------------------------------
(* An instance of WinShm for TLC: both profiles, with and without timeouts. *)
(* Two calls are enough for an event, a waiting flag or a message of the    *)
(* first to be met by the second.                                           *)
EXTENDS WinShm
=============================================================================
