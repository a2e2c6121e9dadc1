----------------------------- MODULE MCSnapshot -----------------------------
(* Snapshot with a terminal for each transport and a ladder of one size.   *)
EXTENDS Snapshot

TwoUsers == {<<"p", "udp">>, <<"q", "tcp">>}
OneSize  == <<"64B">>
=============================================================================
