---------------------------- MODULE MCNameCodec -----------------------------
(* The instance of NameCodec for TLC: '1', 'a' and 'b', and 'A'. *)
EXTENDS NameCodec

MCOthers == {65}

MCUnknown == <<Nul>>
=============================================================================
