-------------------------- MODULE MCExternalBuffer --------------------------
(* Small instances of ExternalBuffer: bytes say which chunk they come from. *)
EXTENDS ExternalBuffer

MCByte == 0..4
MCLocalHeader == <<1, 1>>
MCFinalHeader == <<2, 2>>
MCDirectory == <<4, 4>>
MCDataChunks == {<<3>>, <<3, 4>>}
=============================================================================
