------------------------- MODULE MCOutgoingRequests -------------------------
(* An instance of OutgoingRequests for TLC.  The key query and the room     *)
(* message are refused for ever: the query passes, the message blocks.      *)
EXTENDS OutgoingRequests, Sequences

MCKindOf == <<"KeysUpload", "KeysQuery", "KeysClaim", "RoomMessage", "ToDevice">>
=============================================================================
