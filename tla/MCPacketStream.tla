--------------------------- MODULE MCPacketStream ---------------------------
(* Instances of PacketStream: every class of packet, then a ping. *)
EXTENDS PacketStream

AllCodes == DOMAIN PacketClass
AnswerCodes == {<<"resp", "hmget">>, <<"resp", "lrem">>, <<"req", "ping">>}
=============================================================================
