--------------------------- MODULE MCPacketStream ---------------------------
(* Values of the constants of PacketStream for model checking. *)
EXTENDS PacketStream

\* One whose size bytes change when a flag is added, and one with bytes that look
\* like flags.
MCPayloads == {<<3, 0>>, <<1, 2, 0, 3>>}
MCRooms == {1, 3, 4, 8}
=============================================================================
