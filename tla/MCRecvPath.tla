----------------------------- MODULE MCRecvPath -----------------------------
(***************************************************************************)
(* The receive path on small instances. Bytes have few values, so that the  *)
(* 32 bit sum of parse_grpc_message wraps at Base^4; the wires below are    *)
(* chosen for what their payloads look like when read as headers.           *)
(***************************************************************************)
EXTENDS RecvPath

CONSTANTS s1, s2

Framed(flag, data) == <<flag>> \o BigEndian(Len(data)) \o data

\* An empty message; two empty messages; a short payload; payloads that read
\* as a header of their own; a length that makes the sum wrap around.
DetailWires == {
    Framed(0, <<>>) \o Framed(1, <<>>),
    Framed(0, <<1, 2>>),
    Framed(1, <<>>) \o Framed(0, <<2>>) \o Framed(0, <<>>),
    Framed(0, <<1, 0, 0, 0, 0>>),
    Framed(0, <<0, 0, 0, 0, 1, 2>>),
    <<0>> \o BigEndian(Word - 2) \o <<1, 1>> }

\* A second stream of the session: one short message.
MCWires == [s \in Streams |-> IF s = s1 THEN DetailWires ELSE {Framed(0, <<1>>)}]
=============================================================================
