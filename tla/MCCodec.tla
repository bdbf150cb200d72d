------------------------------- MODULE MCCodec ------------------------------
(* Small instances of Codec for TLC.                                          *)
EXTENDS Codec

S == Basic("s")
U == Basic("u")

\* dbus_variant has no object paths; the variants of other programs may.
DbusVariant == Variant({"s", "u"})
PeerVariant == Variant({"s", "o"})

MCTypes ==
  { S, U, DbusVariant, PeerVariant, Vector(U), Vector(Vector(U)), Map(S, DbusVariant),
    Map(S, U), Vector(PairOf(S, U)) }

\* Containers whose variables may be used again for a later message.
ReusedTypes == { Vector(U), Map(S, U) }
=============================================================================
