--------------------------- MODULE SerializationMC ---------------------------
EXTENDS Serialization

Scalar(k, n) == [kind |-> k, of |-> <<>>, n |-> n]
Container(k, ts, n) == [kind |-> k, of |-> ts, n |-> n]

bool == Scalar("bool", 0)
uint8 == Scalar("uint", 1)
int16 == Scalar("int", 2)
string == Scalar("string", 0)
bools == Container("vector", <<bool>>, 0)

MCTypes ==
    {bool, uint8, int16, string, Container("tuple", <<>>, 0), bools,
     Container("tuple", <<bool, string>>, 0),
     Container("vector", <<bools>>, 0),
     Container("array", <<uint8>>, 2),
     Container("set", <<uint8>>, 0),
     Container("map", <<bool, uint8>>, 0)}

MCForeign == SeqOf(Byte, 4)

==============================================================================
