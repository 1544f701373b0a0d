--------------------------- MODULE MCMarshalCodec ---------------------------
(* Objects at the limits of every encoding, for a byte of 16 values. *)
EXTENDS MarshalCodec

Numbers(type, S) == {Object(type, <<n>>, <<>>) : n \in S}
Texts(type, S) == {Object(type, s, <<>>) : s \in S}
Repeat(x, n) == [i \in 1..n |-> x]

SomeTable == <<<<1, 2>>, <<3, 5, 7>>>>

Ints == Numbers("Int", {-32768, -129, -128, -9, -8, -2, -1, 0, 1, 2, 7, 8, 127, 128, 32764, 32767})
Longs == Numbers("Long", {-8388608, -129, -1, 0, 1, 7, 8, 15, 16, 127, 128, 255, 524287, 524288, 8388607})
Leaves == {None} \cup Numbers("Bool", {0, 1}) \cup Numbers("Real", {0, 1, -3})
Strings == Texts("String", {<<>>, <<0>>, <<7>>, <<1, 2>>, <<3, 5, 7>>, <<1, 2, 0, 4>>, <<9, 9>>,
                            <<2, 1, 1>>, Repeat(4, 14), Repeat(4, 15)})
Unicodes == Texts("Unicode", {<<>>, <<0>>, <<200>>, <<3, 4>>, <<3, 0>>, <<3, 255>>, Repeat(5, 15)})
Streams == Texts("SubStream", {<<>>, <<1>>, Repeat(2, 15)})

Long7 == Object("Long", <<200>>, <<>>)
Wide4 == Object("Int", <<32764>>, <<>>)
Text == Object("String", <<9, 9>>, <<>>)
Kids == {<<>>, <<None>>, <<Long7, Text>>, <<Text, None, Long7>>, Repeat(None, 15)}
Flat == {Object(t, <<>>, k) : t \in {"Tuple", "List"}, k \in Kids}
Dicts == {Object("Dict", <<>>, k) : k \in {<<>>, <<Long7, Text>>, <<Wide4, Text>>, <<None, Text, Text, Long7>>}}
Inner == {Object("Tuple", <<>>, <<None>>), Object("List", <<>>, <<Long7>>),
          Object("Dict", <<>>, <<Text, None>>)}
Nests == {Object("Tuple", <<>>, <<d, l>>) : d \in Dicts, l \in {Object("List", <<>>, <<Long7>>)}}
         \cup {Object("Dict", <<>>, <<Object("Tuple", <<>>, <<None>>), Text>>),
               Object("List", <<>>, <<Object("Dict", <<>>, <<Text, None>>), Long7>>)}

SomeObjects == Ints \cup Longs \cup Leaves \cup Strings \cup Unicodes \cup Streams
               \cup {Long7} \cup Flat \cup Dicts \cup Inner \cup Nests
=============================================================================
