---- MODULE MCByteTransports ----
EXTENDS ByteTransports
CONSTANTS t1, t2, t3

AllLinks == {<<"stream", "stream">>, <<"native", "native">>, <<"wasm", "native">>,
             <<"native", "wasm">>}
====
