---- MODULE MCFrameThread ----
EXTENDS FrameThread

Codec(update, delay, ask) == [update |-> update, delay |-> delay, ask |-> ask]

\* The workers allocate frames themselves: an inter-frame codec with delay, as
\* the h264 and hevc decoders of the build are, and an intra-only one.
DefaultClient == {Codec(TRUE, TRUE, {}), Codec(FALSE, FALSE, {})}

\* The client has a get_buffer2, a get_format or both of its own, or neither.
AllClients ==
    {Codec(u, u, {"GET_BUFFER", "GET_FORMAT"}) : u \in BOOLEAN}
        \cup {Codec(TRUE, FALSE, {"GET_FORMAT"}), Codec(TRUE, TRUE, {})}

LiveClient == {Codec(FALSE, FALSE, {}), Codec(TRUE, TRUE, {"GET_BUFFER", "GET_FORMAT"})}
====
