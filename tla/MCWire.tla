------------------------------- MODULE MCWire -------------------------------
(***************************************************************************)
(* The values of the constants of module Wire.                             *)
(***************************************************************************)
EXTENDS Wire

Given(f, t, r, c, fmtps, ptimes, maxptimes) ==
    {[format |-> f, type |-> t, rate |-> r, channels |-> c, fmtp |-> x, ptime |-> p,
      maxptime |-> m] : x \in fmtps, p \in ptimes, m \in maxptimes}

\* A static payload, one that takes a static number for something else, a
\* dynamic one and one with two channels.
AudioGiven ==
    Given(0, "PCMU", 8000, 1, {""}, {-1, 20, 40}, {-1, 60}) \cup
    Given(9, "G722", 16000, 1, {"", "mode"}, {20}, {-1}) \cup
    Given(96, "speex", 16000, 1, {"", "mode"}, {-1, 30}, {-1}) \cup
    Given(97, "opus", 48000, 2, {"", "useinbandfec"}, {-1}, {-1, 40})

VideoGiven ==
    Given(98, "VP8", 90000, 0, {"", "x"}, {-1, 20}, {-1}) \cup
    Given(99, "H264", 90000, 0, {"", "profile"}, {-1}, {-1, 20})

\* Bodies from memory, a file and the application, and of one to three parts.
Part(n, h) == [bytes |-> n, headers |-> h]
Parts == {Part(1, 0), Part(2, 0), Part(3, 2), Part(4, 1)}
SomeBodies ==
    {[kind |-> k, parts |-> <<Part(n, 0)>>] : k \in {"memory", "file", "user"}, n \in 1..5} \cup
    {[kind |-> "multipart", parts |-> p] : p \in UNION {[1..n -> Parts] : n \in 1..3}}

\* Requests and responses with and without a body, a request that announces more than it
\* carries, HTTP responses of each framing, keep-alives, junk, a message that does not parse.
Crlf == Item("crlf", Absent, FALSE, <<>>, 0)
ChunkedResponse == Item("http", Absent, TRUE, <<2, 1>>, 0)
AnyItem ==
    {Sip("request", 0), Sip("request", 2), Sip("response", 0), Sip("response", 1),
     Item("request", 3, TRUE, <<>>, 2), Item("http", 2, TRUE, <<>>, 2),
     Item("http", 1, FALSE, <<>>, 1), Item("http", Absent, TRUE, <<-1>>, 0), ChunkedResponse,
     Crlf, Item("junk", Absent, FALSE, <<>>, 0), Item("unparsable", Absent, FALSE, <<>>, 0)}
SomeItems == {Sip("request", 1), Sip("response", 0), ChunkedResponse, Crlf}
SomeStreams == {<<>>} \cup [1..1 -> AnyItem] \cup [1..2 -> AnyItem] \cup [1..3 -> SomeItems]

\* Which memory a channel has makes no difference.
ChanSymmetry == Permutations(Chans)
=============================================================================
