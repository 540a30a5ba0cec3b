------------------------------- MODULE MCCodec -------------------------------
EXTENDS Codec

\* One cell, a full chunk, two parts, and three parts with a magic in them.
MCBodies == {<<7>>, <<7, 8>>, <<8, 7, 8>>, <<91, 92, 7, 8, 7>>}
ShortBodies == {<<7>>, <<8, 7, 8>>, <<91, 92, 7>>}

\* Noise shorter and longer than a header, a frame of another version, and the
\* beginning of a frame that was cut off.
MCDirt ==
    {<<7>>, [k \in 1..11 |-> 7], <<91, 92, 2, 0, 1, 2, 0, 0, 0, 8, 7>>,
     <<91, 92, 1, 0, 3, 2, 0>>}
TinyBodies == {<<7>>, <<91, 92, 7>>}
NoDirt == {<<>>}

\* What LosesOnlyAtStart takes for granted, before as many frames as a false frame
\* of these bodies could reach into.
ASSUME MCNoFalseFrame ==
    \A scrap \in Scraps, f, g \in PeerFrames :
        /\ ~FalseFrame(scrap)
        /\ ~FalseFrame(scrap \o f)
        /\ ~FalseFrame(scrap \o f \o g)

=============================================================================
