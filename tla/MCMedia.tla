------------------------------ MODULE MCMedia ------------------------------
EXTENDS Media
\* A small unit and one that is cut, with zeros and ones as an encoder leaves
\* them: no code inside, no zero at the end. VP8 and VP9 cut a frame in three.
Small == <<7, 0, 0, 3>>
Large == <<5, 1, 0, 1, 0, 0, 3, 0, 2, 0, 0, 2, 1>>
MCFrames(codec) == IF codec \in {"VP8", "VP9"} THEN {<<Small>>, <<Large, Large>>}
                   ELSE {<<Small>>, <<Large>>, <<Large, Small>>}
MCMaxPackets(codec) == IF codec \in {"H264", "VP8"} THEN 4 ELSE 3
=============================================================================
