----------------------------- MODULE MCImageShow -----------------------------
(* ImageShow with a still picture without a delay and one with a delay, an   *)
(* animation, one of three frames of which the second has no delay, a        *)
(* damaged animation that cannot be decoded and a file that is no picture,   *)
(* or with some of them.                                                     *)
EXTENDS ImageShow

CONSTANTS still, single, short, long, corrupt, text

MCFrames == [f \in Readable |->
                IF f = long THEN 3 ELSE IF f \in {short, corrupt} THEN 2 ELSE 1]

MCDelayed ==
    {frame \in [file: Readable \ {still}, n: 0..2] :
        frame.n < MCFrames[frame.file] /\ frame # [file |-> long, n |-> 1]}

=============================================================================
