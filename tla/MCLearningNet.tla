--------------------------- MODULE MCLearningNet ---------------------------
(* Two switches in a line, as s1 and s2 of 3sw_topo.py, with two hosts at    *)
(* one and one at the other, and a third switch elsewhere that says hello.   *)
EXTENDS LearningNet

CONSTANTS a, b, c, s1, s2, s3

MCHost == {a, b, c}
MCSwitch == {s1, s2, s3}
MCPort == 0 .. 2
MCAt == [h \in MCHost |-> CASE h = a -> <<s2, 0>> [] h = b -> <<s2, 1>> [] h = c -> <<s1, 0>>]
MCLinks == {<<s1, 1, s2, 2>>, <<s2, 2, s1, 1>>}
MCToward == [s \in MCSwitch |-> [h \in MCHost |->
                IF MCAt[h][1] = s THEN MCAt[h][2] ELSE IF s = s2 THEN 2 ELSE 1]]

MCTraffic == {<<a, BROADCAST>>, <<b, c>>, <<a, b>>}

\* Frames reach a switch without a program; a hello comes when others learned.
MCStarts == {<<"learningswitch", {s1, s3}>>, <<"centralized", {s1, s2}>>}
=============================================================================
