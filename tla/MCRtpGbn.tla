------------------------------ MODULE MCRtpGbn ------------------------------
(* RtpGbn for TLC: the chunks of a file are all different, so that a chunk *)
(* written twice or in the wrong place shows.                              *)
EXTENDS RtpGbn

CONSTANTS c1, c2, c3, c4, c5

Payload5 == {c1, c2, c3, c4, c5}
Message3 == <<c1, c2, c3>>
Message4 == <<c1, c2, c3, c4>>
Message5 == <<c1, c2, c3, c4, c5>>
=============================================================================
