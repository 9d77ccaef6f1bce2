---------------------------- MODULE DgramChannel ----------------------------
(***************************************************************************)
(* What writeDgram and readDgram promise, with no byte in sight: datagrams *)
(* arrive whole and in order.  A connection that breaks may add one more   *)
(* datagram that nobody sent, and nothing after it.                        *)
(***************************************************************************)
EXTENDS Naturals, Sequences

CONSTANT Dgrams

VARIABLES sent, got,
    broken,      \* the reader was told of an error
    bogus        \* the last datagram of got is one that nobody sent

vars == <<sent, got, broken, bogus>>

Init == sent = <<>> /\ got = <<>> /\ broken = FALSE /\ bogus = FALSE

Send(d) == sent' = Append(sent, d) /\ UNCHANGED <<got, broken, bogus>>

Receive ==
    /\ ~broken /\ Len(got) < Len(sent)
    /\ got' = Append(got, sent[Len(got) + 1])
    /\ UNCHANGED <<sent, broken, bogus>>

Break == broken' = TRUE /\ UNCHANGED <<sent, got, bogus>>

Invent(d) ==
    /\ broken /\ ~bogus
    /\ got' = Append(got, d) /\ bogus' = TRUE
    /\ UNCHANGED <<sent, broken>>

Next == Receive \/ Break \/ \E d \in Dgrams : Send(d) \/ Invent(d)

Spec == Init /\ [][Next]_vars
=============================================================================
