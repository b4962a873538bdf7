----------------------------- MODULE MCAddrMan -----------------------------
(* Four hosts, the first with two ports.  The first is announced from two    *)
(* sources and can be in both new buckets; three of them fill the first new  *)
(* bucket, and the first tried bucket of a single entry is shared by three.  *)
EXTENDS AddrMan

MCHost == {"h1", "h2", "h3", "h4"}
MCSvc == {"h1:1", "h1:2", "h2:1", "h3:1", "h4:1"}
MCHostOf == [s \in MCSvc |-> CASE s = "h2:1" -> "h2" [] s = "h3:1" -> "h3"
                               [] s = "h4:1" -> "h4" [] OTHER -> "h1"]
MCSource == {"x", "y"}
MCAnnounced == {<<"h1:1", "x">>, <<"h1:1", "y">>, <<"h1:2", "x">>,
                <<"h2:1", "x">>, <<"h3:1", "x">>, <<"h4:1", "y">>}
MCNewBucketOf == [h \in MCHost |-> [s \in MCSource |-> IF s = "x" THEN 0 ELSE 1]]
MCTriedBucketOf == [s \in MCSvc |-> IF s \in {"h1:2", "h3:1"} THEN "k2" ELSE "k1"]
=============================================================================
