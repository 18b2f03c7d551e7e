----------------------------- MODULE MCDetector -----------------------------
(* Two services with one guarded series each.           *)
EXTENDS Detector

MCWatched  == <<"checkout", "payment">>
MCScraped  == [s \in {"checkout", "payment"} |->
                 IF s = "checkout" THEN {"error"} ELSE {"p95"}]
MCChannels == <<"redis", "webhook">>
=============================================================================
