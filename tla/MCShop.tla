------------------------------- MODULE MCShop -------------------------------
(***************************************************************************)
(* A shop of three services for the checks of the root cause analysis:     *)
(* checkout calls payment and inventory, payment calls inventory.  The     *)
(* patterns are three of the catalog's kinds: one that blames the service  *)
(* that logs, one with a shared root, one that a change event selects.     *)
(***************************************************************************)
EXTENDS Integers, Sequences

MCDependsOn == [checkout |-> <<"payment", "inventory">>,
                payment |-> <<"inventory">>, inventory |-> <<>>]

MCCanonical(name) == IF name = "checkout-service" THEN "checkout" ELSE name

Pattern(id, priority, phrases, changes, force, prefer, shared, base, actions) ==
  [id |-> id, priority |-> priority, phrases |-> phrases, changes |-> changes,
   force |-> force, prefer_logs |-> prefer, shared |-> shared, base |-> base,
   actions |-> actions]

MCPatterns ==
  <<Pattern("db_pool", 100, {"pool"}, {}, "nowhere", TRUE, FALSE, 68,
            <<{"fix"}, {"reset"}>>),
    Pattern("cache_miss", 90, {"cache"}, {}, "nowhere", TRUE, TRUE, 60,
            <<{"check"}>>),
    Pattern("bad_deploy", 70, {}, {"deploy"}, "nowhere", FALSE, FALSE, 58,
            <<{"rollback"}>>)>>

Row(words, error, label, trace, change) ==
  [words |-> words, error |-> error, label |-> label, neighbor |-> "nowhere",
   mentions |-> "nowhere", trace |-> trace, change |-> change]

Quiet   == [err |-> -1, lat |-> -1]
Healthy == [err |-> 1, lat |-> 1]

NoRows   == [s \in DOMAIN MCDependsOn |-> <<>>]
FineDay  == [rates |-> [s \in DOMAIN MCDependsOn |-> Healthy],
             logs |-> NoRows, traces |-> NoRows, down |-> {}, garbled |-> {}]

SlowTrace == [id |-> "t1", root |-> "checkout", ms |-> 900,
              spans |-> {[id |-> 1, parent |-> 0, service |-> "checkout",
                          ms |-> 900, error |-> TRUE],
                         [id |-> 2, parent |-> 1, service |-> "payment",
                          ms |-> 700, error |-> TRUE]}]
=============================================================================
