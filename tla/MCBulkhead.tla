----------------------------- MODULE MCBulkhead -----------------------------
(* Two kinds: one whose two workers may both hang, and one whose tasks all return *)
(* and whose queue is capped.                                                     *)
EXTENDS Bulkhead, TLC

CONSTANTS chromedp, fetch

MCKinds == <<chromedp, fetch>>
MCWorkers == (chromedp :> 2) @@ (fetch :> 2)
MCCap == (chromedp :> 0) @@ (fetch :> 1)
MCKindOf == (1 :> chromedp) @@ (2 :> chromedp) @@ (3 :> fetch) @@ (4 :> fetch) @@ (5 :> fetch)
=============================================================================
