------------------------------ MODULE MCUnchain ------------------------------
(* Instance of Unchain for TLC: an http URL with its https variant, a second *)
(* page of the same site, one of another site and one without a host.  There *)
(* are more URLs than MaxHops, so that a chain can run out of hops without a *)
(* loop, and few enough that it can also close one.                          *)
EXTENDS Unchain, TLC

CONSTANTS plain, secure, page, other, nohost

MCUrls == {plain, secure, page, other, nohost}
MCHttps == {secure, page, other}
MCHostless == {nohost}
MCDomain == other :> "other" @@ [u \in MCUrls \ {other} |-> "site"]
MCTwin == plain :> secure
=============================================================================
