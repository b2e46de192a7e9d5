------------------------------ MODULE MCBrowser ------------------------------
(* One allowed site for TLC: a page of it, one that is too long, and one elsewhere,
   to which a redirect or a script may lead. *)
EXTENDS BrowserRunner

Url(host) == [scheme |-> "https", host |-> host]
MCConfig == [allowlist |-> {<<"", "site">>}, timeout |-> 2, maxDomBytes |-> 1]
Page == [url |-> Url(<<"site">>), html |-> "short"]
Long == [Page EXCEPT !.html = "long"]
Elsewhere == [url |-> Url(<<"else">>), html |-> "short"]
MCPages == {Page, Long, Elsewhere}
MCSize ==
    [b \in Snapshots \cup {Empty, Text} |->
       IF b = Empty THEN 0 ELSE IF b # Text /\ b.html = "long" THEN 2 ELSE 1]

Good ==
    [url |-> Url(<<"site">>), timeout |-> 2, schema |-> "snapshot", wait |-> "load",
     selector |-> None, output |-> None]
MCRequests ==
    {Good, [Good EXCEPT !.wait = "selector", !.selector = "img", !.url.host = <<"art", "site">>],
     [Good EXCEPT !.url.host = <<"else">>]}
=============================================================================
