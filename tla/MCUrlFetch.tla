------------------------------ MODULE MCUrlFetch ------------------------------
(* Instances of UrlFetch: a public and a private host and address, NAT64   *)
(* addresses that embed one of each, and every kind of Location.           *)
EXTENDS UrlFetch

CONSTANTS pub, priv, mcast, nat_pub, nat_priv, www, intern

MCNat64     == [a \in {nat_pub, nat_priv} |-> IF a = nat_pub THEN pub ELSE priv]
MCAnswers   == {<< >>, <<pub>>, <<pub, priv>>, <<nat_pub, mcast>>, <<nat_priv>>, <<nat_pub, pub>>}
Url(s, h)   == [scheme |-> s, host |-> h, user |-> FALSE]
MCRequested == {Url("http", www), Url("https", pub), Url("http", intern), Url("other", www),
                Url("http", NoHost), [Url("https", www) EXCEPT !.user = TRUE], Url("http", priv)}
MCLocations == {Relative, Url("https", www), [Url("http", www) EXCEPT !.user = TRUE],
                Url("http", priv), Url("http", nat_priv), Url("http", pub), Url("https", intern),
                Url("other", www), Url("https", NoHost)}
=============================================================================
