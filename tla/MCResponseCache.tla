-------------------------- MODULE MCResponseCache --------------------------
(* Urls and pages for ResponseCache.                                         *)
EXTENDS ResponseCache, TLC

UrlA == <<"/", "a">>
UrlB == <<"/", "b">>
UrlC == <<"/", "c">>
TwoUrls == {UrlA, UrlB}
ThreeUrls == TwoUrls \cup {UrlC}

\* Pages as HTTP responses are, with a blank, which Redis never stores, and a plain one,
\* which it does.
MixedPages ==
  [u \in Urls |-> IF u = UrlA THEN {<<"a", " ", "b">>, <<"a", "b", "c">>} ELSE {u \o <<" ">>}]

\* The format of redisCommand turns "/%%" into the key "/%", which is also what is asked for
\* "/%"; nothing can be stored for that url, whose page no format leaves as it is.
Percent == <<"/", "%">>
PercentTwice == <<"/", "%", "%">>
PercentUrls == {Percent, PercentTwice}
PercentPages ==
  [u \in Urls |-> IF u = PercentTwice THEN {<<" ">>, <<"x">>} ELSE {<<"%", "s">>}]
MCJunk == {<<>>, <<"j">>}

MCSymmetry == Permutations(Readers) \cup Permutations(Objects)
=============================================================================
