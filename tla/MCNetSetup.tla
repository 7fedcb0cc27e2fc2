---- MODULE MCNetSetup ----
(* Addresses of two characters, one of them the beginning of another. *)
EXTENDS NetSetup
MCChars == {"a", "b"}
MCAddresses == {<<"a", "b">>, <<"a">>}
MCFactory == <<"a">>
MCLeases == {<<"a", "b">>}
====
