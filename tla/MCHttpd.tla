------------------------------ MODULE MCHttpd ------------------------------
(***************************************************************************)
(* Instance of Httpd for TLC: one client that may send anything, a second  *)
(* that connects and sends nothing.                                        *)
(***************************************************************************)
EXTENDS Httpd

CONSTANTS c1, c2

\* Requests, things like requests, and beginnings of them.
Sent == {
    <<>>, <<"bad">>, <<"GET">>, <<"GET", "bad">>, <<"GET", "field", "blank">>, <<"GET", "nl">>,
    <<"HEAD", "blank">>, <<"PUT", "minus", "blank">>, <<"GET", "blank", "GET", "blank">>,
    <<"PUT", "field", "blank">>, <<"POST", "huge", "blank">>, <<"POST", "blank", "byte">>,
    <<"POST", "one", "blank">>, <<"POST", "one", "zero", "blank", "byte">>,
    <<"POST", "zero", "one", "blank", "byte">>, <<"POST", "field", "nl", "one", "blank", "byte">>}

MCConns == {c1, c2}
MCScripts == [c \in MCConns |-> IF c = c1 THEN Sent ELSE {<<>>}]
=============================================================================
