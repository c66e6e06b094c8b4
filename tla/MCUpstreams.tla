----------------------------- MODULE MCUpstreams -----------------------------
(* Constants of the model-checked instances of Upstreams.                       *)
EXTENDS Upstreams, TLC

CONSTANTS c1, c2, c3

\* Two connections of one address pair, one after the other, beside a third.
Addresses == c1 :> "A" @@ c2 :> "A" @@ c3 :> "B"

\* A name and two below it, one of them a www-subdomain, behind one address; one program uses a port
\* whose first packets are trusted to tell the name, the other one where they are not.
Web == [host |-> "h", port |-> 443, app |-> ""]
Mail == [host |-> "h", port |-> 25, app |-> "x"]
WebAndMail == {Web, Mail}
HostNames == Web :> {<<"a", "com">>, <<"s", "a", "com">>, <<"www", "s", "a", "com">>}
             @@ Mail :> {<<"s", "a", "com">>}

\* In each of the four lists "*.a.com", "www.s.a.com" and the address; and an entry that is malformed.
Lists == {"", "!", "+", "^"}
ListEntries ==
    {[list |-> l, kind |-> "domain", text |-> <<"a", "com">>, wildcard |-> TRUE] : l \in Lists}
    \cup {[list |-> l, kind |-> "domain", text |-> <<"www", "s", "a", "com">>, wildcard |-> FALSE] : l \in Lists}
    \cup {[list |-> l, kind |-> "address", hosts |-> {"h"}, ports |-> {25, 443}] : l \in Lists}
    \cup {[list |-> "!", kind |-> "malformed"]}
=============================================================================
