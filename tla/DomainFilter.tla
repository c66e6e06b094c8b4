---------------------------- MODULE DomainFilter ----------------------------
(***************************************************************************)
(* The routing rules (core/src/domain_filter.cpp) and the routes the       *)
(* tunnel takes from them (core/src/tunnel.cpp). The list of exclusions    *)
(* has entries of four ranks: of groups ("" excludes, "!" restores the     *)
(* default) and of the user ("+" excludes, "^" restores the default). The  *)
(* name behind an address is learnt from the first packets of a connection *)
(* and remembered for the connections of the same program to the same      *)
(* address. A name is the sequence of its labels.                          *)
(***************************************************************************)
EXTENDS Naturals, Sequences, FiniteSets

CONSTANTS
    Tags,           \* [host, port, app]: destination and program, the SockAddrTag
    NamesAt,        \* the names of the hosts that are at the address of a tag
    ScannablePorts, \* exclusions_scannable_ports
    Entries,        \* what a list may contain, as written
    MaxEntries,     \* bound: entries of a list
    NoName

VARIABLES
    entries,        \* the tables, of the filter and its three sub-filters
    mode,           \* m_mode
    resolved,       \* m_resolved_tags
    suspects,       \* m_exclusion_suspects: hosts
    flow            \* a connection and what was decided for it

filterVars == <<entries, mode, resolved, suspects, flow>>

NoFlow == [st |-> "none"]

Init ==
    /\ entries = {} /\ mode = "general"
    /\ resolved = [t \in Tags |-> NoName] /\ suspects = {}
    /\ flow = NoFlow

-----------------------------------------------------------------------------
\* The lists. An entry has a list and is a domain ([list, kind, text, wildcard]: "*." was written before
\* text), a set of addresses ([list, kind, hosts, ports]: an address, a range or "*:port") or neither.

IsWww(name) == Len(name) > 1 /\ Head(name) = "www"
WithoutWww(name) == IF IsWww(name) THEN Tail(name) ELSE name

\* parse_entry: "www." is no part of a domain that is matched exactly.
ParseEntry(e) == IF e.kind = "domain" /\ ~e.wildcard THEN [e EXCEPT !.text = WithoutWww(@)] ELSE e

\* update_exclusions: the tables are built anew, a malformed entry is skipped; the names that were learnt
\* are kept. The list differs from the last one in an entry or in the mode: larger changes are several.
UpdateExclusions ==
    /\ \/ /\ \E e \in Entries :
               entries' = entries \cup (IF e.kind = "malformed" THEN {} ELSE {ParseEntry(e)})
          /\ Cardinality(entries') <= MaxEntries /\ UNCHANGED mode
       \/ \E e \in entries : entries' = entries \ {e} /\ UNCHANGED mode
       \/ mode' \in {"general", "selective"} /\ UNCHANGED entries
    /\ suspects' = {}
    /\ UNCHANGED <<resolved, flow>>

-----------------------------------------------------------------------------
\* Matching.

Domains(list) == {e \in entries : e.list = list /\ e.kind = "domain"}

\* matched_domain_length: the labels of the longest domain of the list that matches, 0 if none does. The
\* code looks up the name, without its "www.", and then what is left of it label by label.
MatchedDomainLength(list, name) ==
    LET seek == WithoutWww(name)
        Rest(k) == SubSeq(seek, Len(seek) - k + 1, Len(seek))
        lengths == {k \in 1 .. Len(seek) :
                      \E e \in Domains(list) :
                        /\ e.text = Rest(k)
                        /\ IF e.wildcard THEN k < Len(name)
                           ELSE k = Len(name) \/ (IsWww(name) /\ k + 1 = Len(name))}
    IN  IF lengths = {} THEN 0 ELSE CHOOSE k \in lengths : \A l \in lengths : l <= k

\* match_explicit_domain: of two domains of the user the longer one wins.
MatchExplicitDomain(name) ==
    LET direct == MatchedDomainLength("+", name)
        defaults == MatchedDomainLength("^", name)
    IN  IF direct = 0 /\ defaults = 0 THEN "none"
        ELSE IF defaults >= direct THEN "override" ELSE "exclusion"

MatchDomain(name) ==
    IF MatchExplicitDomain(name) # "none" THEN MatchExplicitDomain(name)
    ELSE IF MatchedDomainLength("!", name) > 0 THEN "override"
    ELSE IF MatchedDomainLength("", name) > 0 THEN "exclusion"
    ELSE "default"

\* match_tag of a sub-filter, which knows no names; the tables of addresses, ranges and ports.
Covered(list, t) ==
    \E e \in entries : e.list = list /\ e.kind = "address" /\ t.host \in e.hosts /\ t.port \in e.ports

\* A slip of it: an address decides although the name is not known.
MatchTag_hasty(t, name) ==
    IF name # NoName /\ MatchExplicitDomain(name) # "none" THEN MatchExplicitDomain(name)
    ELSE IF Covered("^", t) THEN "override"
    ELSE IF ~Covered("+", t) /\ (Covered("!", t) \/ (name # NoName /\ MatchedDomainLength("!", name) > 0))
    THEN "override"
    ELSE IF Covered("+", t) \/ Covered("", t) THEN "exclusion"
    ELSE IF name # NoName THEN MatchDomain(name)
    ELSE IF t.host \in suspects THEN "suspect" ELSE "default"

\* match_tag, name being what is remembered for the tag.
MatchTag(t, name) ==
    LET known == name # NoName
        explicitAddress == Covered("+", t)
        hasDomainOverride == (~explicitAddress /\ Domains("!") # {}) \/ Domains("^") # {}
    IN  IF known /\ MatchExplicitDomain(name) # "none" THEN MatchExplicitDomain(name)
        ELSE IF Covered("^", t) THEN "override"
        ELSE IF ~explicitAddress /\ (Covered("!", t) \/ (known /\ MatchedDomainLength("!", name) > 0))
        THEN "override"
        ELSE IF explicitAddress \/ Covered("", t)
        THEN IF ~known /\ hasDomainOverride THEN "suspect" ELSE "exclusion"
        ELSE IF known THEN MatchDomain(name)
        ELSE IF t.host \in suspects THEN "suspect" ELSE "default"

\* on_dns_response: the addresses of a name that a rule is about become suspects.
DnsResponse(name, host) ==
    /\ MatchDomain(name) \in {"exclusion", "override"}
    /\ suspects' = suspects \cup {host}
    /\ UNCHANGED <<entries, mode, resolved, flow>>

\* An entry of the caches times out or makes room for another.
TagForgotten(t) == /\ resolved[t] # NoName /\ resolved' = [resolved EXCEPT ![t] = NoName]
                   /\ UNCHANGED <<entries, mode, suspects, flow>>
SuspectForgotten(h) == /\ h \in suspects /\ suspects' = suspects \ {h}
                       /\ UNCHANGED <<entries, mode, resolved, flow>>

-----------------------------------------------------------------------------
\* The routes of the tunnel, for a request whose action the application left to the filter.

VpnModeToAction == IF mode = "general" THEN "redirect" ELSE "bypass"
InvertAction(a) == IF a = "redirect" THEN "bypass" ELSE "redirect"
ActionFor(status) == IF status = "exclusion" THEN InvertAction(VpnModeToAction) ELSE VpnModeToAction

\* The connection of tag t to a host whose name is in truth `name` is routed: by: how.
Routed(t, name, by, action) == [st |-> "routed", tag |-> t, name |-> name, by |-> by, action |-> action]

\* finalize_connect_action of a connection to an address. What is not decided is looked up.
ConnectByAddress(t, name) ==
    LET status == MatchTag(t, resolved[t])
        known == resolved[t] # NoName
    IN
    /\ flow' = CASE status \in {"exclusion", "override"} ->
                      Routed(t, name, IF known THEN "memory" ELSE status, ActionFor(status))
                 [] status = "suspect" /\ t.port \notin ScannablePorts ->
                      Routed(t, name, "suspicion", "redirect")
                 [] OTHER -> [st |-> "looking", tag |-> t, name |-> name, suspect |-> status = "suspect"]
    /\ UNCHANGED <<entries, mode, resolved, suspects>>

\* pass_through_domain_lookup: the name is found. A connection that has sent data is closed rather than
\* routed anew.
DomainFound ==
    LET status == MatchTag(flow.tag, flow.name) IN
    /\ flow.st = "looking"
    /\ resolved' = [resolved EXCEPT ![flow.tag] = flow.name]
    /\ flow' \in {Routed(flow.tag, flow.name, "name", ActionFor(status))}
                 \cup (IF status = "default" THEN {} ELSE {NoFlow})
    /\ UNCHANGED <<entries, mode, suspects>>

\* pass_through_domain_lookup gives up: a suspect goes to the endpoint.
DomainNotFound ==
    /\ flow.st = "looking"
    /\ flow' = IF flow.suspect THEN Routed(flow.tag, flow.name, "suspicion", "redirect")
               ELSE Routed(flow.tag, flow.name, "default", VpnModeToAction)
    /\ UNCHANGED <<entries, mode, resolved, suspects>>

\* listener_handler: the name is not in the first packets and a suspect is routed as usual.
LookupExceeded ==
    /\ flow.st = "looking" /\ flow.suspect
    /\ flow' = [flow EXCEPT !.suspect = FALSE]
    /\ UNCHANGED <<entries, mode, resolved, suspects>>

\* finalize_connect_action of a connection to a name. When nothing is said of the name
\* on_destination_resolve_result asks for its address, without a program; on its way to the endpoint it
\* may not be resolved (need_resolve_hostname).
ConnectByName(t, name) ==
    LET status == MatchDomain(name) IN
    /\ t.app = ""
    /\ flow' \in {Routed(t, name, "given", ActionFor(s)) :
                    s \in IF status # "default" THEN {status}
                          ELSE {MatchTag(t, resolved[t])} \cup (IF mode = "general" THEN {status} ELSE {})}
    /\ UNCHANGED <<entries, mode, resolved, suspects>>

Next ==
    \/ UpdateExclusions
    \/ \E t \in Tags : \E name \in NamesAt[t] :
         ConnectByAddress(t, name) \/ ConnectByName(t, name) \/ DnsResponse(name, t.host)
    \/ \E t \in Tags : TagForgotten(t) \/ SuspectForgotten(t.host)
    \/ DomainFound \/ DomainNotFound \/ LookupExceeded

Spec == Init /\ [][Next]_filterVars

-----------------------------------------------------------------------------
\* What the rules mean (core/include/vpn/vpn.h, VpnSettings::exclusions).

\* A domain matches itself and its www-subdomain, with "*." all its subdomains.
Below(name, text) == Len(name) > Len(text) /\ SubSeq(name, Len(name) - Len(text) + 1, Len(name)) = text
Applies(e, t, name) ==
    IF e.kind = "address" THEN t.host \in e.hosts /\ t.port \in e.ports
    ELSE IF e.wildcard THEN Below(name, e.text)
    ELSE name \in {e.text, <<"www">> \o e.text}

\* The domains of the user, the more specific first, then its addresses, then the groups: an exception
\* first.
Rank(e) ==
    CASE e.list \in {"+", "^"} /\ e.kind = "domain" -> 5 + 2 * Len(e.text) + (IF e.list = "^" THEN 1 ELSE 0)
      [] OTHER -> CASE e.list = "^" -> 4 [] e.list = "+" -> 3 [] e.list = "!" -> 2 [] OTHER -> 1

Policy(t, name) ==
    LET applying == {e \in entries : Applies(e, t, name)} IN
    IF applying = {} THEN "default"
    ELSE LET top == CHOOSE e \in applying : \A f \in applying : Rank(f) <= Rank(e)
         IN  IF top.list \in {"", "+"} THEN "exclusion" ELSE "override"

Decided(f) == flow' # flow /\ flow'.st = "routed" /\ flow'.by = f

\* A connection whose name is found, or was remembered rightly, is routed as the entry of the highest rank
\* says; and one that is excluded by its address alone is excluded whatever its name turns out to be:
\* "With an unknown name, a broad IP exclusion must not preempt an explicit VPN domain" (match_tag).
RoutesFollowRules ==
    [][/\ Decided("name") => flow'.action = ActionFor(Policy(flow'.tag, flow'.name))
       /\ Decided("memory") /\ resolved[flow'.tag] = flow'.name =>
            flow'.action = ActionFor(Policy(flow'.tag, flow'.name))
       /\ Decided("exclusion") => Policy(flow'.tag, flow'.name) = "exclusion"]_filterVars

-----------------------------------------------------------------------------
\* What the comments say and the code does not do.

\* "`+entry` (explicit exclusion) and `^entry` (explicit default) outrank all group entries" (vpn.h): a "!"
\* entry of an address is followed at once, and the name never looked up.
UserDomainOutranksGroup ==
    [][Decided("override") /\ ~Covered("^", flow'.tag) =>
            Policy(flow'.tag, flow'.name) = "override"]_filterVars

\* The same of a connection to a name: it is decided by the name before the address is known, and the
\* exclusion of its address is taken for a suspicion when an exception has a domain.
NamedRoutesFollowRules ==
    [][Decided("given") => flow'.action = ActionFor(Policy(flow'.tag, flow'.name))]_filterVars

\* "explicit domain overrides must beat GeoIP" (pass_through_domain_lookup): the name that is remembered
\* for an address is that of the last connection, hosts that share the address are taken for it.
RememberedNameRight ==
    [][Decided("memory") => flow'.action = ActionFor(Policy(flow'.tag, flow'.name))]_filterVars
=============================================================================
