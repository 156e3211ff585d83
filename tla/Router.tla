------------------------------- MODULE Router -------------------------------
(***************************************************************************)
(* From the configuration to the outbound a request leaves by:             *)
(* Config::validate, the building of the outbounds in main, Router::compile*)
(* and, for each request, dispatch and Router::pick.                       *)
(*                                                                         *)
(* A domain is a sequence over {"."} and letters; an address is a sequence *)
(* of bytes of ByteBits bits, so that v4 and v6 differ in length.  A CIDR  *)
(* is written [host, v6, prefix]; prefix -1 means that none is written.    *)
(* geoip.dat has the IPv4 blocks of one code; GeoIp is its loader.         *)
(***************************************************************************)
EXTENDS Integers, Sequences, FiniteSets

CONSTANTS
    ByteBits, V4Bytes, V6Bytes,  \* 8, 4 and 16 in the code
    PrefixMod,                   \* 256: prefix_len is a u8
    Installs,                    \* [cfg, file]: a configuration as YAML gives it, a geoip.dat
    Requests,                    \* [inbound, kind, domain, addr]
    GeoSiteFile,                 \* code -> [exact, suffix], what geosite.dat holds
    GeoIpCode,                   \* the country code of geoip.dat
    None

VARIABLES
    phase,      \* "start", "load", "exited", "serving"
    cfg,        \* the configuration read
    rules,      \* rules_
    geosite,    \* categories_ of geosite_matcher_, empty when the file did not load
    geoip,      \* categories_ of geoip_matcher_ has GeoIpCode
    file, ranges, merged, next, geo_pc,   \* the load of geoip.dat and the table, in GeoIp
    last        \* the last request dispatched: [req, tag, fate], or None

Elements(s) == {s[i] : i \in 1..Len(s)}

\* 1 << n.
Pow2[n \in Nat] == IF n = 0 THEN 1 ELSE 2 * Pow2[n - 1]

Bytes(v6) == IF v6 THEN V6Bytes ELSE V4Bytes
Bits(v6) == ByteBits * Bytes(v6)
Address(v6) == [1..Bytes(v6) -> 0..(Pow2[ByteBits] - 1)]

ASSUME WidthsAssumption == {ByteBits, V4Bytes, V6Bytes, PrefixMod} \subseteq Nat \ {0}

\* What the YAML loader and asio's address parser give: every rule has its fields,
\* and a written prefix is below PrefixMod (prefix_len wraps, see PrefixLen).
ASSUME InstallsAssumption ==
    \A i \in Installs :
        /\ i.file \in Seq((0..(Pow2[Bits(FALSE)] - 1)) \X (0..Bits(FALSE)))
        /\ i.cfg.rules \in Seq(Elements(i.cfg.rules))
        /\ \A r \in Elements(i.cfg.rules) :
               /\ DOMAIN r = {"inbound_tag", "domain_exact", "domain_suffix", "geosite",
                              "cidrs", "geoip", "outbound_tag"}
               /\ r.domain_suffix \subseteq Seq(STRING)
               /\ \A c \in r.cidrs : /\ c.v6 \in BOOLEAN /\ c.host \in Address(c.v6)
                                    /\ c.prefix \in Int /\ c.prefix < PrefixMod

ASSUME RequestsAssumption ==
    \A q \in Requests :
        /\ q.kind \in {"domain", "v4", "v6"}
        /\ q.kind = "domain" => q.domain \in Seq(STRING)
        /\ q.kind # "domain" => q.addr \in Address(q.kind = "v6")

Geo == INSTANCE GeoIp WITH Width <- Bits(FALSE), pc <- geo_pc,
                           Block <- [p \in 0..Bits(FALSE) |-> Pow2[Bits(FALSE) - p]]

geo == <<file, ranges, merged, next, geo_pc>>
vars == <<phase, cfg, rules, geosite, geoip, last, geo>>

Init ==
    /\ \E i \in Installs : cfg = i.cfg /\ file = i.file
    /\ phase = "start" /\ rules = <<>> /\ geosite = << >> /\ geoip = FALSE /\ last = None
    /\ Geo!Init
-----------------------------------------------------------------------------
(***************************************************************************)
(* Start-up.                                                               *)
(***************************************************************************)
DistinctTags(s) == \A i, j \in 1..Len(s) : s[i].tag = s[j].tag => i = j

validateNoDefault(c) ==
    /\ c.inbounds # <<>> /\ DistinctTags(c.inbounds)
    /\ \A i \in 1..Len(c.inbounds) : c.inbounds[i].tag # "" /\ c.inbounds[i].listen # ""
    /\ DistinctTags(c.outbounds)
    /\ \A i \in 1..Len(c.outbounds) : c.outbounds[i].tag # ""
    /\ \E i \in 1..Len(c.outbounds) : c.outbounds[i].protocol = "direct"
    /\ \A i \in 1..Len(c.rules) : \E o \in Elements(c.outbounds) : o.tag = c.rules[i].outbound_tag

validate(c) ==
    /\ validateNoDefault(c)
    /\ c.default_outbound = "" \/ \E o \in Elements(c.outbounds) : o.tag = c.default_outbound

\* The protocols makeOutbound knows.
Known(o) == o.protocol \in {"direct", "block", "shine-client", "socks5", "http-connect"}

\* prefix_len: the written prefix converted to u8, or the full length.
PrefixLen(c) == IF c.prefix < 0 THEN Bits(c.v6) ELSE c.prefix % PrefixMod

parseCidr(c) == [net |-> c.host, is_v6 |-> c.v6, prefix_len |-> PrefixLen(c)]

CidrOk(c) == PrefixLen(c) <= Bits(c.v6)

CompiledRule(rc) == [rc EXCEPT !.cidrs = {parseCidr(c) : c \in rc.cidrs}]

exits == phase' = "exited" /\ UNCHANGED <<cfg, rules, geosite, geoip, last, geo>>

AllKnown == \A o \in Elements(cfg.outbounds) : Known(o)
CidrsOk == \A i \in 1..Len(cfg.rules) : \A c \in cfg.rules[i].cidrs : CidrOk(c)

\* validate, the outbounds, and the geo files: one that does not load is only logged.
Starts ==
    /\ phase = "start"
    /\ \/ ~(validate(cfg) /\ AllKnown) /\ exits
       \/ /\ validate(cfg) /\ AllKnown /\ phase' = "load"
          /\ geosite' \in {GeoSiteFile, << >>} /\ geoip' \in BOOLEAN
          /\ UNCHANGED <<cfg, rules, last, geo>>

LoadGeoIp ==
    /\ phase = "load" /\ geoip /\ Geo!Next
    /\ UNCHANGED <<phase, cfg, rules, geosite, geoip, last>>

\* The rest of compile.
Compiles ==
    /\ phase = "load" /\ (geoip => geo_pc = "ready")
    /\ \/ ~CidrsOk /\ exits
       \/ /\ CidrsOk
          /\ rules' = [i \in 1..Len(cfg.rules) |-> CompiledRule(cfg.rules[i])]
          /\ phase' = "serving" /\ UNCHANGED <<cfg, geosite, geoip, last, geo>>
-----------------------------------------------------------------------------
(***************************************************************************)
(* Matching.                                                               *)
(***************************************************************************)
EndsWith(d, suf) == Len(suf) <= Len(d) /\ SubSeq(d, Len(d) - Len(suf) + 1, Len(d)) = suf

endsWithSuffixAnywhere(d, suf) == suf # <<>> /\ EndsWith(d, suf)

endsWithSuffix(d, suf) ==
    /\ suf # <<>> /\ EndsWith(d, suf)
    /\ \/ Len(d) = Len(suf)
       \/ Head(suf) = "."
       \/ d[Len(d) - Len(suf)] = "."

\* The loop of GeoSiteMatcher::match: d, then d without its first label, and so on.
WalkFinds(d, suffixes) ==
    LET Walk[i \in 1..(Len(d) + 1)] ==
            \/ SubSeq(d, i, Len(d)) \in suffixes
            \/ LET dots == {k \in i..Len(d) : d[k] = "."}
               IN dots # {} /\ Walk[(CHOOSE k \in dots : \A m \in dots : k <= m) + 1]
    IN Walk[1]

GeoSiteMatch(d, code) ==
    /\ code \in DOMAIN geosite
    /\ d \in geosite[code].exact \/ WalkFinds(d, geosite[code].suffix)

\* The address as a number, first byte first.
toU32(a) ==
    LET N[i \in 0..Len(a)] == IF i = 0 THEN 0 ELSE N[i - 1] * Pow2[ByteBits] + a[i] IN N[Len(a)]

GeoIpMatch(a, v6, code) == geoip /\ code = GeoIpCode /\ ~v6 /\ Geo!match(toU32(a))

bitsEqual(a, b, prefix) ==
    LET full == prefix \div ByteBits
        rem == prefix % ByteBits
        mask == Pow2[ByteBits - rem]
    IN /\ \A i \in 1..full : a[i] = b[i]
       /\ rem = 0 \/ a[full + 1] \div mask = b[full + 1] \div mask

contains(r, addr, v6) == r.is_v6 = v6 /\ bitsEqual(r.net, addr, r.prefix_len)

HasDomains(r) == r.domain_exact # {} \/ r.domain_suffix # {} \/ r.geosite # {}
HasIps(r) == r.cidrs # {} \/ r.geoip # {}

MatchesTarget(r, q) ==
    \/ /\ q.kind = "domain" /\ HasDomains(r)
       /\ \/ q.domain \in r.domain_exact
          \/ \E s \in r.domain_suffix : endsWithSuffix(q.domain, s)
          \/ \E g \in r.geosite : GeoSiteMatch(q.domain, g)
    \/ /\ q.kind # "domain" /\ HasIps(r)
       /\ \/ \E c \in r.cidrs : contains(c, q.addr, q.kind = "v6")
          \/ \E g \in r.geoip : GeoIpMatch(q.addr, q.kind = "v6", g)

matches(r, q) ==
    /\ r.inbound_tag \in {None, q.inbound}
    /\ IF HasDomains(r) \/ HasIps(r) THEN MatchesTarget(r, q) ELSE r.inbound_tag # None

pick(q) ==
    LET hits == {i \in 1..Len(rules) : matches(rules[i], q)}
    IN IF hits = {} THEN cfg.default_outbound
       ELSE rules[CHOOSE i \in hits : \A j \in hits : i <= j].outbound_tag

dispatch(q) ==
    /\ phase = "serving"
    /\ LET tag == pick(q)
       IN last' = [req |-> q, tag |-> tag,
                   fate |-> IF tag = "" THEN "no route"
                            ELSE IF \E o \in Elements(cfg.outbounds) : o.tag = tag
                                 THEN "handled" ELSE "not found"]
    /\ UNCHANGED <<phase, cfg, rules, geosite, geoip, geo>>

Next == Starts \/ LoadGeoIp \/ Compiles \/ \E q \in Requests : dispatch(q)

Spec == Init /\ [][Next]_vars
-----------------------------------------------------------------------------
(***************************************************************************)
(* The reference: what the rules of the configuration mean, without the    *)
(* compiled form, over labels and single bits.                             *)
(***************************************************************************)
\* The domain itself and every parent domain.
LabelTails(d) == {SubSeq(d, i, Len(d)) : i \in {j \in 1..(Len(d) + 1) : j = 1 \/ d[j - 1] = "."}}

UnderSuffix(d, suf) ==
    /\ suf # <<>>
    /\ IF Head(suf) = "." THEN Tail(suf) \in LabelTails(d) \ {d} ELSE suf \in LabelTails(d)

Bit(a, k) == (a[(k - 1) \div ByteBits + 1] \div Pow2[ByteBits - 1 - ((k - 1) % ByteBits)]) % 2

NumBit(n, k) == (n \div Pow2[Bits(FALSE) - k]) % 2

InCidr(c, q) ==
    /\ c.v6 = (q.kind = "v6")
    /\ \A k \in 1..(IF c.prefix < 0 THEN Bits(c.v6) ELSE c.prefix) : Bit(c.host, k) = Bit(q.addr, k)

Covers(rc, q) ==
    /\ rc.inbound_tag \in {None, q.inbound}
    /\ \/ ~HasDomains(rc) /\ ~HasIps(rc) /\ rc.inbound_tag # None
       \/ /\ q.kind = "domain"
          /\ \/ q.domain \in rc.domain_exact
             \/ \E s \in rc.domain_suffix : UnderSuffix(q.domain, s)
             \/ \E g \in rc.geosite \cap DOMAIN geosite :
                    \/ q.domain \in geosite[g].exact
                    \/ LabelTails(q.domain) \cap geosite[g].suffix # {}
       \/ /\ q.kind # "domain"
          /\ \/ \E c \in rc.cidrs : InCidr(c, q)
             \/ /\ geoip /\ GeoIpCode \in rc.geoip /\ q.kind = "v4"
                /\ \E i \in 1..Len(file) : \A k \in 1..file[i][2] :
                       Bit(q.addr, k) = NumBit(file[i][1], k)

(***************************************************************************)
(* The types of the variables; no rule in use has a prefix longer than its *)
(* address, so that bitsEqual reads within the address.                    *)
(***************************************************************************)
TypeOK ==
    /\ phase \in {"start", "load", "exited", "serving"} /\ Geo!TypeOK
    /\ \A i \in 1..Len(rules) : \A c \in rules[i].cidrs : c.prefix_len \in 0..Bits(c.is_v6)
    /\ last = None \/ (last.req \in Requests /\ last.fate \in {"handled", "no route", "not found"})

(***************************************************************************)
(* pick sends a request where the configuration says: to the outbound of   *)
(* the first written rule that covers it, label by label for domains and   *)
(* bit by bit for addresses, and otherwise to the default, whether or not  *)
(* the geo files could be loaded.                                          *)
(***************************************************************************)
RouteExact ==
    last # None =>
        \/ /\ \A i \in 1..Len(cfg.rules) : ~Covers(cfg.rules[i], last.req)
           /\ last.tag = cfg.default_outbound
        \/ \E i \in 1..Len(cfg.rules) :
               /\ Covers(cfg.rules[i], last.req) /\ last.tag = cfg.rules[i].outbound_tag
               /\ \A j \in 1..(i - 1) : ~Covers(cfg.rules[j], last.req)

(***************************************************************************)
(* What validate accepts, dispatch can serve: a request is dropped only    *)
(* when no rule covers it and no default is configured, never because the  *)
(* outbound chosen for it does not exist, and its prefixes fit (TypeOK).   *)
(***************************************************************************)
NoDrop ==
    /\ TypeOK
    /\ last # None /\ last.fate # "handled" =>
        /\ cfg.default_outbound = "" /\ last.fate = "no route"
        /\ \A i \in 1..Len(cfg.rules) : ~Covers(cfg.rules[i], last.req)

\* The table of the loaded geoip.dat, whatever blocks it has: match answers for every
\* address as the blocks do, so sorting and merging lose and add none; and its ranges
\* are in order and none touches the next, at both ends of the address space, so that
\* the search of match may look at one range only.
TableExact == Geo!MatchExact /\ Geo!MergedApart
=============================================================================
