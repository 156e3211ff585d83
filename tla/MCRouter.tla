------------------------------ MODULE MCRouter ------------------------------
(***************************************************************************)
(* An instance of Router: three-bit bytes, v4 addresses of one byte and v6 *)
(* addresses of two, rules that overlap, configurations of every kind that *)
(* start-up tells apart, and geoip files with overlapping, adjacent and    *)
(* repeated blocks.                                                        *)
(***************************************************************************)
EXTENDS Router

CONSTANT Prefixes  \* prefixes a CIDR is written with, when it has one

Dom == [c |-> <<"c">>, xc |-> <<"x", "c">>, x_c |-> <<"x", ".", "c">>,
        y_x_c |-> <<"y", ".", "x", ".", "c">>, yx_c |-> <<"y", "x", ".", "c">>,
        dot_c |-> <<".", "c">>]

MCGeoSiteFile == [g \in {"cn"} |-> [exact |-> {Dom.xc}, suffix |-> {Dom.x_c}]]

Rule == [inbound_tag |-> None, domain_exact |-> {}, domain_suffix |-> {}, geosite |-> {},
         cidrs |-> {}, geoip |-> {}, outbound_tag |-> "direct"]

MCCidrs ==
    {[host |-> <<5>>, v6 |-> FALSE, prefix |-> p] : p \in Prefixes \cup {-1}}
    \cup {[host |-> <<5, 3>>, v6 |-> TRUE, prefix |-> p] : p \in Prefixes \cup {-1}}

MCRules ==
    {[Rule EXCEPT !.domain_suffix = {s}] : s \in {Dom.c, Dom.dot_c, Dom.x_c}}
    \cup {[Rule EXCEPT !.cidrs = {c}] : c \in MCCidrs}
    \cup {Rule,
          [Rule EXCEPT !.inbound_tag = "a"],
          [Rule EXCEPT !.domain_exact = {Dom.xc}, !.geosite = {"cn", "us"}],
          [Rule EXCEPT !.geosite = {"cn"}, !.geoip = {"cn"}],
          [Rule EXCEPT !.inbound_tag = "a", !.domain_suffix = {Dom.c}, !.geoip = {"us"}]}

Out(tag, protocol) == [tag |-> tag, protocol |-> protocol]

Served == [inbounds |-> <<[tag |-> "a", listen |-> "l"]>>,
           outbounds |-> <<Out("direct", "direct"), Out("up", "shine-client")>>,
           rules |-> <<>>, default_outbound |-> "up"]

\* The configurations validate or start-up refuses, beside the ones that serve.
Odd ==
    {[Served EXCEPT !.inbounds = ins] :
        ins \in {<<>>, <<[tag |-> "", listen |-> "l"]>>, <<[tag |-> "a", listen |-> ""]>>,
                 <<[tag |-> "a", listen |-> "l"], [tag |-> "a", listen |-> "l"]>>}}
    \cup {[Served EXCEPT !.outbounds = outs] :
        outs \in {<<>>, <<Out("up", "shine-client")>>, <<Out("direct", "direct")>>,
                  <<Out("direct", "direct"), Out("", "block")>>,
                  <<Out("direct", "direct"), Out("direct", "direct"), Out("up", "block")>>,
                  <<Out("direct", "direct"), Out("up", "ftp")>>}}
    \cup {[Served EXCEPT !.rules = <<[Rule EXCEPT !.outbound_tag = "gone"]>>],
          [Served EXCEPT !.default_outbound = "gone"]}

MCConfigs ==
    Odd \cup {[Served EXCEPT !.rules = <<r, [s EXCEPT !.outbound_tag = "up"]>>,
                             !.default_outbound = d] :
                 r \in MCRules, s \in MCRules, d \in {"", "direct"}}

\* Blocks as files write them, and the ones whose address is the first of its block.
Cidrs == (0..7) \X (0..3)
Blocks == {c \in Cidrs : c[1] % 2^(3 - c[2]) = 0}

MCGeoIpFiles ==
    {<<c>> : c \in Cidrs} \cup {<<c, d>> : c \in Cidrs, d \in Cidrs}
    \cup {<<c, d, e>> : c \in Blocks, d \in Blocks, e \in Blocks}

\* Every configuration with one geoip file, and every file with one configuration.
MCInstalls ==
    [cfg : MCConfigs, file : {<<<<4, 1>>>>}]
    \cup [cfg : {[Served EXCEPT !.rules = <<[Rule EXCEPT !.geoip = {"cn"}]>>]},
          file : MCGeoIpFiles \cup {<<>>}]

MCRequests ==
    [inbound : {"a", "b"}, kind : {"domain"}, addr : {<<>>},
     domain : {Dom.c, Dom.xc, Dom.x_c, Dom.y_x_c, Dom.yx_c}]
    \cup [inbound : {"a"}, kind : {"v4"}, domain : {<<>>}, addr : {<<5>>, <<4>>, <<7>>, <<1>>}]
    \cup [inbound : {"a"}, kind : {"v6"}, domain : {<<>>}, addr : {<<5, 3>>, <<5, 2>>, <<1, 3>>}]
=============================================================================
