---------------------------- MODULE MCXrayConfig ----------------------------
(* Model-checking instance of XrayConfig: VLESS with and without a flow of *)
(* the inbound's own, a protocol whose passwords become keys, and inbounds *)
(* that take no users.                                                     *)
EXTENDS XrayConfig
CONSTANT None

MCProtocol ==
    [t \in Tags |-> CASE t \in {"vless", "plain"} -> "vless" [] t = "ss" -> "shadowsocks"
                      [] t = "own" -> "trojan" [] OTHER -> "dokodemo-door"]
MCKeyLen == [t \in Tags |-> IF t = "ss" THEN 32 ELSE 0]
MCInboundFlow == [t \in Tags |-> IF t = "vless" THEN "vision" ELSE "none"]

Text(x) == [form |-> "text", len |-> 0, of |-> x]
Malformed == [form |-> "malformed", len |-> 0, of |-> "m"]
Key(n) == [form |-> "key", len |-> n, of |-> "k"]
User(inbounds, id, password, flow) ==
    [inbounds |-> inbounds, flow |-> flow,
     proxies |-> [vless |-> id, shadowsocks |-> password, trojan |-> Text("t")]]
MCUserRecords ==
    {User({"vless", "ss", "own", "plain"}, Text("a"), Key(32), "none"),
     User({"vless", "ss"}, Text("b"), Key(16), "vision"),
     User({"ss", "api", "plain"}, Text("a"), Text("p"), "vision"),
     User({"vless", "ss"}, Malformed, None, "none"),
     User({"vless"}, None, Text("p"), "none")}

Rule(out, guard, private) == [outbound |-> out, guard |-> guard, private |-> private]
Out(tag, protocol) == [tag |-> tag, protocol |-> protocol]
MCRawConfigs ==
    [rules : {<<>>, <<Rule("direct", FALSE, "geoip"), Rule("API", FALSE, "none")>>,
              <<Rule("block", TRUE, "none"), Rule("block", FALSE, "cidrs")>>},
     selectors : {{}, {"block", "direct", "proxy"}},
     outbounds : {<<>>, <<Out("block", "blackhole"), Out("direct", "freedom")>>}]
=============================================================================
