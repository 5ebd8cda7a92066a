SPECIFICATION ConfigSpec
CONSTANTS
    Tags = {"vless", "plain", "ss", "own", "api"}
    Excluded = {"own"}
    Protocol <- MCProtocol
    KeyLen <- MCKeyLen
    InboundFlow <- MCInboundFlow
    NoFlow = "none"
    Kinds = {"vless", "shadowsocks", "trojan"}
    ParsedKinds = {"vless"}
    Emails = {e1, e2}
    UserRecords <- MCUserRecords
    None = None
    NoSecret = None
    OutboundTags = {"API", "block", "direct", "proxy"}
    RawConfigs <- MCRawConfigs
INVARIANTS PartialEqualsFull CoreAgrees ApplyAPIIsIdempotent
