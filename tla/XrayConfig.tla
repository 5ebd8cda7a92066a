----------------------------- MODULE XrayConfig -----------------------------
(***************************************************************************)
(* The configuration of an Xray core: what ApplyAPI makes of the panel's,  *)
(* and how users become accounts of its inbounds. Users reach an inbound   *)
(* on three ways that are written separately: a full sync rebuilds its     *)
(* clients, a batch is split into accounts and removals, and one user is   *)
(* applied inbound by inbound; the core learns of them from the serialised *)
(* configuration or from calls. A step is a whole sync that succeeds; what *)
(* happens to one that fails is in Xray.                                   *)
(***************************************************************************)
EXTENDS Naturals, Sequences, FiniteSets

CONSTANTS
    Tags, Excluded,     \* the inbounds, and those the panel excludes
    Protocol,           \* the protocol of each
    KeyLen,             \* bytes of the key its 2022-blake3 method takes, 0 for others
    InboundFlow,        \* inboundFlow: the flow in its settings, NoFlow for none
    NoFlow,
    Kinds,              \* the protocols with accounts
    ParsedKinds,        \* those whose secret is a UUID
    Emails,
    UserRecords,        \* what the panel may send for a user: inbounds, secrets and flow
    NoSecret,           \* the user has no settings for a protocol
    OutboundTags,       \* the outbounds, "API" among them
    RawConfigs          \* what the panel may send as routing and outbounds

Managed == Tags \ Excluded

(* Routing rules and outbounds. "freedom" stands for every protocol the    *)
(* code treats alike.                                                      *)
Rules == [outbound : OutboundTags, guard : BOOLEAN, private : {"none", "geoip", "cidrs"}]
Outbounds == [tag : OutboundTags, protocol : {"blackhole", "dns", "loopback", "freedom"}]
Routings == [rules : Seq(Rules), selectors : SUBSET OutboundTags, outbounds : Seq(Outbounds)]

ASSUME XrayConfigAssumption ==
    /\ Excluded \subseteq Tags
    /\ Protocol \in [Tags -> Kinds \cup {"dokodemo-door"}]
    /\ KeyLen \in [Tags -> {0, 16, 32}] /\ DOMAIN InboundFlow = Tags
    /\ ParsedKinds \subseteq Kinds
    /\ IsFiniteSet(Tags)
    /\ "API" \in OutboundTags
    /\ RawConfigs \subseteq Routings

VARIABLES
    clients,    \* Inbound.clients: the accounts of each inbound, by email
    core,       \* the accounts the running core has
    latest,     \* what the panel last sent for each user it has not withdrawn
    raw,        \* the routing the panel sent
    routing     \* the routing the core runs with

configVars == <<clients, core, latest, raw, routing>>
-----------------------------------------------------------------------------
(***************************************************************************)
(* Accounts. A secret is text, a malformed text, or the base64 form of a   *)
(* key of some length.                                                     *)
(***************************************************************************)

(* A key that fits the method stays, anything else is hashed into one that *)
(* fits. The mutant hashes whatever it is given.                           *)
EnsureBase64Always(secret, n) == [form |-> "key", len |-> n, of |-> secret]

EnsureBase64Password(secret, n) ==
    IF secret.form = "key" /\ secret.len = n THEN secret
    ELSE [form |-> "key", len |-> n, of |-> secret]

AccountType(tag) == <<Protocol[tag], KeyLen[tag] > 0>>

(* NewVmessAccount to NewHysteriaAccount, of a user who has the protocol.  *)
(* Of VLESS it has the user's flow as well.                                *)
NewAccount(tag, user) ==
    [type |-> AccountType(tag), secret |-> user.proxies[Protocol[tag]],
     flow |-> IF Protocol[tag] = "vless" THEN user.flow ELSE NoFlow]

(* checkShadowsocks2022, for an account of that type only.                 *)
CheckShadowsocks2022(tag, account) ==
    IF KeyLen[tag] = 0 THEN account
    ELSE [account EXCEPT !.secret = EnsureBase64Password(@, KeyLen[tag])]

(* setupUserAccount leaves out an account whose constructor fails.         *)
HasAccount(tag, user) ==
    /\ Protocol[tag] \in Kinds
    /\ user.proxies[Protocol[tag]] # NoSecret
    /\ Protocol[tag] \in ParsedKinds => user.proxies[Protocol[tag]].form # "malformed"

(* isActiveInbound: the flag, and the account that goes with it.           *)
IsActiveInbound(tag, user) == tag \in user.inbounds /\ HasAccount(tag, user)
AccountOf(tag, user) == CheckShadowsocks2022(tag, NewAccount(tag, user))

(* A call gives a VLESS account the flow of the inbound, if it has one.    *)
AccountForAPI(tag, account) ==
    IF account.type[1] = "vless" /\ InboundFlow[tag] # NoFlow
    THEN [account EXCEPT !.flow = InboundFlow[tag]]
    ELSE account
-----------------------------------------------------------------------------
(***************************************************************************)
(* The three ways, on the clients of one inbound. A batch maps the emails  *)
(* of a request to what it says of them.                                   *)
(***************************************************************************)
EmptyMap == [e \in {} |-> e]

(* Inbound.syncUsers starts from an empty map.                             *)
InboundSyncUsers(tag, batch) ==
    [e \in {e \in DOMAIN batch : tag \in batch[e].inbounds /\ HasAccount(tag, batch[e])} |->
        CheckShadowsocks2022(tag, NewAccount(tag, batch[e]))]

(* buildInboundUpdates, for one inbound.                                   *)
BuildInboundUpdate(tag, batch) ==
    LET active == {e \in DOMAIN batch : IsActiveInbound(tag, batch[e])}
    IN  [accounts |-> [e \in active |-> AccountOf(tag, batch[e])],
         removeEmailSet |-> DOMAIN batch \ active]

(* Inbound.updateUsers checks the 2022 accounts once more.                 *)
InboundUpdateUsers(tag, old, update) ==
    [e \in (DOMAIN old \cup DOMAIN update.accounts) \ update.removeEmailSet |->
        IF e \in DOMAIN update.accounts THEN CheckShadowsocks2022(tag, update.accounts[e])
        ELSE old[e]]

(* updateUser or removeUser, whichever SyncUser calls.                     *)
InboundSyncUser(tag, old, e, user) ==
    IF IsActiveInbound(tag, user)
    THEN [f \in DOMAIN old \cup {e} |->
            IF f = e THEN CheckShadowsocks2022(tag, AccountOf(tag, user)) ELSE old[f]]
    ELSE [f \in DOMAIN old \ {e} |-> old[f]]

(* ToBytes writes the clients of the type the inbound takes, a VLESS one   *)
(* with the user's own flow.                                               *)
ConfigToBytes(all) ==
    [tag \in Managed |->
        [e \in {e \in DOMAIN all[tag] : all[tag][e].type = AccountType(tag)} |-> all[tag][e]]]

(* What calls make of the accounts the core has: the batch's removals, and *)
(* a removal before every addition.                                        *)
Called(tag, old, update) ==
    [e \in (DOMAIN old \ update.removeEmailSet) \cup DOMAIN update.accounts |->
        IF e \in DOMAIN update.accounts THEN AccountForAPI(tag, update.accounts[e]) ELSE old[e]]
-----------------------------------------------------------------------------
(***************************************************************************)
(* ApplyAPI on the routing: rules, observatory selectors and outbounds.    *)
(***************************************************************************)
ApiRule == [outbound |-> "API", guard |-> FALSE, private |-> "none"]
GuardRule(tag) == [outbound |-> tag, guard |-> TRUE, private |-> "none"]

(* normalizeGeoIPPrivateRules                                              *)
NormalizeRule(rule) == [rule EXCEPT !.private = IF @ = "geoip" THEN "cidrs" ELSE @]

(* filterRules. The mutant looks at the outbound only.                     *)
KeepsRuleByOutbound(rule) == rule.outbound # "API"
KeepsRule(rule) == rule.outbound # "API" /\ ~rule.guard

(* The loop of filterRules.                                                *)
FilterRules(rules) ==
    LET filtered[i \in 0..Len(rules)] ==
            IF i = 0 THEN <<>>
            ELSE IF KeepsRule(rules[i]) THEN Append(filtered[i-1], rules[i]) ELSE filtered[i-1]
    IN  filtered[Len(rules)]

(* blackholeOutboundTag takes the first; outbounds are in the order of     *)
(* their tags.                                                             *)
IsBlackhole(outbound) == outbound.protocol = "blackhole"
FirstBlackhole(outbounds) ==
    {i \in DOMAIN outbounds : IsBlackhole(outbounds[i]) /\ \A j \in 1..i-1 : ~IsBlackhole(outbounds[j])}

(* shouldIncludeObservatoryOutbound, and what sanitizeObservatorySelectors *)
(* keeps.                                                                  *)
Observed(outbounds, tag) ==
    \A i \in DOMAIN outbounds :
        outbounds[i].tag = tag => outbounds[i].protocol \notin {"blackhole", "dns", "loopback"}

GuardRules(outbounds) ==
    LET holes == FirstBlackhole(outbounds)
    IN  IF holes = {} THEN <<>> ELSE <<GuardRule(outbounds[CHOOSE i \in holes : TRUE].tag)>>

ApplyAPI(r) ==
    LET rules == FilterRules([i \in DOMAIN r.rules |-> NormalizeRule(r.rules[i])])
    IN  [r EXCEPT !.rules = <<ApiRule>> \o GuardRules(r.outbounds) \o rules,
                  !.selectors = {t \in @ : Observed(r.outbounds, t)}]
-----------------------------------------------------------------------------
Full(batch) == [tag \in Tags |-> IF tag \in Excluded THEN EmptyMap ELSE InboundSyncUsers(tag, batch)]
UserBatches == UNION {[E -> UserRecords] : E \in SUBSET Emails}
Overlay(f, g) == [e \in DOMAIN f \cup DOMAIN g |-> IF e \in DOMAIN g THEN g[e] ELSE f[e]]

(* NewConfig and New: the users of the Start request.                      *)
ConfigInit ==
    /\ latest \in UserBatches
    /\ clients = Full(latest)
    /\ core = ConfigToBytes(clients)
    /\ raw \in RawConfigs
    /\ routing = ApplyAPI(raw)

(* Clone, Config.syncUsers and the restart with the candidate.             *)
ConfigSyncUsers(batch) ==
    /\ clients' = [tag \in Tags |-> IF tag \in Excluded THEN clients[tag]
                                    ELSE InboundSyncUsers(tag, batch)]
    /\ core' = ConfigToBytes(clients')
    /\ latest' = batch
    /\ UNCHANGED <<raw, routing>>

(* Config.updateUsers                                                      *)
Updated(batch) ==
    [tag \in Tags |-> IF tag \in Excluded THEN clients[tag]
                      ELSE InboundUpdateUsers(tag, clients[tag], BuildInboundUpdate(tag, batch))]

UpdateUsersAndRestart(batch) ==
    /\ clients' = Updated(batch)
    /\ core' = ConfigToBytes(clients')
    /\ latest' = Overlay(latest, batch)
    /\ UNCHANGED <<raw, routing>>

ConfigUpdateUsers(batch) ==
    /\ clients' = Updated(batch)
    /\ core' = [tag \in Managed |-> Called(tag, core[tag], BuildInboundUpdate(tag, batch))]
    /\ latest' = Overlay(latest, batch)
    /\ UNCHANGED <<raw, routing>>

(* The mutant leaves an inbound alone that the user is not on.             *)
SyncUserActiveOnly(e, user) ==
    LET batch == [f \in {e} |-> user]
        on == {tag \in Managed : IsActiveInbound(tag, user)}
    IN  /\ clients' = [tag \in Tags |-> IF tag \notin on THEN clients[tag]
                            ELSE InboundSyncUser(tag, clients[tag], e, user)]
        /\ core' = [tag \in Managed |-> IF tag \notin on THEN core[tag]
                            ELSE Called(tag, core[tag], BuildInboundUpdate(tag, batch))]
        /\ latest' = Overlay(latest, batch)
        /\ UNCHANGED <<raw, routing>>

ConfigSyncUser(e, user) ==
    LET batch == [f \in {e} |-> user]
    IN  /\ clients' = [tag \in Tags |-> IF tag \in Excluded THEN clients[tag]
                            ELSE InboundSyncUser(tag, clients[tag], e, user)]
        /\ core' = [tag \in Managed |-> Called(tag, core[tag], BuildInboundUpdate(tag, batch))]
        /\ latest' = Overlay(latest, batch)
        /\ UNCHANGED <<raw, routing>>

(* The health goroutine restarts the core.                                 *)
Restart ==
    /\ core' = ConfigToBytes(clients)
    /\ UNCHANGED <<clients, latest, raw, routing>>

ConfigNext ==
    \/ \E batch \in UserBatches : ConfigSyncUsers(batch) \/ ConfigUpdateUsers(batch) \/ UpdateUsersAndRestart(batch)
    \/ \E e \in Emails, user \in UserRecords : ConfigSyncUser(e, user)
    \/ Restart

ConfigSpec == ConfigInit /\ [][ConfigNext]_configVars
-----------------------------------------------------------------------------
(* Whatever mix of full syncs, batches and single users brought the        *)
(* configuration about, it is the one a full sync of everything the panel  *)
(* last said would give. A user has no account on an inbound they left, or *)
(* for which their secret is missing or malformed.                         *)
PartialEqualsFull == clients = Full(latest)

(* The accounts of an inbound are those written for it, up to the flow a   *)
(* call gives.                                                             *)
AgreeUpToFlow(tag, accounts, written) ==
    /\ DOMAIN accounts = DOMAIN written
    /\ \A e \in DOMAIN written : accounts[e] \in {written[e], AccountForAPI(tag, written[e])}

(* The core that was told of the changes by calls has the accounts it      *)
(* would have if it were restarted, for the same users and with the same   *)
(* secrets. A restart changes one thing only: on a VLESS inbound with a    *)
(* flow of its own, a call gave a user that flow, and the bytes give the   *)
(* user's own.                                                             *)
CoreAgrees ==
    \A tag \in Managed : AgreeUpToFlow(tag, core[tag], ConfigToBytes(clients)[tag])

(* The core's own rules come first and once each, though the panel's       *)
(* configuration may hold them from an earlier start: applying ApplyAPI to *)
(* its own result changes nothing.                                         *)
ApplyAPIIsIdempotent == ApplyAPI(routing) = routing
=============================================================================
