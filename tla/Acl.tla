-------------------------------- MODULE Acl ---------------------------------
(***************************************************************************)
(* Access control lists: what a file of rules says of an address or a      *)
(* host.  A host is a sequence of labels; an address is a family and its   *)
(* octets (v4) or segments (v6); a network is a prefix of them.            *)
(***************************************************************************)
EXTENDS Naturals, Sequences, SequencesExt, FiniteSets

CONSTANT LowerCase   \* label -> the label in lower case, for labels that are not

Ip(fam, parts) == [fam |-> fam, parts |-> parts]

Lower(host) == [i \in DOMAIN host |-> IF host[i] \in DOMAIN LowerCase THEN LowerCase[host[i]] ELSE host[i]]

(* A host written with a last dot: it has an empty last label.             *)
TrimDots(host) == IF host # <<>> /\ Last(host) = "" THEN Front(host) ELSE host

----------------------------------------------------------------------------
(* Rules.                                                                  *)

NoRules == [nets |-> {}, regex |-> {}, set |-> {}, tree |-> {}]

(* Mutant: a wider rule does not replace the narrower ones, and a narrower *)
(* one is taken for the wider.                                             *)
InsertNarrower(tree, host) == IF \E t \in tree : IsSuffix(host, t) THEN tree ELSE tree \cup {host}

(* SubDomainsTree::insert: no host below one that is there.                *)
TreeInsert(tree, host) ==
    IF \E t \in tree : IsSuffix(t, host) THEN tree ELSE {t \in tree : ~IsSuffix(host, t)} \cup {host}

TreeContains(tree, host) == \E t \in tree : IsSuffix(t, host)

AddSet(rules, host) == [rules EXCEPT !.set = @ \cup {Lower(TrimDots(host))}]
AddTree(rules, host) == [rules EXCEPT !.tree = TreeInsert(@, Lower(TrimDots(host)))]

(* add_regex_rule: a pattern with a head that asks for whole labels, or    *)
(* for the whole host, becomes a rule of the tree or the set, whatever is  *)
(* its tail.  The others stay patterns.                                    *)
AddRegex(rules, pattern) ==
    CASE pattern.head \in {"(^|.)", ".", "^.*."} -> AddTree(rules, pattern.host)
      [] pattern.head = "^" -> AddSet(rules, pattern.host)
      [] OTHER -> [rules EXCEPT !.regex = @ \cup {[pattern EXCEPT !.host = Lower(@)]}]

(* The regular expressions left: the labels at the end, or anywhere.       *)
RegexMatches(pattern, host) ==
    IF pattern.tail = "$" THEN IsSuffix(pattern.host, host)
    ELSE \E i \in DOMAIN host : IsPrefix(pattern.host, SubSeq(host, i, Len(host)))

InNets(nets, ip) == \E net \in nets : net.fam = ip.fam /\ IsPrefix(net.parts, ip.parts)

ToMapped(ip) == Ip("v6", <<0, 0, 0, 0, 0, 65535, ip.parts[1] * 256 + ip.parts[2], ip.parts[3] * 256 + ip.parts[4]>>)
IsMapped(ip) == ip.fam = "v6" /\ SubSeq(ip.parts, 1, 6) = <<0, 0, 0, 0, 0, 65535>>
Unmapped(ip) == Ip("v4", <<ip.parts[7] \div 256, ip.parts[7] % 256, ip.parts[8] \div 256, ip.parts[8] % 256>>)

(* Mutant: an IPv4 address is not looked up among the IPv6 networks. *)
MatchedAsItIs(rules, ip) == InNets(rules.nets, ip) \/ (IsMapped(ip) /\ InNets(rules.nets, Unmapped(ip)))

CheckIpMatched(rules, ip) ==
    \/ InNets(rules.nets, ip)
    \/ ip.fam = "v4" /\ InNets(rules.nets, ToMapped(ip))
    \/ IsMapped(ip) /\ InNets(rules.nets, Unmapped(ip))

CheckHostMatched(rules, host) ==
    LET h == TrimDots(host)
    IN  h \in rules.set \/ TreeContains(rules.tree, h) \/ \E pattern \in rules.regex : RegexMatches(pattern, h)

IsIpEmpty(rules) == rules.nets = {}
IsHostEmpty(rules) == rules.set = {} /\ rules.tree = {} /\ rules.regex = {}

----------------------------------------------------------------------------
(* The file.                                                               *)

Blank == [mode |-> "BlackList", curr |-> "black", black |-> NoRules, white |-> NoRules, outbound |-> NoRules]

Section(acl, name) ==
    CASE name \in {"reject_all", "bypass_all"} -> [acl EXCEPT !.mode = "WhiteList"]
      [] name \in {"accept_all", "proxy_all"} -> [acl EXCEPT !.mode = "BlackList"]
      [] name = "outbound_block_list" -> [acl EXCEPT !.curr = "outbound"]
      [] name \in {"black_list", "bypass_list"} -> [acl EXCEPT !.curr = "black"]
      [] name \in {"white_list", "proxy_list"} -> [acl EXCEPT !.curr = "white"]

LoadLine(acl, line) ==
    CASE line.kind = "section" -> Section(acl, line.name)
      [] line.kind = "net" -> [acl EXCEPT ![acl.curr].nets = @ \cup {line.net}]
      [] line.kind = "set" -> [acl EXCEPT ![acl.curr] = AddSet(@, line.host)]
      [] line.kind = "tree" -> [acl EXCEPT ![acl.curr] = AddTree(@, line.host)]
      [] line.kind = "regex" -> [acl EXCEPT ![acl.curr] = AddRegex(@, line)]
      [] OTHER -> acl      \* a comment, nothing, or not ASCII

LoadFromFile(lines) == FoldLeft(LoadLine, Blank, lines)

----------------------------------------------------------------------------
(* What the lists say.                                                     *)

IsDefaultInProxyList(acl) == acl.mode = "BlackList"

CheckAsciiHostInProxyList(acl, host) ==
    CASE CheckHostMatched(acl.white, host) -> "proxy"
      [] ~CheckHostMatched(acl.white, host) /\ CheckHostMatched(acl.black, host) -> "bypass"
      [] OTHER -> "none"

CheckIpInProxyList(acl, ip) ==
    IF acl.mode = "BlackList" THEN ~CheckIpMatched(acl.black, ip) ELSE CheckIpMatched(acl.white, ip)

AclIsIpEmpty(acl) == IsIpEmpty(IF acl.mode = "BlackList" THEN acl.black ELSE acl.white)
AclIsHostEmpty(acl) == IsHostEmpty(acl.black) /\ IsHostEmpty(acl.white)

(* Mutant: a host is bypassed only if all its addresses are. *)
AllBypassed(acl, host, ips) ==
    LET listed == CheckAsciiHostInProxyList(acl, Lower(host))
    IN  CASE listed # "none" -> listed = "bypass"
          [] listed = "none" /\ AclIsIpEmpty(acl) -> ~IsDefaultInProxyList(acl)
          [] OTHER -> ips # {} /\ \A ip \in ips : ~CheckIpInProxyList(acl, ip)

(* check_target_bypassed for a host that resolves to ips, none on failure. *)
CheckHostBypassed(acl, host, ips) ==
    LET listed == CheckAsciiHostInProxyList(acl, Lower(host))
    IN  CASE listed # "none" -> listed = "bypass"
          [] listed = "none" /\ AclIsIpEmpty(acl) -> ~IsDefaultInProxyList(acl)
          [] OTHER -> \E ip \in ips : ~CheckIpInProxyList(acl, ip)

CheckClientBlocked(acl, ip) ==
    IF acl.mode = "BlackList" THEN CheckIpMatched(acl.black, ip) ELSE ~CheckIpMatched(acl.white, ip)

CheckOutboundIpBlocked(acl, ip) == CheckIpMatched(acl.outbound, ip)

CheckOutboundHostBlocked(acl, host, ips) ==
    CheckHostMatched(acl.outbound, Lower(host)) \/ \E ip \in ips : CheckIpMatched(acl.outbound, ip)
=============================================================================
