--------------------------- MODULE IptablesRules ----------------------------
(***************************************************************************)
(* The firewall as `host setup` and `host check` read it on Linux          *)
(* (internal/host/linux_steps.go), and as the kernel applies it.           *)
(*                                                                         *)
(* A rule is what the walk tells apart about its text, relative to the     *)
(* service port.  "port": a positive destination port list that holds the  *)
(* port.  "portNarrowed": the same with a match the walk does not look at  *)
(* (conntrack).  "every": no port flag and only tokens iptPortlessToken    *)
(* knows.  "unread": open to the port, with a token it does not know.      *)
(* "nothing": no new connection to the port.  own marks the exact rule     *)
(* setup wrote before it scoped its rules to the tailnet.                  *)
(***************************************************************************)
EXTENDS Integers, Sequences, SequencesExt

Targets == {"ACCEPT", "DROP", "tsInput", "tsInputQualified", "ufw"}
Matches == {"port", "portNarrowed", "every", "unread", "nothing"}
Scopes == {"none", "tailnet", "interface", "address", "loopback", "notInterface"}
Rule == [target : Targets, match : Matches, scope : Scopes, own : BOOLEAN]

Accept(match, scope) == [target |-> "ACCEPT", match |-> match, scope |-> scope, own |-> FALSE]
Drop(match, scope) == [target |-> "DROP", match |-> match, scope |-> scope, own |-> FALSE]
Jump(chain) == [target |-> chain, match |-> "every", scope |-> "none", own |-> FALSE]

iptablesAppend == Accept("port", "tailnet")
iptablesLegacy == [Accept("port", "none") EXCEPT !.own = TRUE]
ufwAllow == Accept("port", "none")

-----------------------------------------------------------------------------
(* One rule, as the walk reads it. *)

iptMatchesPort(r) == r.match \in {"port", "portNarrowed", "every"}
iptPortCovers(r) == r.match \in {"port", "portNarrowed"}

iptUnscoped(r) == r.target = "ACCEPT" /\ iptPortCovers(r) /\ r.scope = "none"
iptAcceptOffTailnet(r) == r.target = "ACCEPT" /\ r.scope \in {"interface", "address"}

\* A rule of the chain that settles the read: an allow, or a deny for all traffic.
Decides(r) ==
    /\ r.scope # "loopback" /\ iptMatchesPort(r)
    /\ r.target = "ACCEPT" \/ (r.target = "DROP" /\ r.scope = "none")

\* The same, where an allow for another interface or for an address does not count.
DecidesTailnet(r) == Decides(r) /\ ~iptAcceptOffTailnet(r)

\* ufw's walk: the same, and a rule for the loopback interface is an allow like another.
ufwDecides(r) ==
    /\ r.match \in {"port", "every"}
    /\ r.target = "ACCEPT" \/ (r.target = "DROP" /\ r.scope = "none")

Answer(rules, i) ==
    CASE i = 0 -> "absent"
      [] i > 0 /\ rules[i].target = "ACCEPT" -> "present"
      [] OTHER -> "blocked"

iptablesDecide(rules) == Answer(rules, SelectInSeq(rules, Decides))
ufwDecide(rules) == Answer(rules, SelectInSeq(rules, ufwDecides))

-----------------------------------------------------------------------------
(* Chains.  chain is what ts-input holds. *)

iptInlineChain(rules, chain) ==
    FlattenSeq([i \in 1 .. Len(rules) |-> IF rules[i].target = "tsInput" THEN chain ELSE <<rules[i]>>])

QualifiedJump(r) == r.target = "tsInputQualified"

iptBeforeQualifiedJump(input) ==
    LET i == SelectInSeq(input, QualifiedJump)
    IN IF i = 0 THEN input ELSE SubSeq(input, 1, i - 1)

\* INPUT with a rule that matches nothing in place of every unscoped allow.
WithoutUnscoped(rules) ==
    [i \in 1 .. Len(rules) |-> IF iptUnscoped(rules[i]) THEN Accept("nothing", "none") ELSE rules[i]]

iptLegacyCopies(input) == Cardinality({i \in 1 .. Len(input) : input[i].own})

\* A failed read: nothing is known, and nothing is counted.
Unread == [state |-> "unknown", copies |-> 0, foreign |-> FALSE, scoped |-> FALSE]

(* readIptables.  chain is ts-input's content where iptables lists it;
   unreached: ts-input exists, and no jump of INPUT shows it (nodivert, nftables mode). *)
readIptables(input, chain, unreached) ==
    LET cut == iptBeforeQualifiedJump(input)
        jump == cut # input
        diverted == \E i \in 1 .. Len(cut) : cut[i].target = "tsInput"
        rules == iptInlineChain(cut, chain)
        rest == iptInlineChain(WithoutUnscoped(cut), chain)
        state == iptablesDecide(rules)
    IN IF state = "absent" /\ (jump \/ (~diverted /\ unreached))
       THEN Unread
       ELSE [state |-> state,
             copies |-> iptLegacyCopies(input),
             foreign |-> \E i \in 1 .. Len(input) : iptUnscoped(input[i]) /\ ~input[i].own,
             scoped |-> state = "present" /\ Answer(rest, SelectInSeq(rest, DecidesTailnet)) = "present"]

-----------------------------------------------------------------------------
(* What the kernel does with the first packet of a connection to the port. *)

Packets == [in : {"tailnet", "other"}, listed : BOOLEAN]  \* listed: its address is in the -s or -d of a rule

Applies(r, p) ==
    /\ r.match \in {"port", "every", "unread"}
    /\ CASE r.scope = "none" -> TRUE
         [] r.scope = "tailnet" -> p.in = "tailnet"
         [] r.scope = "interface" -> p.in = "other"
         [] r.scope = "notInterface" -> p.in # "other"
         [] r.scope = "address" -> p.listed
         [] r.scope = "loopback" -> FALSE

\* The chains a packet meets, in order: ts-input and ufw's rules where INPUT jumps to them.
Traversed(input, chain, ufwRules) ==
    FlattenSeq([i \in 1 .. Len(input) |->
        CASE input[i].target \in {"tsInput", "tsInputQualified"} -> chain
          [] input[i].target = "ufw" -> ufwRules
          [] OTHER -> <<input[i]>>])

\* The target of the first rule that applies; the policy of INPUT when none does.
Verdict(rules, policy, p) ==
    LET i == SelectInSeq(rules, LAMBDA r : Applies(r, p))
    IN IF i = 0 THEN policy ELSE rules[i].target
=============================================================================
