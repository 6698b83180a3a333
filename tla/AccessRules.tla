----------------------------- MODULE AccessRules ----------------------------
(***************************************************************************)
(* core/src/access.rs and core/src/player.rs: who a player is, seen from a *)
(* server, and what an access setting makes of him.  A player is called by *)
(* his bare name on his own server and by name and server elsewhere; the   *)
(* rules of a setting are written in either form.  A server's name is the  *)
(* sequence of the labels of its domain name.                              *)
(***************************************************************************)
EXTENDS Integers, Sequences, SequencesExt

\* PlayerIdentifier
Local(player) == [form |-> "Local", player |-> player]
Remote(server, player) == [form |-> "Remote", server |-> server, player |-> player]

ServerOf(id, local) == IF id.form = "Local" THEN local ELSE id.server

Globalize(id, local) == Remote(ServerOf(id, local), id.player)

Localize(id, local) ==
  IF id.form = "Remote" /\ id.server = local THEN Local(id.player) ELSE id

\* AccessControl: a rule ends at a moment, or has none (`until' is empty).
PlayerRule(id, until, access) == [kind |-> "Player", who |-> id, until |-> until, access |-> access]
ServerRule(server, until, access) == [kind |-> "Server", who |-> server, until |-> until, access |-> access]
DomainRule(domain, until, access) == [kind |-> "Domain", who |-> domain, until |-> until, access |-> access]
LocalRule(until, access) == [kind |-> "Local", until |-> until, access |-> access]

\* AccessSetting
Setting(default, rules) == [default |-> default, rules |-> rules]

HasDomainSuffix(domain, server) == domain # << >> /\ IsSuffix(domain, server)

TimeOk(until, now) == \A i \in DOMAIN until : until[i] > now

Matches(rule, user, local, now) ==
  /\ TimeOk(rule.until, now)
  /\ \/ rule.kind = "Player" /\ Globalize(rule.who, local) = user
     \/ rule.kind = "Server" /\ rule.who = user.server
     \/ rule.kind = "Domain" /\ HasDomainSuffix(rule.who, user.server)
     \/ rule.kind = "Local" /\ user.server = local

\* The first rule that is about the player decides.
Check(setting, player, local, now) ==
  LET about == {i \in DOMAIN setting.rules :
                  Matches(setting.rules[i], Globalize(player, local), local, now)}
  IN IF about = {} THEN setting.default
     ELSE setting.rules[CHOOSE i \in about : \A j \in about : i <= j].access
=============================================================================
