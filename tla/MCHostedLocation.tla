-------------------------- MODULE MCHostedLocation ---------------------------
EXTENDS HostedLocation, TLC
CONSTANTS ann, bob
\* everybody may enter, or one manages while the other is denied
MCRules == {ann :> "Access" @@ bob :> "Access", ann :> "Admin" @@ bob :> "Deny"}
\* one of a kind: the guests send all the other requests
MCSendable ==
  [kind : {"Publish", "Quit", "Broadcast"}] \cup [kind : {"Kick", "Drop", "Tell"}, target : {bob}]
  \cup [kind : {"AccessSet"}, rules : {ann :> "Admin" @@ bob :> "Deny"}]
=============================================================================
