---------------------------- MODULE MCWhereabouts ---------------------------
EXTENDS Whereabouts, TLC
CONSTANTS ann, bob
MCHome == <<"here", "org">>
MCAway == <<"there", "example", "org">>
\* bob is a player of both servers
MCPeople == {Remote(MCHome, bob), Remote(MCAway, bob)}
\* nobody is called ann there
bobThere == Remote(MCAway, bob)
MCPlans ==
  {[kind |-> "Online", about |-> <<bobThere, Local(ann), bobThere>>],
   [kind |-> "Online", about |-> <<Remote(MCHome, bob), Local(ann), Remote(MCAway, ann)>>],
   [kind |-> "Activity", about |-> <<bobThere, bobThere, bobThere>>]}
\* Away, the first is about ann of Away and about Home until time 1; at Home it
\* is about ann. The second is about nobody but those of the domain.
MCSettings ==
  {Setting("Deny", <<PlayerRule(Local(ann), << >>, "Location"), ServerRule(MCHome, <<1>>, "OnlineOnly")>>),
   Setting("OnlineOnly", <<DomainRule(<<"example", "org">>, << >>, "Deny"), LocalRule(<<1>>, "Location")>>)}
MCServerSettings == {Setting("Allow", << >>), Setting("Deny", <<DomainRule(<<"org">>, <<1>>, "Allow")>>)}
=============================================================================
