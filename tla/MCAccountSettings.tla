-------------------------- MODULE MCAccountSettings --------------------------
(* A player's settings, a few at a time: one rule set or bookmark that the     *)
(* server stores in another form, and an entry of every sort.                  *)
EXTENDS AccountSettings

CONSTANTS t0, t1, tx, e1, ex, en

MCForm == [v \in {t0, t1, tx, e1, ex, en} |->
             CASE v = tx -> t1 [] v = ex -> e1 [] OTHER -> v]
MCGroups == {{"access_message", "access_default"}, {"bookmarks", "avatar"},
             {"public_keys"}, {"calendar_locations"}, {"calendar_id"},
             {"announcements"}, {"banned_peers"}, {"access_online"}}
=============================================================================
