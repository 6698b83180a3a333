--------------------------- MODULE MCLocationTask ---------------------------
EXTENDS LocationTask, TLC
CONSTANTS owner, guest
MCName == {owner, guest}
\* the guest is let in, manages or is denied; the owner manages or only enters
MCSettings ==
  {owner :> "Admin" @@ guest :> "Access", owner :> "Admin" @@ guest :> "Deny",
   owner :> "Access" @@ guest :> "Admin", owner :> "Deny" @@ guest :> "Access"}
=============================================================================
