----------------------------- MODULE Admission -----------------------------
(***************************************************************************)
(* What the server promises to a player who wants to enter a location:     *)
(* the request is settled once, by letting the player into the location it *)
(* was for while that location is open, or by refusing it; and it is       *)
(* settled eventually.  Locations open and close for reasons of their own. *)
(***************************************************************************)
CONSTANTS Player,   \* one request each
          Place,    \* the locations there can be
          Unnamed   \* what a request for a new location is for, at first

VARIABLES state,    \* player -> how far its request has come
          goal,     \* player -> the location it is for
          open      \* the locations that let players in

vars == <<state, goal, open>>

Asking == {p \in Player : state[p] = "asking"}

Settled(S, how) == state' = [p \in Player |-> IF p \in S THEN how ELSE state[p]]

Init ==
  /\ state = [p \in Player |-> "idle"]
  /\ goal = [p \in Player |-> Unnamed]
  /\ open = {}

Ask(p) ==
  /\ state[p] = "idle"
  /\ Settled({p}, "asking")
  /\ \E place \in Place \cup {Unnamed} : goal' = [goal EXCEPT ![p] = place]
  /\ UNCHANGED open

\* A new location is given a name, and is then what the request is for.
Name(p, place) ==
  /\ state[p] = "asking"
  /\ goal[p] = Unnamed
  /\ goal' = [goal EXCEPT ![p] = place]
  /\ UNCHANGED <<state, open>>

Open(place) ==
  /\ open' = open \cup {place}
  /\ UNCHANGED <<state, goal>>

Admit(p) ==
  /\ state[p] = "asking"
  /\ goal[p] \in open
  /\ Settled({p}, "inside")
  /\ UNCHANGED <<goal, open>>

Refuse(S) ==
  /\ S # {} /\ S \subseteq Asking
  /\ Settled(S, "refused")
  /\ UNCHANGED <<goal, open>>

\* A location closes, and refuses those who waited for it.
Close(place) ==
  /\ open' = open \ {place}
  /\ \E S \in SUBSET {p \in Asking : goal[p] = place} : Settled(S, "refused")
  /\ UNCHANGED goal

Next ==
  \/ \E p \in Player : Ask(p) \/ Admit(p) \/ \E place \in Place : Name(p, place)
  \/ \E place \in Place : Open(place) \/ Close(place)
  \/ \E S \in SUBSET Player : Refuse(S)

\* Nobody is left waiting: there are finitely many requests, and a time comes
\* when none is open.
Answered == []<>(Asking = {})

Spec == Init /\ [][Next]_vars /\ Answered
=============================================================================
