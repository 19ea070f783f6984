------------------------------- MODULE MCTickets -------------------------------
(* One developer, an agent, and one lead, a user. *)
EXTENDS Tickets, TLC

CONSTANTS dev, lead, c1, c2

MCKeysOf == [p \in Principals |->
  IF p = dev THEN {"start", "fix", "approve", "close", "dispatch"}
  ELSE {"return", "verify", "reject", "delete"}]

AnyCall == Permutations(Calls)
=============================================================================
