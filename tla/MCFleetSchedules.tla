-------------------------- MODULE MCFleetSchedules --------------------------
(***************************************************************************)
(* Schedules with overlapping ticks, users and restarts.                   *)
(***************************************************************************)
EXTENDS FleetSchedules, TLC

\* One feature each.
MCFeatureOf == [s \in Schedules |-> s]

\* The tickers do the same.
AnyTicker == Permutations(Tickers)
=============================================================================
