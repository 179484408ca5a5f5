---------------------------- MODULE MCEventsAdmin ----------------------------
(***************************************************************************)
(* Small instances of EventsAdmin: two days; one has an event, for which   *)
(* the form can publish another, the other gets its first.                 *)
(***************************************************************************)
EXTENDS EventsAdmin

CONSTANTS oldies, karaoke, quiz

Friday == 5
Saturday == 6
Weekend == {Friday, Saturday}
Nights == (oldies :> Friday) @@ (karaoke :> Friday) @@ (quiz :> Saturday)

=============================================================================
