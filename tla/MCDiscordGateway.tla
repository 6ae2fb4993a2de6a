-------------------------- MODULE MCDiscordGateway ----------------------------
(***************************************************************************)
(* Instances of DiscordGateway for TLC: the Bot.run loop and one worker.   *)
(***************************************************************************)
EXTENDS DiscordGateway

MCProcs == {"loop", "worker"}

\* Queries that need an intent the bot has, or one it has not.
MCRequests == {{"members"}, {"presences"}}
=============================================================================
