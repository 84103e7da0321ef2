----------------------------- MODULE MCBotClient -----------------------------
(* BotClient for TLC: every bot, for a few steps.                          *)
EXTENDS BotClient
=============================================================================
