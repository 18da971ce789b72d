---------------------------- MODULE MCBackground ----------------------------
(* Model values for TLC's runs of the plugin's background work.            *)
EXTENDS BackgroundProperties
CONSTANTS h1, r1

OneHost == {h1}
OneReason == {r1}
=============================================================================
