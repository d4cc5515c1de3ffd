----------------------------- MODULE MCPlugins -----------------------------
(***************************************************************************)
(* All registries of three plugins with up to two dependencies each, one   *)
(* of which may be on a plugin that is not there.                          *)
(***************************************************************************)
EXTENDS Plugins

CONSTANTS catalog, cart, orders, missing

MCRegistry == <<catalog, cart, orders>>
=============================================================================
