----------------------------- MODULE MCConfigFile -----------------------------
(* ConfigFile for TLC. *)
EXTENDS ConfigFile

CONSTANTS c1, c2, boot, nobody, red, blue, bad, none

MCReloaders == {c1, c2}
MCOperators == {c1}
MCContents == {red, blue}
=============================================================================
