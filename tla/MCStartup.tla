------------------------------- MODULE MCStartup -------------------------------
(* An instance of Startup for TLC: two processes and the builds that may meet. *)
EXTENDS Startup

file(number, name, body) == [number |-> number, name |-> name, body |-> body]
A == file(1, "a", "tables")
B == file(2, "b", "columns")
C == file(3, "c", "index")

MCBuilds == {{A, B},                             \* the older build
             {A, B, C},                          \* the newer one
             {A, file(2, "b", "edited"), C},     \* a fragment edited after the fact
             {A, file(2, "bee", "columns")},     \* ... or renamed
             {A, file(2, "b", "broken")},
             {A, C}}                             \* a gap
MCBroken == {"broken"}
=============================================================================
