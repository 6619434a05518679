----------------------------- MODULE MCAutocmd -----------------------------
(* Instances of Autocmd for TLC.                                           *)
EXTENDS Autocmd

CONSTANTS load, download, g1, g2, end, star, both, bad, http

MCEvent == {load, download}
MCName == {g1, g2}
MCEventWord == {load, both, bad}
MCBitsOf == [w \in MCEventWord |-> 
    CASE w = both -> {load, download} [] w = load -> {load} [] w = bad -> {}]
MCPattern == {star, http}
\* The pattern "*" matches everything, another one itself.
MCWildMatch == {star} \X {star, http, NoUri} \cup {<<http, http>>}
=============================================================================
