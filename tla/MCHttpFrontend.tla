--------------------------- MODULE MCHttpFrontend ---------------------------
(***************************************************************************)
(* HttpFrontend for TLC: two labels, and the spellings and places of a     *)
(* hostname that route tells apart.                                        *)
(***************************************************************************)
EXTENDS HttpFrontend

CONSTANTS s1, s2

Name(label, spelled, place) ==
    [label |-> label, spelled |-> spelled, place |-> place]

HostHeaders == {Name(s1, {}, "under"),
                Name(s2, {"capitals", "port"}, "under"),
                Name(s1, {"port"}, "deeper"),
                Name(s1, {}, "elsewhere"),
                NoHost}
=============================================================================
