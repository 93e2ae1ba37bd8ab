----------------------------- MODULE MCPyBridge -----------------------------
(***************************************************************************)
(* PyBridge for TLC, with sizes of a few bytes as in MCStreamBridge.       *)
(***************************************************************************)
EXTENDS PyBridge

\* A rewritten Host value is longer than the one it replaces.
Target == <<91, 92>>

\* Each event alone, and the visitor's FIN also with the service's or with a dial
\* that fails.
FinAndOne == {{e} : e \in EventNames}
             \cup {{"visitorFin", e} : e \in {"serviceFin", "dialFail"}}
=============================================================================
