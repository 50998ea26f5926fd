------------------------------ MODULE Consent ------------------------------
(***************************************************************************)
(* What the confirmation of writes promises: "Write operations always      *)
(* require confirmation" (README.md:445), and "'Confirm all' only applies  *)
(* within the same scope" (confirm-bridge.ts:66), the scope being one      *)
(* execution of a script.  A write runs only after the user approved that  *)
(* very write, or while an approval of everything its own script writes    *)
(* stands.                                                                 *)
(***************************************************************************)

CONSTANTS
    Remote,     \* writes asked for by a page through WebMCP
    Local,      \* writes asked for inside the side panel
    Scripts,
    Author      \* the script a local write belongs to, or no script

VARIABLES
    agreed,     \* writes the user approved one by one
    blanket,    \* scripts for which "confirm all" stands
    ran         \* writes that were let through

consentVars == <<agreed, blanket, ran>>

Writes == Remote \cup Local
Of(w) == IF w \in Local THEN {Author[w]} \cap Scripts ELSE {}

Init == agreed = {} /\ blanket = {} /\ ran = {}

\* The user approves a write, and perhaps all that its script will ask for.
\* The asker may be let through in the same moment.
Approve(w) ==
    /\ agreed' = agreed \cup {w}
    /\ blanket' \in {blanket, blanket \cup Of(w)}
    /\ ran' \in {ran, ran \cup {w}}

Run(w) ==
    /\ w \in agreed \/ Of(w) \cap blanket # {}
    /\ ran' = ran \cup {w}
    /\ UNCHANGED <<agreed, blanket>>

Revoke == blanket' = {} /\ UNCHANGED <<agreed, ran>>

Next == (\E w \in Writes : Approve(w) \/ Run(w)) \/ Revoke

Spec == Init /\ [][Next]_consentVars
=============================================================================
