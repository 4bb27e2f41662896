----------------------------- MODULE PassArtifact -----------------------------
(***************************************************************************)
(* What the forward pass promises to whoever reads its output: a set of    *)
(* rows that covers the tape up to one id, that only moves from barrier to *)
(* barrier, and of which no row ever changes.  Kills, resumes and the      *)
(* files of an unfinished barrier are invisible.                           *)
(***************************************************************************)
EXTENDS Naturals

VARIABLES
    upto,   \* the last id that the rows cover
    rows    \* the rows of the artifact, records with a field id

Init == upto = 0 /\ rows = {}

\* A barrier covers a longer prefix, by at most one row for every new id.
Extend ==
    /\ upto' > upto
    /\ rows \subseteq rows'
    /\ \A r \in rows' \ rows : r.id \in (upto + 1)..upto'
    /\ \A r, s \in rows' \ rows : r.id = s.id => r = s

Spec == Init /\ [][Extend]_<<upto, rows>>
=============================================================================
