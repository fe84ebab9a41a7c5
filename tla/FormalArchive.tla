---------------------------- MODULE FormalArchive ----------------------------
(***************************************************************************)
(* What the archive promises about one document, with the stores and the   *)
(* requests left out.  Readers of the formal archive see a document only   *)
(* in phase FORMAL, with the content somebody approved; the content never  *)
(* changes while it is visible and never goes back to an older approval;   *)
(* once a deletion began the document stays hidden until it is gone.       *)
(***************************************************************************)
EXTENDS Naturals

VARIABLES phase, content

Phases == {"DRAFT", "FORMAL", "HIDDEN", "GONE"}

Init == phase = "DRAFT" /\ content = 0

Publish ==
    /\ phase = "DRAFT"
    /\ phase' = "FORMAL"
    /\ content' \in Nat \ {0} /\ content' >= content

Withdraw == phase = "FORMAL" /\ phase' = "DRAFT" /\ content' = content

Hide == phase \in {"DRAFT", "FORMAL"} /\ phase' = "HIDDEN" /\ content' = content

\* An approval of a hidden document changes what is approved, not what is seen.
ApproveHidden ==
    /\ phase = "HIDDEN"
    /\ phase' = phase
    /\ content' \in Nat /\ content' >= content

Remove == phase = "HIDDEN" /\ phase' = "GONE" /\ content' = content

Next == Publish \/ Withdraw \/ Hide \/ ApproveHidden \/ Remove

Spec == Init /\ [][Next]_<<phase, content>>
=============================================================================
