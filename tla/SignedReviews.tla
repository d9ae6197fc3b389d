---------------------------- MODULE SignedReviews ----------------------------
(***************************************************************************)
(* The project registry with approvals that travel: the admin looks at a   *)
(* project under review, signs approve_project for it, and the signed      *)
(* transaction may reach the contract at any later time, or never.         *)
(* approve_project names only an id; what ties it to the content the admin *)
(* has seen is the nonce signed with it                                    *)
(* (contracts/project-registry/src/lib.rs).                                *)
(***************************************************************************)
EXTENDS ProjectRegistry, FiniteSets

CONSTANT MaxSigned  \* bound: approvals signed and neither used nor lost

ASSUME SignatureBound == MaxSigned \in Nat

VARIABLE signed  \* the approvals on their way, with what the admin saw when signing

\* The admin's wallet signs for the project as it stands, with the nonce the admin's
\* next call needs; any of the older signatures may be lost.
SignApproval(id) ==
  /\ id \in 1..Len(projects)
  /\ projects[id].status = "Pending"
  /\ \E kept \in SUBSET signed :
       /\ Cardinality(kept) < MaxSigned
       /\ signed' = kept \cup {[admin |-> admin, id |-> id, hash |-> projects[id].hash,
                                nonce |-> call_nonce[admin], handovers |-> admin_nonce[admin]]}
  /\ UNCHANGED registryVars

\* A signature that arrives is a call like any other; its nonce makes it useless
\* afterwards.
SignedNext ==
  \/ Next /\ UNCHANGED signed
  \/ \E id \in 1..Len(projects) : SignApproval(id)

SignedInit == Init /\ signed = {}

SignedSpec == SignedInit /\ [][SignedNext]_<<registryVars, signed>>

\* What approve_project checks when the signature arrives.
Accepted(s) ==
  /\ s.nonce = call_nonce[s.admin]
  /\ require_admin(s.admin)
  /\ projects[s.id].status = "Pending"

\* An approval is for the content the admin saw: as long as the admin has not handed
\* the role over, no signed approval that approve_project would still accept meets
\* other metadata than it was signed for, however often the project was rejected and
\* resubmitted meanwhile.
ApprovalMeetsReviewedContent ==
  \A s \in signed :
    Accepted(s) /\ s.handovers = admin_nonce[s.admin] => projects[s.id].hash = s.hash
=============================================================================
