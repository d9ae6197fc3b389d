--------------------------- MODULE ProjectRegistry ---------------------------
(***************************************************************************)
(* The project registry: owners register projects, the admin reviews them, *)
(* and bonds may be issued only against approved ones                      *)
(* (contracts/project-registry/src/lib.rs).                                *)
(*                                                                         *)
(* Each action is one successful call; n is the nonce the caller passes.   *)
(* Nonces live in two stores: set_admin counts in instance storage, every  *)
(* other call in persistent storage under the same key.                    *)
(*                                                                         *)
(* Operators introduced by "Mutant" are plausible wrong versions of the    *)
(* definition after them; the specification does not use them.             *)
(***************************************************************************)
EXTENDS Integers, Sequences

CONSTANTS
  Callers,        \* accounts that call the registry
  FirstAdmin,     \* constructor argument
  Hashes,         \* metadata hashes callers may pass
  ZeroHash,       \* the hash of all zero bytes
  DocumentLists,  \* lists of document hashes callers may pass
  MaxDocuments,   \* MAX_DOCUMENTS
  MaxProjects,    \* bound: projects registered
  CallBound       \* bound: calls per account and nonce store

ASSUME RegistryInputs == /\ FirstAdmin \in Callers
                         /\ ZeroHash \in Hashes
                         /\ MaxDocuments \in Nat /\ MaxProjects \in Nat /\ CallBound \in Nat

VARIABLES
  admin,           \* Admin
  call_nonce,      \* Nonce(address) in persistent storage
  admin_nonce,     \* Nonce(address) in instance storage
  projects,        \* Project(1..ProjectCount)
  owner_projects,  \* OwnerProjects(owner)
  documents        \* ProjectDocuments(id), the empty list when absent

registryVars == <<admin, call_nonce, admin_nonce, projects, owner_projects, documents>>

Init ==
  /\ admin = FirstAdmin
  /\ call_nonce = [a \in Callers |-> 0]
  /\ admin_nonce = [a \in Callers |-> 0]
  /\ projects = <<>>
  /\ owner_projects = [a \in Callers |-> <<>>]
  /\ documents = <<>>

\* The check every call but set_admin starts with.
consume_nonce(caller, n) ==
  /\ n = call_nonce[caller]
  /\ n < CallBound
  /\ call_nonce' = [call_nonce EXCEPT ![caller] = n + 1]

\* Mutant: lets the owner of a project act as its reviewer.
AdminOrOwner(caller) == caller = admin \/ owner_projects[caller] # <<>>

require_admin(caller) == caller = admin

\* Mutant: files the new project under the count read before it.
RegisterStaleId(caller, hash, n) ==
  /\ consume_nonce(caller, n)
  /\ hash # ZeroHash
  /\ Len(projects) < MaxProjects
  /\ projects' = Append(projects, [owner |-> caller, hash |-> hash, status |-> "Pending"])
  /\ owner_projects' = [owner_projects EXCEPT ![caller] = Append(@, Len(projects))]
  /\ documents' = Append(documents, <<>>)
  /\ UNCHANGED <<admin, admin_nonce>>

RegisterProject(caller, hash, n) ==
  /\ consume_nonce(caller, n)
  /\ hash # ZeroHash
  /\ Len(projects) < MaxProjects
  /\ projects' = Append(projects, [owner |-> caller, hash |-> hash, status |-> "Pending"])
  /\ owner_projects' = [owner_projects EXCEPT ![caller] = Append(@, Len(projects) + 1)]
  /\ documents' = Append(documents, <<>>)
  /\ UNCHANGED <<admin, admin_nonce>>

WithStatus(id, status) == [projects EXCEPT ![id] = [@ EXCEPT !.status = status]]

\* The body approve_project, reject_project and deactivate_project share.
Review(caller, id, n, from, to) ==
  /\ consume_nonce(caller, n)
  /\ require_admin(caller)
  /\ id \in 1..Len(projects)
  /\ projects[id].status = from
  /\ projects' = WithStatus(id, to)
  /\ UNCHANGED <<admin, admin_nonce, owner_projects, documents>>

\* Mutant: rejecting leaves the nonce where it was.
RejectKeepsNonce(caller, id, n) ==
  /\ n = call_nonce[caller]
  /\ require_admin(caller)
  /\ id \in 1..Len(projects)
  /\ projects[id].status = "Pending"
  /\ projects' = WithStatus(id, "Rejected")
  /\ UNCHANGED <<admin, call_nonce, admin_nonce, owner_projects, documents>>

ApproveProject(caller, id, n) == Review(caller, id, n, "Pending", "Approved")
RejectProject(caller, id, n) == Review(caller, id, n, "Pending", "Rejected")
DeactivateProject(caller, id, n) == Review(caller, id, n, "Approved", "Inactive")

ResubmitProject(caller, id, hash, n) ==
  /\ consume_nonce(caller, n)
  /\ id \in 1..Len(projects)
  /\ projects[id].owner = caller
  /\ projects[id].status = "Rejected"
  /\ projects' = [projects EXCEPT ![id] = [@ EXCEPT !.hash = hash, !.status = "Pending"]]
  /\ UNCHANGED <<admin, admin_nonce, owner_projects, documents>>

\* Mutant: does not limit the list.
AddAnyDocuments(caller, id, list, n) ==
  /\ consume_nonce(caller, n)
  /\ id \in 1..Len(projects)
  /\ projects[id].owner = caller \/ require_admin(caller)
  /\ documents' = [documents EXCEPT ![id] = list]
  /\ UNCHANGED <<admin, admin_nonce, projects, owner_projects>>

AddProjectDocuments(caller, id, list, n) ==
  /\ consume_nonce(caller, n)
  /\ Len(list) <= MaxDocuments
  /\ id \in 1..Len(projects)
  /\ projects[id].owner = caller \/ require_admin(caller)
  /\ documents' = [documents EXCEPT ![id] = list]
  /\ UNCHANGED <<admin, admin_nonce, projects, owner_projects>>

SetAdmin(caller, newAdmin, n) ==
  /\ n = admin_nonce[caller]
  /\ n < CallBound
  /\ admin_nonce' = [admin_nonce EXCEPT ![caller] = n + 1]
  /\ require_admin(caller)
  /\ admin' = newAdmin
  /\ UNCHANGED <<call_nonce, projects, owner_projects, documents>>

Call(caller, n) ==
  \/ \E hash \in Hashes : RegisterProject(caller, hash, n)
  \/ \E id \in 1..Len(projects) :
       \/ ApproveProject(caller, id, n)
       \/ RejectProject(caller, id, n)
       \/ DeactivateProject(caller, id, n)
       \/ \E hash \in Hashes : ResubmitProject(caller, id, hash, n)
       \/ \E list \in DocumentLists : AddProjectDocuments(caller, id, list, n)
  \/ \E newAdmin \in Callers : SetAdmin(caller, newAdmin, n)

Next == \E caller \in Callers, n \in 0..CallBound : Call(caller, n)

Spec == Init /\ [][Next]_registryVars

-----------------------------------------------------------------------------
(* What must hold *)

\* Every stored value has its type, and no document list outgrows its limit.
RegistryTypeOK ==
  /\ admin \in Callers
  /\ call_nonce \in [Callers -> Nat] /\ admin_nonce \in [Callers -> Nat]
  /\ projects \in Seq([owner : Callers, hash : Hashes,
                       status : {"Pending", "Approved", "Rejected", "Inactive"}])
  /\ owner_projects \in [Callers -> Seq(Nat)]
  /\ Len(documents) = Len(projects)
  /\ \A id \in 1..Len(documents) : Len(documents[id]) <= MaxDocuments

has_approved_project(id) == id \in 1..Len(projects) /\ projects[id].status = "Approved"

\* Approval is a one-way street: only the admin of the moment gives it, and once it
\* is withdrawn no sequence of calls brings it back.
ApprovalByAdminOnly ==
  [][\A id \in 1..Len(projects) :
       /\ ~has_approved_project(id) /\ has_approved_project(id)' =>
            call_nonce'[admin] > call_nonce[admin] /\ projects[id].status = "Pending"
       /\ projects[id].status = "Inactive" => projects'[id].status = "Inactive"]_registryVars

\* OwnerProjects lists, in order and without omission, exactly the projects each
\* owner registered.
OwnerIndexExact ==
  \A a \in Callers :
    /\ {owner_projects[a][i] : i \in 1..Len(owner_projects[a])} =
         {id \in 1..Len(projects) : projects[id].owner = a}
    /\ \A i, j \in 1..Len(owner_projects[a]) : i < j => owner_projects[a][i] < owner_projects[a][j]
=============================================================================
