-------------------------- MODULE GovernedRegistry --------------------------
(***************************************************************************)
(* The project registry administered by the governance contract: execute   *)
(* calls target.method(governance, ...args, execution_nonce), and the      *)
(* whole transaction succeeds or fails with that call                      *)
(* (contracts/governance/src/lib.rs execute, project-registry/src/lib.rs). *)
(***************************************************************************)
EXTENDS Integers, Sequences, FiniteSets

CONSTANTS
  Signers, Others, Threshold, TimelockSeconds, CriticalTimelock, EmergencyTimelock,
  Targets, Methods, Args, NoArgs, TrackConfigs, Weights,
  FirstLedger, MaxLedger, MaxProposals, NonceBound,
  Callers, FirstAdmin, Hashes, ZeroHash, DocumentLists, MaxDocuments, MaxProjects, CallBound,
  governance,  \* the governance contract's address, a caller of the registry
  registry,    \* the registry's address, a target of governance
  Keeper,      \* an account that only executes
  Voters,      \* accounts set_voting_power may be called for
  LastCall     \* bound: the last ledger in which anybody but an executor acts

VARIABLES
  ledger, nonce, allow_list, min_track, track_config, power_cp, proposals, vote,
  exec_nonce, paused,
  admin, call_nonce, admin_nonce, projects, owner_projects, documents

Gov == INSTANCE Governance
Reg == INSTANCE ProjectRegistry

registryVars == <<admin, call_nonce, admin_nonce, projects, owner_projects, documents>>
governanceVars == <<ledger, nonce, allow_list, min_track, track_config, power_cp, proposals,
                    vote, exec_nonce, paused>>
vars == <<governanceVars, registryVars>>

Init == Gov!Init /\ Reg!Init

\* The registry's methods that take a caller and a nonce, called by governance; args
\* holds the arguments between them.  Its read-only methods take neither, so governance
\* cannot call them, and a call of anything else traps and takes the whole execution
\* with it.
Invoke(method, args, n) ==
  \/ method = "register_project" /\ Reg!RegisterProject(governance, args.hash, n)
  \/ method = "approve_project" /\ Reg!ApproveProject(governance, args.project, n)
  \/ method = "reject_project" /\ Reg!RejectProject(governance, args.project, n)
  \/ method = "deactivate_project" /\ Reg!DeactivateProject(governance, args.project, n)
  \/ method = "resubmit_project" /\ Reg!ResubmitProject(governance, args.project, args.hash, n)
  \/ method = "add_project_documents"
       /\ Reg!AddProjectDocuments(governance, args.project, args.documents, n)
  \/ method = "set_admin" /\ Reg!SetAdmin(governance, args.admin, n)

ExecuteOnRegistry(caller, p) ==
  /\ Gov!Execute(caller, p)
  /\ Invoke(proposals[p].method, proposals[p].args, exec_nonce[registry])

\* The council's ballots, and the policy calls that decide what may be proposed and
\* when an approval queues it.  The keeper only executes.  The calls left to the run of
\* Governance alone only withdraw a method, fix a track for it, or set the flag of a
\* paused target, which no call reads.
CouncilCall ==
  /\ ledger <= LastCall
  /\ \E caller \in (Signers \cup Others) \ {Keeper} :
       \/ \E m \in Methods : Gov!AddToAllowList(caller, registry, m)
       \/ \E track \in Gov!Tracks, config \in TrackConfigs : Gov!SetTrackConfig(caller, track, config)
       \/ \E voter \in Voters, weight \in Weights : Gov!SetVotingPower(caller, voter, weight)
       \/ Gov!BallotCall(caller)
  /\ UNCHANGED registryVars

DirectCall ==
  /\ ledger <= LastCall
  /\ \E caller \in Callers \ {governance}, n \in 0..CallBound : Reg!Call(caller, n)
  /\ UNCHANGED governanceVars

CloseLedger == Gov!Tick /\ UNCHANGED registryVars

Executed == \E caller \in Signers \cup Others, p \in 1..Len(proposals) : ExecuteOnRegistry(caller, p)

Next == CouncilCall \/ DirectCall \/ CloseLedger \/ Executed

Spec == Init /\ [][Next]_vars

\* Ledgers close, and somebody executes what can be executed: docs/governance.md
\* leaves execution to any account.
FairSpec == /\ Spec
            /\ WF_vars(CloseLedger)
            /\ \A p \in 1..MaxProposals :
                 WF_vars(\E caller \in Signers \cup Others :
                           p \in 1..Len(proposals) /\ ExecuteOnRegistry(caller, p))

-----------------------------------------------------------------------------
(* What must hold *)

Done(p) == p \in 1..Len(proposals) /\ proposals[p].status = "Executed"

\* The status a review gives its project.
Decision(method) ==
  CASE method = "approve_project" -> "Approved"
    [] method = "reject_project" -> "Rejected"
    [] method = "deactivate_project" -> "Inactive"
    [] OTHER -> "none"

\* The accounts that approved proposal p make up the quorum of its track: distinct
\* signers, or voting power at the snapshot where the track has a weight quorum.
HasQuorum(p, approvers) ==
  LET config == track_config[proposals[p].track]
      power == [a \in approvers |-> Gov!get_voting_power_at(a, proposals[p].snapshot)]
  IN  \/ Cardinality(approvers \cap Signers) >= config.threshold
      \/ config.min_approval_weight > 0 /\ Gov!Total(power) >= config.min_approval_weight

\* While governance administers the registry, every decision on a project, to approve,
\* to reject or to deactivate it, is the execution of a queued proposal for that very
\* decision that has served its timelock, and a proposal is queued only by the approval
\* that completes its track's quorum.  No other caller decides, and no reconfiguration
\* queues what was not approved.
DecisionsBackedByProposals ==
  [][/\ \A p \in 1..Len(proposals) :
          proposals[p].status # "Queued" /\ proposals'[p].status = "Queued" =>
            HasQuorum(p, {a \in Signers \cup Others : vote'[p][a] = "true"})
     /\ \A id \in 1..Len(projects) :
          admin = governance /\ projects'[id].status \notin {projects[id].status, "Pending"} =>
            \E p \in 1..Len(proposals) :
              /\ proposals[p].status = "Queued" /\ proposals'[p].status = "Executed"
              /\ ledger >= proposals[p].queued_at + proposals[p].timelock
              /\ proposals[p].args.project = id
              /\ Decision(proposals[p].method) = projects'[id].status]_vars

\* The nonce each method would check if governance called it next.
Expected(method) == IF method = "set_admin" THEN admin_nonce[governance] ELSE call_nonce[governance]

\* The execution nonce governance appends to a queued call is the one the registry
\* expects, so the registry's replay guard never refuses an approved call.
ExecutionNonceAccepted ==
  \A p \in 1..Len(proposals) :
    Gov!Elapsed(p) => exec_nonce[registry] = Expected(proposals[p].method)

Queued(p, method) ==
  /\ p \in 1..Len(proposals)
  /\ proposals[p].status = "Queued"
  /\ proposals[p].method = method

Undecided(id) == id \in 1..Len(projects) /\ projects[id].status = "Pending"

\* An approved review takes effect: a queued approval of a project under review is
\* executed, unless another decision on the project is executed first.
QueuedReviewTakesEffect ==
  \A p \in 1..MaxProposals, id \in 1..MaxProjects :
    Queued(p, "approve_project") /\ proposals[p].args.project = id /\ Undecided(id)
      ~> Done(p) \/ ~Undecided(id)

\* An emergency pause of the registry that the council has approved takes effect.
QueuedPauseTakesEffect ==
  \A p \in 1..MaxProposals : Queued(p, "pause") ~> registry \in paused
=============================================================================
