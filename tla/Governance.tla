----------------------------- MODULE Governance -----------------------------
(***************************************************************************)
(* The governance contract: a council of signers, and accounts with        *)
(* snapshotted voting power, approve or veto proposals on three tracks; an *)
(* approved proposal waits for its timelock and is then executed by        *)
(* anybody (contracts/governance/src/lib.rs).                              *)
(*                                                                         *)
(* Each action is one successful contract call.  The call of the target    *)
(* contract inside execute is left to the modules that compose this one    *)
(* with a target.                                                          *)
(*                                                                         *)
(* Operators introduced by "Mutant" are plausible wrong versions of the    *)
(* definition after them; the specification does not use them.             *)
(***************************************************************************)
EXTENDS Integers, Sequences, FiniteSets, Units

CONSTANTS
  Signers,           \* the council, fixed by the constructor
  Others,            \* other accounts: weighted voters, executors
  Threshold,         \* constructor argument
  TimelockSeconds,   \* constructor argument
  CriticalTimelock,  \* CRITICAL_TIMELOCK_SECONDS
  EmergencyTimelock, \* EMERGENCY_TIMELOCK_SECONDS
  Targets,           \* contracts governance may call
  Methods,           \* method names callers may pass
  Args,              \* arguments of a proposed call
  NoArgs,            \* the empty argument list
  TrackConfigs,      \* configurations set_track_config may be called with
  Weights,           \* voting power set_voting_power may be called with
  FirstLedger,       \* the ledger of the constructor
  MaxLedger,         \* bound: the last ledger the model reaches
  MaxProposals,      \* bound: proposals made
  NonceBound         \* bound: signed calls per account

ASSUME CouncilAssumption == /\ IsFiniteSet(Signers) /\ IsFiniteSet(Others)
                            /\ Signers \cap Others = {}
                            /\ Threshold \in 1..Cardinality(Signers)
ASSUME TimelockAssumption == /\ TimelockSeconds \in Nat
                             /\ CriticalTimelock \in Nat
                             /\ EmergencyTimelock \in Nat
ASSUME LedgerAssumption == FirstLedger \in Nat \ {0} /\ MaxLedger \in Nat /\ MaxProposals \in Nat

Tracks == {"Routine", "Critical", "Emergency"}
TrackConfig == [timelock : Nat, threshold : Nat, min_approval_weight : Nat]
Accounts == Signers \cup Others

ASSUME GovernanceInputs == /\ Weights \subseteq Nat
                           /\ TrackConfigs \subseteq TrackConfig
                           /\ NoArgs \in Args
                           /\ "pause" \in Methods

VARIABLES
  ledger,        \* ledger sequence number, also the ledger timestamp
  nonce,         \* Nonce(address)
  allow_list,    \* the <<target, method>> pairs with AllowList set
  min_track,     \* MethodMinTrack(target, method), "none" when not stored
  track_config,  \* TrackConfig(track)
  power_cp,      \* Checkpoint(voter, 0..count-1)
  proposals,     \* Proposal(1..ProposalCount)
  vote,          \* Vote(proposal, voter): "none" when absent, else "true" or "false"
  exec_nonce,    \* ExecutionNonce(target)
  paused         \* targets with Paused set

policyVars == <<allow_list, min_track, track_config, power_cp>>
ballotVars == <<proposals, vote>>
vars == <<ledger, nonce, policyVars, ballotVars, exec_nonce, paused>>

-----------------------------------------------------------------------------
(* Tracks *)

is_emergency_method(method) ==
  method \in {"pause", "emergency_pause", "unpause", "emergency_stop", "freeze"}

is_critical_method(method) ==
  method \in {"set_admin", "upgrade", "update_admin", "set_track_config", "allow_method",
              "allow_method_with_track", "remove_from_allow_list", "disallow_method",
              "set_signers", "set_threshold", "set_method_min_track", "set_risk_parameters",
              "set_oracle_threshold", "set_deviation_cap", "set_staleness_threshold",
              "register_credit_type", "set_dispute_bond"}

get_method_min_track(target, method) ==
  IF min_track[target, method] # "none" THEN min_track[target, method]
  ELSE IF is_critical_method(method) THEN "Critical"
  ELSE IF is_emergency_method(method) THEN "Emergency"
  ELSE "Routine"

\* The three track rules of propose_with_track.
FitsTrack(target, method, track) ==
  LET least == get_method_min_track(target, method)
  IN  /\ track = "Emergency" => is_emergency_method(method) \/ least = "Emergency"
      /\ least = "Critical" => track = "Critical"
      /\ least = "Emergency" => track = "Emergency"

LargerOf(a, b) == IF a > b THEN a ELSE b

\* __constructor: the standard threshold, one more, and everybody.
DefaultTracks ==
  [track \in Tracks |->
     CASE track = "Routine" ->
            [timelock |-> TimelockSeconds, threshold |-> Threshold, min_approval_weight |-> 0]
       [] track = "Critical" ->
            [timelock |-> LargerOf((3 * TimelockSeconds) \div 2, CriticalTimelock),
             threshold |-> IF Threshold < Cardinality(Signers) THEN Threshold + 1 ELSE Threshold,
             min_approval_weight |-> 0]
       [] track = "Emergency" ->
            [timelock |-> EmergencyTimelock, threshold |-> Cardinality(Signers),
             min_approval_weight |-> 0]]

Init ==
  /\ ledger = FirstLedger
  /\ nonce = [a \in Accounts |-> 0]
  /\ allow_list = {}
  /\ min_track = [c \in Targets \X Methods |-> "none"]
  /\ track_config = DefaultTracks
  /\ power_cp = [a \in Accounts |-> <<>>]
  /\ proposals = <<>>
  /\ vote = <<>>
  /\ exec_nonce = [t \in Targets |-> 0]
  /\ paused = {}

check_nonce(a) ==
  /\ nonce[a] < NonceBound[a]
  /\ nonce' = [nonce EXCEPT ![a] = @ + 1]

-----------------------------------------------------------------------------
(* Policy calls: any one signer *)

AddToAllowList(caller, target, method) ==
  /\ check_nonce(caller)
  /\ caller \in Signers
  /\ allow_list' = allow_list \cup {<<target, method>>}
  /\ UNCHANGED <<ledger, min_track, track_config, power_cp, ballotVars, exec_nonce, paused>>

RemoveFromAllowList(caller, target, method) ==
  /\ check_nonce(caller)
  /\ caller \in Signers
  /\ allow_list' = allow_list \ {<<target, method>>}
  /\ UNCHANGED <<ledger, min_track, track_config, power_cp, ballotVars, exec_nonce, paused>>

AllowMethodWithTrack(caller, target, method, track) ==
  /\ check_nonce(caller)
  /\ caller \in Signers
  /\ allow_list' = allow_list \cup {<<target, method>>}
  /\ min_track' = [min_track EXCEPT ![target, method] = track]
  /\ UNCHANGED <<ledger, track_config, power_cp, ballotVars, exec_nonce, paused>>

SetMethodMinTrack(caller, target, method, track) ==
  /\ check_nonce(caller)
  /\ caller \in Signers
  /\ min_track' = [min_track EXCEPT ![target, method] = track]
  /\ UNCHANGED <<ledger, allow_list, track_config, power_cp, ballotVars, exec_nonce, paused>>

SetTrackConfig(caller, track, config) ==
  /\ check_nonce(caller)
  /\ caller \in Signers
  /\ track_config' = [track_config EXCEPT ![track] = config]
  /\ UNCHANGED <<ledger, allow_list, min_track, power_cp, ballotVars, exec_nonce, paused>>

SetPaused(caller, target, isPaused) ==
  /\ check_nonce(caller)
  /\ caller \in Signers
  /\ paused' = IF isPaused THEN paused \cup {target} ELSE paused \ {target}
  /\ UNCHANGED <<ledger, policyVars, ballotVars, exec_nonce>>

-----------------------------------------------------------------------------
(* Voting power: a checkpoint per change, one per ledger *)

\* Mutant: a change overwrites the last checkpoint whatever its ledger.
RecordOver(cps, weight) ==
  IF cps = <<>> THEN <<[ledger_sequence |-> ledger, vote_weight |-> weight]>>
  ELSE [cps EXCEPT ![Len(cps)] = [@ EXCEPT !.vote_weight = weight]]

record_voting_checkpoint(cps, weight) ==
  IF cps # <<>> /\ cps[Len(cps)].ledger_sequence = ledger
  THEN [cps EXCEPT ![Len(cps)] = [@ EXCEPT !.vote_weight = weight]]
  ELSE Append(cps, [ledger_sequence |-> ledger, vote_weight |-> weight])

\* What the binary search returns: the last checkpoint at or before the sequence.
get_voting_power_at(a, sequence) ==
  LET cps == power_cp[a]
      low == CHOOSE n \in 0..Len(cps) : /\ \A j \in 1..n : cps[j].ledger_sequence <= sequence
                                        /\ \A j \in (n + 1)..Len(cps) : cps[j].ledger_sequence > sequence
  IN  IF low = 0 THEN 0 ELSE cps[low].vote_weight

SetVotingPower(caller, voter, weight) ==
  /\ check_nonce(caller)
  /\ caller \in Signers
  /\ power_cp' = [power_cp EXCEPT ![voter] = record_voting_checkpoint(@, weight)]
  /\ UNCHANGED <<ledger, allow_list, min_track, track_config, ballotVars, exec_nonce, paused>>

-----------------------------------------------------------------------------
(* Proposals *)

\* Mutant: takes the snapshot in the ledger of the proposal itself.
SnapshotNow == ledger

\* The snapshot is strictly before the proposal (saturating at zero).
SnapshotSequence == IF ledger = 0 THEN 0 ELSE ledger - 1

NewProposal(caller, target, method, args, track) ==
  [proposer |-> caller, target |-> target, method |-> method, args |-> args,
   status |-> "Pending", approval_count |-> 0, veto_count |-> 0,
   queued_at |-> 0, executed_at |-> 0,
   timelock |-> track_config[track].timelock, track |-> track,
   snapshot |-> SnapshotSequence, approval_weight |-> 0, veto_weight |-> 0]

AddProposal(proposal) ==
  /\ Len(proposals) < MaxProposals
  /\ proposals' = Append(proposals, proposal)
  /\ vote' = Append(vote, [a \in Accounts |-> "none"])

\* propose_with_track; propose is the same call on the Routine track.
ProposeWithTrack(caller, target, method, args, track) ==
  /\ check_nonce(caller)
  /\ caller \in Signers
  /\ <<target, method>> \in allow_list
  /\ FitsTrack(target, method, track)
  /\ AddProposal(NewProposal(caller, target, method, args, track))
  /\ UNCHANGED <<ledger, policyVars, exec_nonce, paused>>

\* propose_emergency_pause: allows the pause method itself, and has no arguments.
ProposeEmergencyPause(caller, target) ==
  /\ check_nonce(caller)
  /\ caller \in Signers
  /\ allow_list' = allow_list \cup {<<target, "pause">>}
  /\ AddProposal(NewProposal(caller, target, "pause", NoArgs, "Emergency"))
  /\ UNCHANGED <<ledger, min_track, track_config, power_cp, exec_nonce, paused>>

-----------------------------------------------------------------------------
(* Votes and execution *)

\* Mutant: an approval is not remembered.
MayVoteAgain(caller, p) ==
  /\ p \in 1..Len(proposals)
  /\ proposals[p].status = "Pending"
  /\ caller \in Signers \/ get_voting_power_at(caller, proposals[p].snapshot) > 0

\* The checks vote_approve and vote_veto share.  An absent vote and a stored
\* "false" both read as not voted.
MayVote(caller, p) ==
  /\ p \in 1..Len(proposals)
  /\ proposals[p].status = "Pending"
  /\ caller \in Signers \/ get_voting_power_at(caller, proposals[p].snapshot) > 0
  /\ vote[p][caller] # "true"

\* Mutant: meets a weight quorum that is switched off.
QuorumWithoutWeight(count, weight, config) ==
  count >= config.threshold \/ weight >= config.min_approval_weight

Quorum(count, weight, config) ==
  \/ count >= config.threshold
  \/ config.min_approval_weight > 0 /\ weight >= config.min_approval_weight

VoteApprove(caller, p) ==
  /\ check_nonce(caller)
  /\ MayVote(caller, p)
  /\ vote' = [vote EXCEPT ![p][caller] = "true"]
  /\ LET proposal == proposals[p]
         count == proposal.approval_count + (IF caller \in Signers THEN 1 ELSE 0)
         weight == proposal.approval_weight + get_voting_power_at(caller, proposal.snapshot)
         queued == Quorum(count, weight, track_config[proposal.track])
     IN  proposals' = [proposals EXCEPT ![p] =
           [@ EXCEPT !.approval_count = count, !.approval_weight = weight,
                     !.status = IF queued THEN "Queued" ELSE @,
                     !.queued_at = IF queued THEN ledger ELSE @]]
  /\ UNCHANGED <<ledger, policyVars, exec_nonce, paused>>

VoteVeto(caller, p) ==
  /\ check_nonce(caller)
  /\ MayVote(caller, p)
  /\ vote' = [vote EXCEPT ![p][caller] = "false"]
  /\ LET proposal == proposals[p]
         count == proposal.veto_count + (IF caller \in Signers THEN 1 ELSE 0)
         weight == proposal.veto_weight + get_voting_power_at(caller, proposal.snapshot)
         rejected == Quorum(count, weight, track_config[proposal.track])
     IN  proposals' = [proposals EXCEPT ![p] =
           [@ EXCEPT !.veto_count = count, !.veto_weight = weight,
                     !.status = IF rejected THEN "Rejected" ELSE @]]
  /\ UNCHANGED <<ledger, policyVars, exec_nonce, paused>>

\* Mutant: also withdraws a proposal that is already queued.
CancelQueued(caller, p) ==
  /\ check_nonce(caller)
  /\ caller \in Signers
  /\ p \in 1..Len(proposals)
  /\ proposals[p].status \in {"Pending", "Queued"}
  /\ proposals' = [proposals EXCEPT ![p] = [@ EXCEPT !.status = "Cancelled"]]
  /\ UNCHANGED <<ledger, policyVars, vote, exec_nonce, paused>>

Cancel(caller, p) ==
  /\ check_nonce(caller)
  /\ caller \in Signers
  /\ p \in 1..Len(proposals)
  /\ proposals[p].status = "Pending"
  /\ proposals' = [proposals EXCEPT ![p] = [@ EXCEPT !.status = "Cancelled"]]
  /\ UNCHANGED <<ledger, policyVars, vote, exec_nonce, paused>>

\* Mutant: executes again what was executed.
ElapsedAgain(p) ==
  /\ p \in 1..Len(proposals)
  /\ proposals[p].status \in {"Queued", "Executed"}
  /\ ledger >= proposals[p].queued_at + proposals[p].timelock

\* Mutant: executable only in the ledger the timelock ends.
ElapsedExactly(p) ==
  /\ p \in 1..Len(proposals)
  /\ proposals[p].status = "Queued"
  /\ ledger = proposals[p].queued_at + proposals[p].timelock

\* Queued and past its timelock.
Elapsed(p) ==
  /\ p \in 1..Len(proposals)
  /\ proposals[p].status = "Queued"
  /\ ledger >= proposals[p].queued_at + proposals[p].timelock

\* Mutant: does not count the execution.
ExecuteUncounted(caller, p) ==
  /\ check_nonce(caller)
  /\ Elapsed(p)
  /\ paused' = IF proposals[p].method = "pause" THEN paused \cup {proposals[p].target} ELSE paused
  /\ proposals' = [proposals EXCEPT ![p] =
                     [@ EXCEPT !.status = "Executed", !.executed_at = ledger]]
  /\ UNCHANGED <<ledger, policyVars, vote, exec_nonce>>

\* Mutant: stores the execution nonce a first execution leaves.
ExecuteAsFirst(caller, p) ==
  /\ check_nonce(caller)
  /\ Elapsed(p)
  /\ exec_nonce' = [exec_nonce EXCEPT ![proposals[p].target] = 1]
  /\ paused' = IF proposals[p].method = "pause" THEN paused \cup {proposals[p].target} ELSE paused
  /\ proposals' = [proposals EXCEPT ![p] =
                     [@ EXCEPT !.status = "Executed", !.executed_at = ledger]]
  /\ UNCHANGED <<ledger, policyVars, vote>>

\* execute, when the call of the target succeeds.
Execute(caller, p) ==
  /\ check_nonce(caller)
  /\ Elapsed(p)
  /\ exec_nonce' = [exec_nonce EXCEPT ![proposals[p].target] = @ + 1]
  /\ paused' = IF proposals[p].method = "pause" THEN paused \cup {proposals[p].target} ELSE paused
  /\ proposals' = [proposals EXCEPT ![p] =
                     [@ EXCEPT !.status = "Executed", !.executed_at = ledger]]
  /\ UNCHANGED <<ledger, policyVars, vote>>

\* A ledger closes.
Tick ==
  /\ ledger < MaxLedger
  /\ ledger' = ledger + 1
  /\ UNCHANGED <<nonce, policyVars, ballotVars, exec_nonce, paused>>

PolicyCall(caller) ==
  \/ \E t \in Targets, m \in Methods :
       \/ AddToAllowList(caller, t, m)
       \/ RemoveFromAllowList(caller, t, m)
       \/ \E track \in Tracks : \/ AllowMethodWithTrack(caller, t, m, track)
                                \/ SetMethodMinTrack(caller, t, m, track)
  \/ \E track \in Tracks, config \in TrackConfigs : SetTrackConfig(caller, track, config)
  \/ \E t \in Targets, isPaused \in BOOLEAN : SetPaused(caller, t, isPaused)
  \/ \E voter \in Accounts, weight \in Weights : SetVotingPower(caller, voter, weight)

BallotCall(caller) ==
  \/ \E t \in Targets, m \in Methods, args \in Args, track \in Tracks :
       ProposeWithTrack(caller, t, m, args, track)
  \/ \E t \in Targets : ProposeEmergencyPause(caller, t)
  \/ \E p \in 1..Len(proposals) : \/ VoteApprove(caller, p)
                                  \/ VoteVeto(caller, p)
                                  \/ Cancel(caller, p)

Next ==
  \/ \E caller \in Accounts : PolicyCall(caller) \/ BallotCall(caller)
  \/ \E caller \in Accounts, p \in 1..Len(proposals) : Execute(caller, p)
  \/ Tick

Spec == Init /\ [][Next]_vars

-----------------------------------------------------------------------------
(* What must hold *)

Statuses == {"Pending", "Queued", "Executed", "Rejected", "Cancelled"}
PowerCheckpoint == [ledger_sequence : Nat, vote_weight : Nat]
Proposal == [proposer : Signers, target : Targets, method : Methods, args : Args,
             status : Statuses, approval_count : Nat, veto_count : Nat,
             queued_at : Nat, executed_at : Nat, timelock : Nat, track : Tracks,
             snapshot : Nat, approval_weight : Nat, veto_weight : Nat]

\* Every stored value has its type; a proposal's snapshot lies before the ledger
\* that follows its creation.
TypeOK ==
  /\ ledger \in Nat \ {0}
  /\ nonce \in [Accounts -> Nat]
  /\ allow_list \subseteq Targets \X Methods
  /\ min_track \in [Targets \X Methods -> Tracks \cup {"none"}]
  /\ track_config \in [Tracks -> TrackConfig]
  /\ power_cp \in [Accounts -> Seq(PowerCheckpoint)]
  /\ proposals \in Seq(Proposal)
  /\ vote \in Seq([Accounts -> {"none", "true", "false"}])
  /\ Len(vote) = Len(proposals)
  /\ exec_nonce \in [Targets -> Nat]
  /\ paused \subseteq Targets
  /\ \A p \in 1..Len(proposals) : proposals[p].snapshot < ledger

Approvers(p) == {a \in Accounts : vote[p][a] = "true"}

\* The approvals on a proposal are those of distinct accounts: the count is the
\* number of signers among them, the weight the voting power all of them had at
\* the snapshot, whatever power and votes have moved since.
ApprovalsCounted ==
  \A p \in 1..Len(proposals) :
    /\ proposals[p].approval_count = Cardinality(Approvers(p) \cap Signers)
    /\ proposals[p].approval_weight =
         Total([a \in Approvers(p) |-> get_voting_power_at(a, proposals[p].snapshot)])

\* The voting power a proposal reads is settled when the proposal is made: no later
\* set_voting_power, not even in the same ledger, changes the snapshot.
SnapshotPinned ==
  [][\A p \in 1..Len(proposals), a \in Accounts :
       get_voting_power_at(a, proposals[p].snapshot)' = get_voting_power_at(a, proposals[p].snapshot)]_vars

\* A proposal is queued only when distinct accounts that approved it make up the
\* quorum its track demands at that moment: enough signers, or enough voting power
\* where the track has a weight quorum at all.
QueueNeedsQuorum ==
  [][\A p \in 1..Len(proposals) :
       proposals[p].status = "Pending" /\ proposals'[p].status = "Queued" =>
         LET config == track_config[proposals[p].track]
             approvers == {a \in Accounts : vote'[p][a] = "true"}
             power == [a \in approvers |-> get_voting_power_at(a, proposals[p].snapshot)]
         IN  \/ Cardinality(approvers \cap Signers) >= config.threshold
             \/ /\ config.min_approval_weight > 0
                /\ Total(power) >= config.min_approval_weight]_vars

\* What was approved is what is executed: the call, track and timelock of a proposal
\* never change, and once decided it changes only from Queued to Executed, no
\* earlier than its own timelock after it was queued.
DecisionFinal ==
  [][\A p \in 1..Len(proposals) :
       LET old == proposals[p]
           new == proposals'[p]
       IN  /\ new.target = old.target /\ new.method = old.method /\ new.args = old.args
           /\ new.track = old.track /\ new.timelock = old.timelock
           /\ old.status # "Pending" =>
                \/ new = old
                \/ /\ old.status = "Queued"
                   /\ new = [old EXCEPT !.status = "Executed", !.executed_at = ledger]
                   /\ ledger - old.queued_at >= old.timelock]_vars

\* ExecutionNonce numbers the executed proposals of a target without gap or repeat,
\* which is what the target's own replay guard expects.
ExecutionsNumbered ==
  \A t \in Targets :
    exec_nonce[t] =
      Cardinality({p \in 1..Len(proposals) : proposals[p].target = t /\ proposals[p].status = "Executed"})

\* The vetoes counted on a proposal are those of distinct signers who voted.
VetoesByDistinctSigners ==
  \A p \in 1..Len(proposals) :
    proposals[p].veto_count <= Cardinality({s \in Signers : vote[p][s] # "none"})
=============================================================================
