------------------------------- MODULE Agent -------------------------------
(***************************************************************************)
(* Two babilonia nodes negotiating bets (src/src/agent.rs) and playing     *)
(* them up to the funding signatures.  A node is two threads: the core     *)
(* loop, which the operator's commands drive, and the worker that owns the *)
(* transport to the peer.  In turn the worker polls the transport for a    *)
(* proposal and its queue for an instruction of the core; a bet is played  *)
(* inside such a turn.  Core and worker talk through two queues, the two   *)
(* workers through two FIFO channels of frames (src/docs/MESSAGES.md).     *)
(*                                                                         *)
(* The model starts with both workers registered and the hello consumed.   *)
(* Terms are numbered as they are proposed.  A frame of a bet carries the  *)
(* terms its sender plays under: the receiver of the code cannot read them *)
(* off the frame, it notices a difference only where Scrutinised says.     *)
(* The policies see the stake and the configuration: of the configuration  *)
(* the model has whether bets are accepted without asking, and a stake may *)
(* always be above the cap.                                                *)
(***************************************************************************)
EXTENDS Naturals, Sequences

CONSTANTS
    Node,           \* the two nodes
    MaxProposals,   \* bound on the bets proposed by both nodes together
    MaxDecisions,   \* bound on their accept and reject commands
    MaxSettings     \* bound on their set and quit commands

ASSUME AgentAssumption ==
    /\ \E a, b \in Node : a # b /\ Node = {a, b}
    /\ MaxProposals \in Nat /\ MaxDecisions \in Nat /\ MaxSettings \in Nat

VARIABLES
    up,         \* is the core loop running?
    config,     \* NodeCore.config.auto_accept
    known,      \* the same in the worker's copy of the configuration
    pending,    \* NodeCore.pending: the proposal the core last told of
    toCore,     \* events on their way from the worker to the core
    instr,      \* instructions on their way from the core to the worker
    offer,      \* the worker's pending_terms
    turn,       \* what the worker's loop does next
    worker,     \* what the worker is doing
    chan,       \* frames on their way to each node
    proposed,   \* bets proposed so far
    decisions,  \* accept and reject commands given so far
    settings,   \* set and quit commands given so far
    approved,   \* the terms each operator accepted
    played,     \* how each proposal was accepted, as often as it was
    signed      \* who signed the funding of which terms, in which role

vars == <<up, config, known, pending, toCore, instr, offer, turn, worker, chan,
          proposed, decisions, settings, approved, played, signed>>

Other(n) == CHOOSE m \in Node : m # n

NoTerms == 0

Terms == 1..MaxProposals

Frame(kind, t) == [kind |-> kind, terms |-> t]

Instr(kind, t) == [kind |-> kind, terms |-> t]

\* The frames of a bet, in the order both sides follow, and who sends them.
Script ==
    << Frame("FundOpen", "dealer"), Frame("FundReply", "player"),
       Frame("AliceOpen", "dealer"), Frame("BobCommit", "player"),
       Frame("AliceReveal", "dealer"), Frame("BobAuth", "player"),
       Frame("FundSign", "player"), Frame("FundFinal", "dealer"),
       Frame("CoopReveal", "dealer") >>

\* A session is past the script when it awaits nothing but the chain.
Ended == Len(Script) + 1

Doing(at, t, step, heard) == [at |-> at, terms |-> t, step |-> step, heard |-> heard]

Idle == Doing("idle", NoTerms, 0, NoTerms)

Gone == Doing("gone", NoTerms, 0, NoTerms)

Role == {"dealer", "player"}

----------------------------------------------------------------------------
(* The core loop.                                                          *)

\* Nobody takes the instructions of a core whose worker is gone.
Tell(n, i) == instr' = [instr EXCEPT ![n] = IF worker[n] = Gone THEN @ ELSE Append(@, i)]

CoreOnly == UNCHANGED <<known, toCore, offer, turn, worker, chan, played, signed>>

\* `decide` on the pending proposal.
Decide(n) ==
    /\ up[n] /\ decisions < MaxDecisions
    /\ pending[n] # NoTerms
    /\ decisions' = decisions + 1
    /\ UNCHANGED <<up, config, settings, proposed>>

\* A command that leaves the pending proposal alone.
Setting(n) ==
    /\ up[n] /\ settings < MaxSettings
    /\ settings' = settings + 1
    /\ UNCHANGED <<pending, decisions, approved, proposed>>

\* `propose`: sizes a bet and instructs the worker.
Propose(n) ==
    /\ up[n] /\ proposed < MaxProposals
    /\ proposed' = proposed + 1
    /\ Tell(n, Instr("Propose", proposed + 1))
    /\ UNCHANGED <<up, config, pending, decisions, settings, approved>> /\ CoreOnly

\* `decide`: the operator names the pending proposal; the instruction does not.
Accept(n) ==
    /\ Decide(n)
    /\ Tell(n, Instr("Accept", NoTerms))
    /\ approved' = [approved EXCEPT ![n] = @ \union {pending[n]}]
    /\ UNCHANGED pending /\ CoreOnly

Reject(n) ==
    /\ Decide(n)
    /\ Tell(n, Instr("Reject", NoTerms))
    /\ pending' = [pending EXCEPT ![n] = NoTerms]
    /\ UNCHANGED approved /\ CoreOnly

\* What the core tells the worker of a configuration.
Configured(auto) == Instr(IF auto THEN "AutoOn" ELSE "AutoOff", NoTerms)

\* Mutant: the new configuration is not pushed to the worker.
SetConfigQuietly(n) ==
    /\ Setting(n)
    /\ \E auto \in BOOLEAN : config' = [config EXCEPT ![n] = auto]
    /\ UNCHANGED <<up, instr>> /\ CoreOnly

\* `set_config`: the worker gets a copy.
SetConfig(n) ==
    /\ Setting(n)
    /\ \E auto \in BOOLEAN :
          /\ config' = [config EXCEPT ![n] = auto]
          /\ Tell(n, Configured(auto))
    /\ UNCHANGED up /\ CoreOnly

\* Command::Quit: the loop ends and tells the worker.
Quit(n) ==
    /\ Setting(n)
    /\ up' = [up EXCEPT ![n] = FALSE]
    /\ toCore' = [toCore EXCEPT ![n] = <<>>]
    /\ Tell(n, Instr("Quit", NoTerms))
    /\ UNCHANGED <<config, known, offer, turn, worker, chan, played, signed>>

\* `handle_worker`: a proposal becomes the pending one, an outcome clears it.
HandleWorker(n) ==
    /\ up[n] /\ toCore[n] # <<>>
    /\ pending' = [pending EXCEPT ![n] = Head(toCore[n])]
    /\ toCore' = [toCore EXCEPT ![n] = Tail(@)]
    /\ UNCHANGED <<up, config, known, instr, offer, turn, worker, chan, proposed, decisions,
                   settings, approved, played, signed>>

----------------------------------------------------------------------------
(* The worker's loop.                                                      *)

Leaves == UNCHANGED <<up, config, pending, proposed, decisions, settings, approved, signed>>

WorkerOnly == UNCHANGED known /\ Leaves

Event(n, t) == toCore' = [toCore EXCEPT ![n] = IF up[n] THEN Append(@, t) ELSE @]

Become(n, doing) == worker' = [worker EXCEPT ![n] = doing]

First(n) == Head(chan[n])

Consume(n) == chan' = [chan EXCEPT ![n] = Tail(@)]

\* A frame to a node whose worker is gone is lost.
Arriving(n, frame) == IF worker[Other(n)] = Gone THEN <<>> ELSE <<frame>>

Send(n, frame) == chan' = [chan EXCEPT ![Other(n)] = @ \o Arriving(n, frame)]

Answer(n, frame) ==
    chan' = [chan EXCEPT ![n] = Tail(@), ![Other(n)] = @ \o Arriving(n, frame)]

\* The thread ends, with what it holds and what is on its way to it.
Dies(n) ==
    /\ Become(n, Gone)
    /\ offer' = [offer EXCEPT ![n] = NoTerms]
    /\ instr' = [instr EXCEPT ![n] = <<>>]
    /\ chan' = [chan EXCEPT ![n] = <<>>]
    /\ turn' = [turn EXCEPT ![n] = "poll"]
    /\ UNCHANGED <<toCore, played>>

Idling(n, at) == worker[n].at = "idle" /\ turn[n] = at

Turn(n, next) == turn' = [turn EXCEPT ![n] = next]

\* The worker polls its transport, and a proposal is there.
Proposal(n) ==
    /\ Idling(n, "poll") /\ Turn(n, "obey")
    /\ chan[n] # <<>> /\ First(n).kind = "Terms"

Play(n, t, role) == Become(n, Doing(role, t, 1, NoTerms))

StartPlayer(n, t, by) ==
    /\ Play(n, t, "player")
    /\ played' = [played EXCEPT ![t] = Append(@, by)]

\* AcceptDecision::Ask: the newest proposal takes the place of an older one.
AskOperator(n) ==
    /\ Proposal(n)
    /\ Consume(n)
    /\ offer' = [offer EXCEPT ![n] = First(n).terms]
    /\ Event(n, First(n).terms)
    /\ UNCHANGED <<instr, worker, played>> /\ WorkerOnly

\* AcceptDecision::Accept: answer and play, if the answer can be sent.
AutoAccept(n) ==
    /\ Proposal(n) /\ known[n]
    /\ \/ Answer(n, Frame("ACCEPT", NoTerms)) /\ StartPlayer(n, First(n).terms, "policy")
       \/ Consume(n) /\ UNCHANGED <<worker, played>>
    /\ UNCHANGED <<toCore, instr, offer>> /\ WorkerOnly

\* AcceptDecision::Reject of another policy, and a scheme that is not supported.
AutoReject(n) ==
    /\ Proposal(n)
    /\ Answer(n, Frame("REJECT", NoTerms)) \/ Consume(n)
    /\ UNCHANGED <<toCore, instr, offer, worker, played>> /\ WorkerOnly

\* Any other frame is dropped.
IgnoreFrame(n) ==
    /\ Idling(n, "poll") /\ Turn(n, "obey")
    /\ chan[n] # <<>> /\ First(n).kind # "Terms"
    /\ Consume(n)
    /\ UNCHANGED <<toCore, instr, offer, worker, played>> /\ WorkerOnly

\* Nothing has arrived yet.
PollNothing(n) ==
    /\ Idling(n, "poll") /\ Turn(n, "obey")
    /\ UNCHANGED <<toCore, instr, offer, worker, chan, played>> /\ WorkerOnly

\* The transport errs: the worker's thread ends, the core keeps its handle.
PeerGone(n) ==
    /\ Idling(n, "poll")
    /\ Dies(n) /\ WorkerOnly

\* main returns once the core's loop has ended, whatever the worker is doing.
Exit(n) ==
    /\ ~ up[n] /\ worker[n] # Gone
    /\ Dies(n) /\ WorkerOnly

\* An instruction is there when the worker looks for one.
Told(n, kind) == Idling(n, "obey") /\ instr[n] # <<>> /\ Head(instr[n]).kind = kind

\* The worker takes an instruction.
Instructed(n, kind) ==
    /\ Told(n, kind) /\ Turn(n, "poll")
    /\ instr' = [instr EXCEPT ![n] = Tail(@)]

ObeyNothing(n) ==
    /\ Idling(n, "obey") /\ Turn(n, "poll")
    /\ instr[n] = <<>>
    /\ UNCHANGED <<toCore, instr, offer, worker, chan, played>> /\ WorkerOnly

\* run_proposer: send the terms and wait for the answer, unless the send fails.
StartProposing(n) ==
    /\ Instructed(n, "Propose")
    /\ LET t == Head(instr[n]).terms IN
          \/ Send(n, Frame("Terms", t)) /\ Become(n, Doing("proposing", t, 0, NoTerms))
          \/ UNCHANGED <<chan, worker>>
    /\ UNCHANGED <<toCore, offer, played>> /\ WorkerOnly

\* Mutant: the proposal stays on offer when it is accepted.
DoAcceptKeepsOffer(n) ==
    /\ Instructed(n, "Accept")
    /\ offer[n] # NoTerms
    /\ Send(n, Frame("ACCEPT", NoTerms))
    /\ StartPlayer(n, offer[n], "operator")
    /\ UNCHANGED <<toCore, offer>> /\ WorkerOnly

\* Mutant: an accept that finds nothing on offer is obeyed.
DoAcceptUnchecked(n) ==
    /\ Instructed(n, "Accept")
    /\ Send(n, Frame("ACCEPT", NoTerms))
    /\ StartPlayer(n, offer[n], "operator")
    /\ offer' = [offer EXCEPT ![n] = NoTerms]
    /\ UNCHANGED toCore /\ WorkerOnly

\* Instr::Accept takes whatever is on offer by now.
DoAccept(n) ==
    /\ Instructed(n, "Accept")
    /\ offer[n] # NoTerms
    /\ offer' = [offer EXCEPT ![n] = NoTerms]
    /\ \/ Send(n, Frame("ACCEPT", NoTerms)) /\ StartPlayer(n, offer[n], "operator")
       \/ UNCHANGED <<chan, worker, played>>
    /\ UNCHANGED toCore /\ WorkerOnly

DoAcceptNothing(n) ==
    /\ Instructed(n, "Accept")
    /\ offer[n] = NoTerms
    /\ UNCHANGED <<toCore, offer, worker, chan, played>> /\ WorkerOnly

DoReject(n) ==
    /\ Instructed(n, "Reject")
    /\ offer' = [offer EXCEPT ![n] = NoTerms]
    /\ Send(n, Frame("REJECT", NoTerms)) \/ UNCHANGED chan
    /\ UNCHANGED <<toCore, worker, played>> /\ WorkerOnly

\* Instr::Config replaces the worker's copy.
DoConfig(n) ==
    \E auto \in BOOLEAN :
        /\ Instructed(n, Configured(auto).kind)
        /\ known' = [known EXCEPT ![n] = auto]
        /\ UNCHANGED <<toCore, offer, worker, chan, played>> /\ Leaves

\* Instr::Quit.
DoQuit(n) ==
    /\ Told(n, "Quit")
    /\ Dies(n) /\ WorkerOnly

----------------------------------------------------------------------------
(* A bet, inside a turn of the loop.                                       *)

InBet == UNCHANGED <<instr, offer, turn, played>> /\ WorkerOnly

\* The answer is an ACCEPT: play as dealer.
ProposalAccepted(n) ==
    /\ worker[n].at = "proposing"
    /\ chan[n] # <<>> /\ First(n).kind = "ACCEPT"
    /\ Consume(n)
    /\ Play(n, worker[n].terms, "dealer")
    /\ UNCHANGED toCore /\ InBet

\* A REJECT, or a frame that is no answer.
ProposalDeclined(n) ==
    /\ worker[n].at = "proposing"
    /\ chan[n] # <<>> /\ First(n).kind # "ACCEPT"
    /\ Consume(n)
    /\ Become(n, Idle)
    /\ UNCHANGED toCore /\ InBet

\* No answer in time: `recv` gives up.
ProposalTimeout(n) ==
    /\ worker[n].at = "proposing"
    /\ Become(n, Idle)
    /\ UNCHANGED <<toCore, chan>> /\ InBet

InScript(n) == worker[n].at \in Role /\ worker[n].step < Ended

Line(n) == Script[worker[n].step]

\* It is the session's turn to send.
Sends(n) == InScript(n) /\ Line(n).terms = worker[n].at

\* The session waits for a frame and one is there.
Receives(n) == InScript(n) /\ Line(n).terms # worker[n].at /\ chan[n] # <<>>

Advance(n, heard) == Become(n, [worker[n] EXCEPT !.step = @ + 1, !.heard = heard])

\* Mutant: the parties' partial signatures and transactions are not compared.
NothingScrutinised(n, kind, t) == TRUE

\* Where a party notices that its peer plays under other terms: the partial
\* signatures do not verify, or the funding transaction is another one.  The
\* player verifies the partials of AliceReveal after he sent his own.
Scrutinised(n, kind, t) ==
    kind \in {"BobAuth", "FundSign", "FundFinal"} => t = worker[n].terms

\* The next frame of the script goes out.
SessionSend(n) ==
    /\ Sends(n)
    /\ Line(n).kind = "FundSign" => Scrutinised(n, "FundSign", worker[n].heard)
    /\ Send(n, Frame(Line(n).kind, worker[n].terms))
    /\ Advance(n, worker[n].heard)
    /\ signed' = IF Line(n).kind \in {"FundSign", "FundFinal"}
                 THEN signed \union {<<n, worker[n].at, worker[n].terms>>} ELSE signed
    /\ UNCHANGED <<up, config, known, pending, toCore, instr, offer, turn, proposed, decisions,
                   settings, approved, played>>

\* The frame that the script says arrives.
SessionReceive(n) ==
    /\ Receives(n)
    /\ First(n).kind = Line(n).kind
    /\ Scrutinised(n, First(n).kind, First(n).terms)
    /\ Consume(n)
    /\ Advance(n, First(n).terms)
    /\ UNCHANGED toCore /\ InBet

\* Another frame arrives, or one that does not verify: the bet fails.
SessionWrongFrame(n) ==
    /\ Receives(n)
    /\ First(n).kind # Line(n).kind \/ ~ Scrutinised(n, First(n).kind, First(n).terms)
    /\ Consume(n)
    /\ Become(n, Idle)
    /\ UNCHANGED toCore /\ InBet

\* No frame in time, a wallet or chain error, a proof that does not verify.
SessionError(n) ==
    /\ worker[n].at \in Role
    /\ Become(n, Idle)
    /\ UNCHANGED <<toCore, chan>> /\ InBet

\* The bet is decided on the chain.  The player does not need the CoopReveal.
SessionOutcome(n) ==
    /\ worker[n].at \in Role
    /\ \/ worker[n].step = Ended
       \/ worker[n].step = Len(Script) /\ worker[n].at = "player"
    /\ Event(n, NoTerms)
    /\ Become(n, Idle)
    /\ UNCHANGED chan /\ InBet

----------------------------------------------------------------------------

Init ==
    /\ up = [n \in Node |-> TRUE]
    /\ config \in [Node -> BOOLEAN]
    /\ known = config
    /\ pending = [n \in Node |-> NoTerms]
    /\ toCore = [n \in Node |-> <<>>]
    /\ instr = [n \in Node |-> <<>>]
    /\ offer = [n \in Node |-> NoTerms]
    /\ turn = [n \in Node |-> "poll"]
    /\ worker = [n \in Node |-> Idle]
    /\ chan = [n \in Node |-> <<>>]
    /\ proposed = 0
    /\ decisions = 0
    /\ settings = 0
    /\ approved = [n \in Node |-> {}]
    /\ played = [t \in Terms |-> <<>>]
    /\ signed = {}

CoreStep(n) ==
    \/ Propose(n) \/ Accept(n) \/ Reject(n) \/ SetConfig(n) \/ Quit(n) \/ HandleWorker(n)

LoopStep(n) ==
    \/ AskOperator(n) \/ AutoAccept(n) \/ AutoReject(n) \/ IgnoreFrame(n)
    \/ PollNothing(n) \/ PeerGone(n) \/ ObeyNothing(n)
    \/ StartProposing(n) \/ DoAccept(n) \/ DoAcceptNothing(n) \/ DoReject(n)
    \/ DoConfig(n) \/ DoQuit(n) \/ Exit(n)

BetStep(n) ==
    \/ ProposalAccepted(n) \/ ProposalDeclined(n) \/ ProposalTimeout(n)
    \/ SessionSend(n) \/ SessionReceive(n) \/ SessionWrongFrame(n)
    \/ SessionError(n) \/ SessionOutcome(n)

Next == \E n \in Node : CoreStep(n) \/ LoopStep(n) \/ BetStep(n)

Spec == Init /\ [][Next]_vars

----------------------------------------------------------------------------
(* Properties.                                                             *)

AnyTerms == Terms \union {NoTerms}

FrameKind == {"Terms", "ACCEPT", "REJECT"} \union {Script[i].kind : i \in DOMAIN Script}

InstrKind == {"Propose", "Accept", "Reject", "AutoOn", "AutoOff", "Quit"}

AgentTypeOK ==
    /\ up \in [Node -> BOOLEAN] /\ config \in [Node -> BOOLEAN] /\ known \in [Node -> BOOLEAN]
    /\ pending \in [Node -> AnyTerms]
    /\ toCore \in [Node -> Seq(AnyTerms)]
    /\ instr \in [Node -> Seq([kind : InstrKind, terms : AnyTerms])]
    /\ offer \in [Node -> AnyTerms]
    /\ turn \in [Node -> {"poll", "obey"}]
    /\ worker \in [Node ->
          {Idle, Gone} \union
          [at : {"proposing"} \union Role, terms : Terms, step : 0..Ended, heard : AnyTerms]]
    /\ chan \in [Node -> Seq([kind : FrameKind, terms : AnyTerms])]
    /\ proposed \in 0..MaxProposals
    /\ decisions \in 0..MaxDecisions
    /\ settings \in 0..MaxSettings
    /\ approved \in [Node -> SUBSET Terms]
    /\ played \in [Terms -> Seq({"operator", "policy"})]
    /\ signed \subseteq Node \X Role \X Terms

\* No proposal is played twice, whatever the operator repeats and however
\* late the frames are.
PlayedOnce == \A t \in Terms : Len(played[t]) <= 1

IsConfig(i) == i.kind \in {"AutoOn", "AutoOff"}

\* "push the new config to the peer worker so its accept policy sees the
\* change": the worker decides by the operator's configuration, or a newer one
\* waits in its queue and nothing after it undoes it.
ConfigFollows ==
    \A n \in Node : worker[n] # Gone =>
        \/ known[n] = config[n] /\ \A i \in DOMAIN instr[n] : ~ IsConfig(instr[n][i])
        \/ \E i \in DOMAIN instr[n] :
              /\ instr[n][i] = Configured(config[n])
              /\ \A j \in DOMAIN instr[n] : j > i => ~ IsConfig(instr[n][j])

\* A dealer signs the funding of a bet only when the other node has signed it
\* as the player of the same terms.  An ACCEPT names no proposal, so a late one
\* may answer a later proposal and the two sessions may exchange frames under
\* different terms: the signatures they exchange are what stops them in time.
SignedTogether ==
    \A n \in Node, t \in Terms :
        <<n, "dealer", t>> \in signed => <<Other(n), "player", t>> \in signed

\* "Accept a pending incoming proposal": a bet that an operator's accept
\* started is one he was told of and accepted.
OperatorApproved ==
    \A n \in Node :
        worker[n].at = "player" /\ played[worker[n].terms] = <<"operator">>
            => worker[n].terms \in approved[n]
============================================================================
