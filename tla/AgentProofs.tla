---------------------------- MODULE AgentProofs ----------------------------
(***************************************************************************)
(* Proofs about two negotiating nodes, for every number of proposals,      *)
(* decisions and changes of the configuration.                             *)
(***************************************************************************)
EXTENDS Agent, TLAPS

----------------------------------------------------------------------------
(* Nodes, frames and instructions.                                         *)

\* There are two nodes.
LEMMA OtherNode ==
  ASSUME NEW n \in Node
  PROVE  /\ Other(n) \in Node /\ Other(n) # n /\ Other(Other(n)) = n
         /\ \A m \in Node : m = n \/ m = Other(n)
<1>1. PICK a \in Node, b \in Node : a # b /\ Node = {a, b} BY AgentAssumption
<1>2. \A x, y \in Node : x # y => Other(x) = y
  <2>1. SUFFICES ASSUME NEW x \in Node, NEW y \in Node, x # y PROVE Other(x) = y OBVIOUS
  <2>2. \A m \in Node : m # x <=> m = y BY <1>1, <2>1
  <2> QED BY <2>1, <2>2 DEF Other
<1> QED BY <1>1, <1>2

FrameT == {f \in [kind : FrameKind, terms : AnyTerms] : f.kind = "Terms" => f.terms \in Terms}

InstrT == {i \in [kind : InstrKind, terms : AnyTerms] : i.kind = "Propose" => i.terms \in Terms}

Playing ==
    {w \in [at : {"proposing"} \union Role, terms : Terms, step : 0..Ended, heard : AnyTerms] :
        w.at \in Role => w.step # 0}

\* What the core has.
CoreTypes ==
    /\ up \in [Node -> BOOLEAN] /\ config \in [Node -> BOOLEAN]
    /\ pending \in [Node -> AnyTerms]
    /\ proposed \in 0..MaxProposals
    /\ decisions \in 0..MaxDecisions
    /\ settings \in 0..MaxSettings
    /\ approved \in [Node -> SUBSET Terms]
    /\ signed \subseteq Node \X Role \X Terms

\* What the workers have: the terms of a proposal are a bet's.
WorkerTypes ==
    /\ known \in [Node -> BOOLEAN]
    /\ toCore \in [Node -> Seq(AnyTerms)]
    /\ instr \in [Node -> Seq(InstrT)]
    /\ offer \in [Node -> AnyTerms]
    /\ turn \in [Node -> {"poll", "obey"}]
    /\ worker \in [Node -> {Idle, Gone} \union Playing]
    /\ chan \in [Node -> Seq(FrameT)]
    /\ played \in [Terms -> Seq({"operator", "policy"})]

AgentTypes == CoreTypes /\ WorkerTypes

LEMMA TermsFacts ==
  /\ Terms \subseteq Nat /\ NoTerms \notin Terms /\ AnyTerms = Terms \union {NoTerms}
  /\ \A t \in AnyTerms : t # NoTerms => t \in Terms
BY AgentAssumption DEF Terms, NoTerms, AnyTerms

\* The lines of the script are frames of the sessions.
LEMMA ScriptFacts ==
  /\ Len(Script) = 9 /\ Ended = 10 /\ DOMAIN Script = 1..9
  /\ \A i \in 1..9 :
        /\ Script[i].kind \in FrameKind /\ Script[i].kind # "Terms"
        /\ Script[i].terms \in Role
        /\ Script[i].kind = "FundSign" <=> i = 7
        /\ Script[i].kind = "FundFinal" <=> i = 8
  /\ Script[7].terms = "player" /\ Script[8].terms = "dealer"
<1>1. Len(Script) = 9 /\ DOMAIN Script = 1..9 BY DEF Script, Frame
<1>2. Ended = 10 BY <1>1 DEF Ended
<1>3. \A i \in 1..9 : Script[i].kind \in FrameKind BY <1>1 DEF FrameKind
<1>4. \A i \in 1..9 :
        /\ Script[i].kind # "Terms"
        /\ Script[i].terms \in Role
        /\ Script[i].kind = "FundSign" <=> i = 7
        /\ Script[i].kind = "FundFinal" <=> i = 8
  <2>1. \A i \in 1..9 : i \in {1, 2, 3, 4, 5, 6, 7, 8, 9} OBVIOUS
  <2> QED BY <2>1 DEF Script, Frame, Role
<1>5. Script[7].terms = "player" /\ Script[8].terms = "dealer" BY DEF Script, Frame
<1> QED BY <1>1, <1>2, <1>3, <1>4, <1>5

\* Which frames and instructions are well typed.
LEMMA Typed ==
  /\ \A k \in FrameKind, t \in AnyTerms : k # "Terms" => Frame(k, t) \in FrameT
  /\ \A t \in Terms : Frame("Terms", t) \in FrameT /\ Instr("Propose", t) \in InstrT
  /\ Frame("ACCEPT", NoTerms) \in FrameT /\ Frame("REJECT", NoTerms) \in FrameT
  /\ \A k \in InstrKind : k # "Propose" => Instr(k, NoTerms) \in InstrT
  /\ \A auto \in BOOLEAN : Configured(auto) \in InstrT
<1>1. \A k, t : /\ Frame(k, t).kind = k /\ Frame(k, t).terms = t
               /\ Instr(k, t).kind = k /\ Instr(k, t).terms = t BY DEF Frame, Instr
<1>2. {"Terms", "ACCEPT", "REJECT"} \subseteq FrameKind BY DEF FrameKind
<1>3. NoTerms \in AnyTerms /\ Terms \subseteq AnyTerms BY DEF AnyTerms
<1>4. \A k \in FrameKind, t \in AnyTerms : Frame(k, t) \in [kind : FrameKind, terms : AnyTerms]
  BY DEF Frame
<1>5. \A k \in InstrKind, t \in AnyTerms : Instr(k, t) \in [kind : InstrKind, terms : AnyTerms]
  BY DEF Instr
<1>6. {"Propose", "AutoOn", "AutoOff"} \subseteq InstrKind BY DEF InstrKind
<1>7. \A k \in InstrKind : k # "Propose" => Instr(k, NoTerms) \in InstrT
  BY <1>1, <1>3, <1>5 DEF InstrT
<1>8. \A auto \in BOOLEAN : Configured(auto) \in InstrT
  BY <1>6, <1>7 DEF Configured
<1> QED BY <1>1, <1>2, <1>3, <1>4, <1>5, <1>6, <1>7, <1>8 DEF FrameT, InstrT

\* A node that proposes or plays does it under the terms of a bet.
LEMMA PlayingTyped ==
  ASSUME AgentTypes, NEW n \in Node, worker[n].at \in {"proposing"} \union Role
  PROVE  worker[n] \in Playing
BY DEF AgentTypes, WorkerTypes, Playing, Idle, Gone, Doing, Role

----------------------------------------------------------------------------
(* How the queues change.                                                  *)

LEMMA ChanTyped ==
  ASSUME AgentTypes, NEW n \in Node, NEW f \in FrameT
  PROVE  /\ Send(n, f) => chan' \in [Node -> Seq(FrameT)]
         /\ chan[n] # <<>> => First(n) \in FrameT
         /\ chan[n] # <<>> /\ Consume(n) => chan' \in [Node -> Seq(FrameT)]
         /\ chan[n] # <<>> /\ Answer(n, f) => chan' \in [Node -> Seq(FrameT)]
<1>1. chan \in [Node -> Seq(FrameT)] BY DEF AgentTypes, WorkerTypes
<1>2. Arriving(n, f) \in Seq(FrameT) BY DEF Arriving
<1>3. chan[n] # <<>> => Head(chan[n]) \in FrameT /\ Tail(chan[n]) \in Seq(FrameT) BY <1>1
<1>4. chan[Other(n)] \o Arriving(n, f) \in Seq(FrameT) BY <1>1, <1>2, OtherNode
<1> QED BY <1>1, <1>3, <1>4, OtherNode DEF Send, First, Consume, Answer

LEMMA InstrTyped ==
  ASSUME AgentTypes, NEW n \in Node
  PROVE  /\ \A i \in InstrT : Tell(n, i) => instr' \in [Node -> Seq(InstrT)]
         /\ \A k : Instructed(n, k) => /\ Head(instr[n]) \in InstrT /\ Head(instr[n]).kind = k
                                       /\ instr' \in [Node -> Seq(InstrT)]
                                       /\ turn' \in [Node -> {"poll", "obey"}]
<1>1. instr \in [Node -> Seq(InstrT)] /\ turn \in [Node -> {"poll", "obey"}]
  BY DEF AgentTypes, WorkerTypes
<1>2. instr[n] # <<>> => Head(instr[n]) \in InstrT /\ Tail(instr[n]) \in Seq(InstrT) BY <1>1
<1>3. \A i \in InstrT : Append(instr[n], i) \in Seq(InstrT) BY <1>1
<1> QED BY <1>1, <1>2, <1>3 DEF Tell, Instructed, Told, Turn

LEMMA EventTyped ==
  ASSUME AgentTypes, NEW n \in Node
  PROVE  \A t \in AnyTerms : Event(n, t) => toCore' \in [Node -> Seq(AnyTerms)]
<1>1. toCore \in [Node -> Seq(AnyTerms)] BY DEF AgentTypes, WorkerTypes
<1>2. \A t \in AnyTerms : Append(toCore[n], t) \in Seq(AnyTerms) BY <1>1
<1> QED BY <1>1, <1>2 DEF Event

LEMMA WorkerTyped ==
  ASSUME AgentTypes, NEW n \in Node, NEW d \in {Idle, Gone} \union Playing, Become(n, d)
  PROVE  worker' \in [Node -> {Idle, Gone} \union Playing]
BY DEF AgentTypes, WorkerTypes, Become, Playing

LEMMA PlayTyped ==
  ASSUME AgentTypes, NEW n \in Node, NEW t \in Terms, NEW by \in {"operator", "policy"}
  PROVE  /\ \A role \in Role : Play(n, t, role) => worker' \in [Node -> {Idle, Gone} \union Playing]
         /\ StartPlayer(n, t, by) => /\ worker' \in [Node -> {Idle, Gone} \union Playing]
                                     /\ played' \in [Terms -> Seq({"operator", "policy"})]
<1>1. \A role \in Role : Doing(role, t, 1, NoTerms) \in Playing
  BY ScriptFacts, TermsFacts DEF Doing, Playing
<1>2. \A role \in Role : Play(n, t, role) => worker' \in [Node -> {Idle, Gone} \union Playing]
  BY <1>1, WorkerTyped DEF Play
<1>3. "player" \in Role BY DEF Role
<1>4. played \in [Terms -> Seq({"operator", "policy"})] BY DEF AgentTypes, WorkerTypes
<1>5. Append(played[t], by) \in Seq({"operator", "policy"}) BY <1>4
<1> QED BY <1>2, <1>3, <1>4, <1>5 DEF StartPlayer

LEMMA DiesTyped ==
  ASSUME AgentTypes, NEW n \in Node, Dies(n)
  PROVE  /\ worker' \in [Node -> {Idle, Gone} \union Playing]
         /\ offer' \in [Node -> AnyTerms]
         /\ instr' \in [Node -> Seq(InstrT)]
         /\ chan' \in [Node -> Seq(FrameT)]
         /\ turn' \in [Node -> {"poll", "obey"}]
         /\ UNCHANGED <<toCore, played>>
<1>1. worker' \in [Node -> {Idle, Gone} \union Playing] BY WorkerTyped DEF Dies
<1>2. <<>> \in Seq(InstrT) /\ <<>> \in Seq(FrameT) OBVIOUS
<1>3. NoTerms \in AnyTerms BY TermsFacts
<1> QED BY <1>1, <1>2, <1>3 DEF Dies, AgentTypes, WorkerTypes

----------------------------------------------------------------------------
(* Types.                                                                  *)

LEMMA Widened ==
  ASSUME NEW S, NEW T, S \subseteq T, NEW s \in Seq(S)
  PROVE  s \in Seq(T)
<1>1. Len(s) \in Nat /\ s \in [1..Len(s) -> S] OBVIOUS
<1>2. s \in [1..Len(s) -> T] BY <1>1
<1> QED BY <1>1, <1>2

LEMMA TypesSuffice == AgentTypes => AgentTypeOK
<1>1. FrameT \subseteq [kind : FrameKind, terms : AnyTerms] BY DEF FrameT
<1>2. InstrT \subseteq [kind : InstrKind, terms : AnyTerms] BY DEF InstrT
<1>3. \A s \in Seq(FrameT) : s \in Seq([kind : FrameKind, terms : AnyTerms])
  BY <1>1, Widened
<1>4. \A s \in Seq(InstrT) : s \in Seq([kind : InstrKind, terms : AnyTerms])
  BY <1>2, Widened
<1> QED BY <1>3, <1>4 DEF AgentTypes, CoreTypes, WorkerTypes, AgentTypeOK, Playing

LEMMA TypesInit == Init => AgentTypes
<1>1. <<>> \in Seq(AnyTerms) /\ <<>> \in Seq(InstrT) /\ <<>> \in Seq(FrameT)
      /\ <<>> \in Seq({"operator", "policy"}) OBVIOUS
<1>2. 0 \in 0..MaxProposals /\ 0 \in 0..MaxDecisions /\ 0 \in 0..MaxSettings BY AgentAssumption
<1> QED BY <1>1, <1>2, TermsFacts DEF Init, AgentTypes, CoreTypes, WorkerTypes

LEMMA LeavesCore == ASSUME AgentTypes, Leaves PROVE CoreTypes'
BY DEF AgentTypes, CoreTypes, Leaves

LEMMA CoreStepTypes ==
  ASSUME AgentTypes, NEW n \in Node, CoreStep(n)
  PROVE  AgentTypes'
<1> USE DEF AgentTypes
<1>1. CASE Propose(n)
  <2>1. proposed + 1 \in Terms /\ proposed + 1 \in 0..MaxProposals
    BY <1>1, AgentAssumption DEF Propose, CoreTypes, Terms
  <2>2. instr' \in [Node -> Seq(InstrT)] BY <1>1, <2>1, Typed, InstrTyped DEF Propose
  <2> QED BY <1>1, <2>1, <2>2 DEF Propose, CoreOnly, CoreTypes, WorkerTypes
<1>2. ASSUME Decide(n)
      PROVE  /\ decisions' \in 0..MaxDecisions /\ pending[n] \in Terms
             /\ UNCHANGED <<up, config, settings, proposed>>
  BY <1>2, AgentAssumption, TermsFacts DEF Decide, CoreTypes
<1>3. CASE Accept(n)
  <2>1. instr' \in [Node -> Seq(InstrT)] BY <1>3, Typed, InstrTyped DEF Accept, InstrKind
  <2>2. approved' \in [Node -> SUBSET Terms] BY <1>2, <1>3 DEF Accept, CoreTypes
  <2> QED BY <1>2, <1>3, <2>1, <2>2 DEF Accept, CoreOnly, CoreTypes, WorkerTypes
<1>4. CASE Reject(n)
  <2>1. instr' \in [Node -> Seq(InstrT)] BY <1>4, Typed, InstrTyped DEF Reject, InstrKind
  <2>2. pending' \in [Node -> AnyTerms] BY <1>4, TermsFacts DEF Reject, CoreTypes
  <2> QED BY <1>2, <1>4, <2>1, <2>2 DEF Reject, CoreOnly, CoreTypes, WorkerTypes
<1>5. ASSUME Setting(n)
      PROVE  settings' \in 0..MaxSettings /\ UNCHANGED <<pending, decisions, approved, proposed>>
  BY <1>5, AgentAssumption DEF Setting, CoreTypes
<1>6. CASE SetConfig(n)
  <2>1. instr' \in [Node -> Seq(InstrT)] BY <1>6, Typed, InstrTyped DEF SetConfig
  <2>2. config' \in [Node -> BOOLEAN] BY <1>6 DEF SetConfig, CoreTypes
  <2> QED BY <1>5, <1>6, <2>1, <2>2 DEF SetConfig, CoreOnly, CoreTypes, WorkerTypes
<1>7. CASE Quit(n)
  <2>1. instr' \in [Node -> Seq(InstrT)] BY <1>7, Typed, InstrTyped DEF Quit, InstrKind
  <2>2. <<>> \in Seq(AnyTerms) OBVIOUS
  <2>3. toCore' \in [Node -> Seq(AnyTerms)] BY <1>7, <2>2 DEF Quit, WorkerTypes
  <2> QED BY <1>5, <1>7, <2>1, <2>3 DEF Quit, CoreTypes, WorkerTypes
<1>8. CASE HandleWorker(n)
  <2>1. Head(toCore[n]) \in AnyTerms /\ Tail(toCore[n]) \in Seq(AnyTerms)
    BY <1>8 DEF HandleWorker, WorkerTypes
  <2> QED BY <1>8, <2>1 DEF HandleWorker, CoreTypes, WorkerTypes
<1> QED BY <1>1, <1>3, <1>4, <1>6, <1>7, <1>8 DEF CoreStep

LEMMA PollTypes ==
  ASSUME AgentTypes, NEW n \in Node,
         \/ AskOperator(n) \/ AutoAccept(n) \/ AutoReject(n) \/ IgnoreFrame(n)
         \/ PollNothing(n) \/ PeerGone(n) \/ Exit(n)
  PROVE  AgentTypes'
<1> USE DEF AgentTypes
<1>1. CASE PeerGone(n) \/ Exit(n)
  BY <1>1, DiesTyped, LeavesCore DEF PeerGone, Exit, WorkerOnly, WorkerTypes
<1>2. ASSUME Turn(n, "obey") PROVE turn' \in [Node -> {"poll", "obey"}]
  BY <1>2 DEF Turn, WorkerTypes
<1>3. ASSUME Proposal(n) PROVE chan[n] # <<>> /\ First(n).terms \in Terms /\ Turn(n, "obey")
  BY <1>3, Typed, ChanTyped DEF Proposal, FrameT
<1>4. CASE AskOperator(n)
  <2>1. chan' \in [Node -> Seq(FrameT)] BY <1>3, <1>4, Typed, ChanTyped DEF AskOperator
  <2>2. toCore' \in [Node -> Seq(AnyTerms)]
    BY <1>3, <1>4, EventTyped, TermsFacts DEF AskOperator
  <2>3. offer' \in [Node -> AnyTerms] BY <1>3, <1>4, TermsFacts DEF AskOperator, WorkerTypes
  <2> QED BY <1>2, <1>3, <1>4, <2>1, <2>2, <2>3, LeavesCore DEF AskOperator, WorkerOnly, WorkerTypes
<1>5. CASE AutoAccept(n)
  <2>1. chan' \in [Node -> Seq(FrameT)] BY <1>3, <1>5, Typed, ChanTyped DEF AutoAccept
  <2>2. /\ worker' \in [Node -> {Idle, Gone} \union Playing]
        /\ played' \in [Terms -> Seq({"operator", "policy"})]
    BY <1>3, <1>5, PlayTyped DEF AutoAccept, WorkerTypes
  <2> QED BY <1>2, <1>3, <1>5, <2>1, <2>2, LeavesCore DEF AutoAccept, WorkerOnly, WorkerTypes
<1>6. CASE AutoReject(n)
  <2>1. chan' \in [Node -> Seq(FrameT)] BY <1>3, <1>6, Typed, ChanTyped DEF AutoReject
  <2> QED BY <1>2, <1>3, <1>6, <2>1, LeavesCore DEF AutoReject, WorkerOnly, WorkerTypes
<1>7. CASE IgnoreFrame(n)
  <2>1. chan' \in [Node -> Seq(FrameT)] BY <1>7, Typed, ChanTyped DEF IgnoreFrame
  <2> QED BY <1>2, <1>7, <2>1, LeavesCore DEF IgnoreFrame, WorkerOnly, WorkerTypes
<1>8. CASE PollNothing(n)
  BY <1>2, <1>8, LeavesCore DEF PollNothing, WorkerOnly, WorkerTypes
<1> QED BY <1>1, <1>4, <1>5, <1>6, <1>7, <1>8

LEMMA ObeyTypes ==
  ASSUME AgentTypes, NEW n \in Node,
         \/ ObeyNothing(n) \/ StartProposing(n) \/ DoAccept(n) \/ DoAcceptNothing(n)
         \/ DoReject(n) \/ DoConfig(n) \/ DoQuit(n)
  PROVE  AgentTypes'
<1> USE DEF AgentTypes
<1>1. CASE ObeyNothing(n)
  BY <1>1, LeavesCore DEF ObeyNothing, Turn, WorkerOnly, WorkerTypes
<1>2. CASE StartProposing(n)
  <2> DEFINE t == Head(instr[n]).terms
  <2>1. t \in Terms BY <1>2, InstrTyped DEF StartProposing, InstrT
  <2>2. Doing("proposing", t, 0, NoTerms) \in Playing
    <3> HIDE DEF t
    <3> QED BY <2>1, ScriptFacts, TermsFacts DEF Doing, Playing, Role
  <2>3. Frame("Terms", t) \in FrameT BY <2>1, Typed
  <2>4. chan' \in [Node -> Seq(FrameT)] BY <1>2, <2>3, ChanTyped DEF StartProposing, WorkerTypes
  <2>5. worker' \in [Node -> {Idle, Gone} \union Playing]
    BY <1>2, <2>2, WorkerTyped DEF StartProposing, WorkerTypes
  <2> HIDE DEF t
  <2> QED BY <1>2, <2>4, <2>5, InstrTyped, LeavesCore DEF StartProposing, WorkerOnly, WorkerTypes
<1>3. CASE DoAccept(n)
  <2>1. offer[n] \in Terms BY <1>3, TermsFacts DEF DoAccept, WorkerTypes
  <2>2. chan' \in [Node -> Seq(FrameT)] BY <1>3, Typed, ChanTyped DEF DoAccept, WorkerTypes
  <2>3. /\ worker' \in [Node -> {Idle, Gone} \union Playing]
        /\ played' \in [Terms -> Seq({"operator", "policy"})]
    BY <1>3, <2>1, PlayTyped DEF DoAccept, WorkerTypes
  <2>4. offer' \in [Node -> AnyTerms] BY <1>3, TermsFacts DEF DoAccept, WorkerTypes
  <2> QED BY <1>3, <2>2, <2>3, <2>4, InstrTyped, LeavesCore DEF DoAccept, WorkerOnly, WorkerTypes
<1>4. CASE DoAcceptNothing(n)
  BY <1>4, InstrTyped, LeavesCore DEF DoAcceptNothing, WorkerOnly, WorkerTypes
<1>5. CASE DoReject(n)
  <2>1. chan' \in [Node -> Seq(FrameT)] BY <1>5, Typed, ChanTyped DEF DoReject, WorkerTypes
  <2>2. offer' \in [Node -> AnyTerms] BY <1>5, TermsFacts DEF DoReject, WorkerTypes
  <2> QED BY <1>5, <2>1, <2>2, InstrTyped, LeavesCore DEF DoReject, WorkerOnly, WorkerTypes
<1>6. CASE DoConfig(n)
  <2>1. known' \in [Node -> BOOLEAN] BY <1>6 DEF DoConfig, WorkerTypes
  <2> QED BY <1>6, <2>1, InstrTyped, LeavesCore DEF DoConfig, WorkerTypes
<1>7. CASE DoQuit(n)
  BY <1>7, DiesTyped, LeavesCore DEF DoQuit, WorkerOnly, WorkerTypes
<1> QED BY <1>1, <1>2, <1>3, <1>4, <1>5, <1>6, <1>7

\* The frame that a session sends.
LEMMA SentFrame ==
  ASSUME AgentTypes, NEW n \in Node, Sends(n)
  PROVE  /\ Frame(Line(n).kind, worker[n].terms) \in FrameT
         /\ Frame(Line(n).kind, worker[n].terms).kind # "Terms"
<1>1. worker[n] \in Playing /\ worker[n].step \in 1..9
  BY PlayingTyped, ScriptFacts DEF Sends, InScript, Playing
<1>2. Line(n).kind \in FrameKind /\ Line(n).kind # "Terms" BY <1>1, ScriptFacts DEF Line
<1>3. worker[n].terms \in AnyTerms BY <1>1, TermsFacts DEF Playing
<1>4. Frame(Line(n).kind, worker[n].terms).kind = Line(n).kind BY DEF Frame
<1> QED BY <1>2, <1>3, <1>4, Typed

LEMMA BetStepTypes ==
  ASSUME AgentTypes, NEW n \in Node, BetStep(n)
  PROVE  AgentTypes'
<1> USE DEF AgentTypes
<1>1. Idle \in {Idle, Gone} \union Playing OBVIOUS
<1>2. ASSUME Become(n, Idle) PROVE worker' \in [Node -> {Idle, Gone} \union Playing]
  BY <1>1, <1>2, WorkerTyped
<1>3. ASSUME chan[n] # <<>>, Consume(n) PROVE chan' \in [Node -> Seq(FrameT)]
  BY <1>3, Typed, ChanTyped
<1>4. CASE ProposalAccepted(n)
  <2>1. worker[n].terms \in Terms
    BY <1>4, PlayingTyped DEF ProposalAccepted, Playing
  <2>2. worker' \in [Node -> {Idle, Gone} \union Playing]
    BY <1>4, <2>1, PlayTyped DEF ProposalAccepted, Role
  <2> QED BY <1>3, <1>4, <2>2, LeavesCore DEF ProposalAccepted, InBet, WorkerOnly, WorkerTypes
<1>5. CASE ProposalDeclined(n)
  BY <1>2, <1>3, <1>5, LeavesCore DEF ProposalDeclined, InBet, WorkerOnly, WorkerTypes
<1>6. CASE ProposalTimeout(n)
  BY <1>2, <1>6, LeavesCore DEF ProposalTimeout, InBet, WorkerOnly, WorkerTypes
<1>7. ASSUME InScript(n)
      PROVE  /\ worker[n] \in Playing /\ worker[n].step \in 1..9
             /\ worker[n].terms \in Terms /\ worker[n].heard \in AnyTerms
  BY <1>7, PlayingTyped, ScriptFacts DEF InScript, Playing
<1>8. ASSUME InScript(n), NEW h \in AnyTerms, Advance(n, h)
      PROVE  worker' \in [Node -> {Idle, Gone} \union Playing]
  <2>1. [worker[n] EXCEPT !.step = @ + 1, !.heard = h] \in Playing
    <3> DEFINE w == worker[n]
    <3>1. w \in Playing /\ w.step \in 1..9 BY <1>7, <1>8
    <3>2. w.step + 1 \in 0..Ended /\ w.step + 1 # 0 BY <3>1, ScriptFacts
    <3> HIDE DEF w
    <3>3. [w EXCEPT !.step = w.step + 1, !.heard = h]
             \in [at : {"proposing"} \union Role, terms : Terms, step : 0..Ended, heard : AnyTerms]
      BY <3>1, <3>2 DEF Playing
    <3>4. [w EXCEPT !.step = w.step + 1, !.heard = h].step = w.step + 1 BY <3>1 DEF Playing
    <3>5. [w EXCEPT !.step = w.step + 1, !.heard = h] \in Playing BY <3>2, <3>3, <3>4 DEF Playing
    <3> QED BY <3>5 DEF w
  <2> QED BY <1>8, <2>1, WorkerTyped DEF Advance
<1>9. CASE SessionSend(n)
  <2>1. InScript(n) BY <1>9 DEF SessionSend, Sends
  <2>2. Frame(Line(n).kind, worker[n].terms) \in FrameT BY <1>9, SentFrame DEF SessionSend
  <2>3. chan' \in [Node -> Seq(FrameT)] BY <1>9, <2>2, ChanTyped DEF SessionSend
  <2>4. worker' \in [Node -> {Idle, Gone} \union Playing]
    BY <1>7, <1>8, <1>9, <2>1 DEF SessionSend
  <2>5. signed' \subseteq Node \X Role \X Terms
    BY <1>7, <1>9, <2>1 DEF SessionSend, InScript, CoreTypes
  <2> QED BY <1>9, <2>3, <2>4, <2>5 DEF SessionSend, CoreTypes, WorkerTypes
<1>10. CASE SessionReceive(n)
  <2>1. First(n) \in FrameT /\ chan[n] # <<>> BY <1>10, Typed, ChanTyped DEF SessionReceive, Receives
  <2>2. worker' \in [Node -> {Idle, Gone} \union Playing]
    BY <1>8, <1>10, <2>1 DEF SessionReceive, Receives, FrameT
  <2> QED BY <1>3, <1>10, <2>1, <2>2, LeavesCore DEF SessionReceive, InBet, WorkerOnly, WorkerTypes
<1>11. CASE SessionWrongFrame(n)
  BY <1>2, <1>3, <1>11, LeavesCore
  DEF SessionWrongFrame, Receives, InBet, WorkerOnly, WorkerTypes
<1>12. CASE SessionError(n)
  BY <1>2, <1>12, LeavesCore DEF SessionError, InBet, WorkerOnly, WorkerTypes
<1>13. CASE SessionOutcome(n)
  <2>1. toCore' \in [Node -> Seq(AnyTerms)] BY <1>13, EventTyped, TermsFacts DEF SessionOutcome
  <2> QED BY <1>2, <1>13, <2>1, LeavesCore DEF SessionOutcome, InBet, WorkerOnly, WorkerTypes
<1> QED BY <1>4, <1>5, <1>6, <1>9, <1>10, <1>11, <1>12, <1>13 DEF BetStep

LEMMA TypesStep == AgentTypes /\ [Next]_vars => AgentTypes'
<1> SUFFICES ASSUME AgentTypes, [Next]_vars PROVE AgentTypes' OBVIOUS
<1>1. CASE UNCHANGED vars BY <1>1 DEF vars, AgentTypes, CoreTypes, WorkerTypes
<1>2. ASSUME NEW n \in Node, CoreStep(n) \/ LoopStep(n) \/ BetStep(n) PROVE AgentTypes'
  BY <1>2, CoreStepTypes, PollTypes, ObeyTypes, BetStepTypes DEF LoopStep
<1> QED BY <1>1, <1>2 DEF Next

LEMMA TypesAlways == Spec => []AgentTypes
BY TypesInit, TypesStep, PTL DEF Spec

\* The state of both nodes is well typed: in particular a worker only ever
\* plays terms that somebody proposed.
THEOREM AgentTypeCorrect == Spec => []AgentTypeOK
BY TypesAlways, TypesSuffice, PTL

----------------------------------------------------------------------------
(* Proposals on their way.                                                 *)

\* The i-th instruction to n is to propose t; the i-th frame to n proposes t.
InInstr(n, i, t) ==
    i \in DOMAIN instr[n] /\ i # 0 /\ instr[n][i].kind = "Propose" /\ instr[n][i].terms = t

InChan(n, i, t) ==
    i \in DOMAIN chan[n] /\ i # 0 /\ chan[n][i].kind = "Terms" /\ chan[n][i].terms = t

NoShift == [m \in Node |-> 0]

Shift(n) == [m \in Node |-> IF m = n THEN 1 ELSE 0]

\* The proposal of t enters no queue; a queue may have lost its head.
InstrKept(d, t) == \A n \in Node, i \in Nat : InInstr(n, i, t)' => InInstr(n, i + d[n], t)

ChanKept(d, t) == \A n \in Node, i \in Nat : InChan(n, i, t)' => InChan(n, i + d[n], t)

LEMMA UnchangedKeeps ==
  ASSUME NEW t \in Terms
  PROVE
  /\ UNCHANGED instr => InstrKept(NoShift, t)
  /\ UNCHANGED chan => ChanKept(NoShift, t)
BY DEF InstrKept, ChanKept, NoShift, InInstr, InChan

LEMMA Appended ==
  ASSUME NEW S, NEW s \in Seq(S), NEW f \in S, NEW i \in DOMAIN Append(s, f)
  PROVE  Append(s, f)[i] = f \/ (i \in DOMAIN s /\ Append(s, f)[i] = s[i])
OBVIOUS

LEMMA ConsumeKeeps ==
  ASSUME AgentTypes, NEW n \in Node, NEW t \in Terms, chan[n] # <<>>, Consume(n)
  PROVE  ChanKept(Shift(n), t)
<1>1. SUFFICES ASSUME NEW m \in Node, NEW i \in Nat, InChan(m, i, t)'
               PROVE  InChan(m, i + Shift(n)[m], t)
  BY DEF ChanKept
<1>2. chan \in [Node -> Seq(FrameT)] BY DEF AgentTypes, WorkerTypes
<1>3. CASE m = n
  <2>1. chan'[n] = Tail(chan[n]) BY <1>2 DEF Consume
  <2>2. Shift(n)[m] = 1 BY <1>3 DEF Shift
  <2> QED BY <1>1, <1>2, <1>3, <2>1, <2>2 DEF InChan
<1>4. CASE m # n
  BY <1>1, <1>2, <1>4 DEF InChan, Consume, Shift
<1> QED BY <1>3, <1>4

LEMMA SendKeeps ==
  ASSUME AgentTypes, NEW n \in Node, NEW t \in Terms, NEW f \in FrameT,
         f.kind = "Terms" => f.terms # t, Send(n, f)
  PROVE  ChanKept(NoShift, t)
<1>1. SUFFICES ASSUME NEW m \in Node, NEW i \in Nat, InChan(m, i, t)'
               PROVE  InChan(m, i, t)
  BY DEF ChanKept, NoShift
<1>2. chan \in [Node -> Seq(FrameT)] /\ Other(n) \in Node BY OtherNode DEF AgentTypes, WorkerTypes
<1>3. CASE m = Other(n)
  <2>1. chan'[m] = chan[m] \o Arriving(n, f) BY <1>2, <1>3 DEF Send
  <2>2. chan'[m] = chan[m] \/ chan'[m] = Append(chan[m], f) BY <1>2, <2>1 DEF Arriving
  <2>3. CASE chan'[m] = Append(chan[m], f)
    <3>1. i \in DOMAIN Append(chan[m], f) /\ Append(chan[m], f)[i].kind = "Terms"
          /\ Append(chan[m], f)[i].terms = t
      BY <1>1, <2>3 DEF InChan
    <3>2. i \in DOMAIN chan[m] /\ Append(chan[m], f)[i] = chan[m][i]
      BY <1>2, <3>1, Appended
    <3> QED BY <3>1, <3>2 DEF InChan
  <2> QED BY <1>1, <2>2, <2>3 DEF InChan
<1>4. CASE m # Other(n)
  BY <1>1, <1>2, <1>4 DEF InChan, Send
<1> QED BY <1>3, <1>4

LEMMA AnswerKeeps ==
  ASSUME AgentTypes, NEW n \in Node, NEW t \in Terms, NEW f \in FrameT,
         f.kind = "Terms" => f.terms # t, chan[n] # <<>>,
         Answer(n, f)
  PROVE  ChanKept(Shift(n), t)
<1>1. SUFFICES ASSUME NEW m \in Node, NEW i \in Nat, InChan(m, i, t)'
               PROVE  InChan(m, i + Shift(n)[m], t)
  BY DEF ChanKept
<1>2. chan \in [Node -> Seq(FrameT)] /\ Other(n) \in Node /\ Other(n) # n
  BY OtherNode DEF AgentTypes, WorkerTypes
<1>3. CASE m = n
  <2>1. chan'[n] = Tail(chan[n]) BY <1>2 DEF Answer
  <2>2. Shift(n)[m] = 1 BY <1>3 DEF Shift
  <2> QED BY <1>1, <1>2, <1>3, <2>1, <2>2 DEF InChan
<1>4. CASE m # n
  <2>1. m = Other(n) /\ Shift(n)[m] = 0 BY <1>4, OtherNode DEF Shift
  <2>2. chan'[m] = chan[m] \o Arriving(n, f) BY <1>2, <2>1 DEF Answer
  <2>3. chan'[m] = chan[m] \/ chan'[m] = Append(chan[m], f) BY <1>2, <2>2 DEF Arriving
  <2>4. CASE chan'[m] = Append(chan[m], f)
    <3>1. i \in DOMAIN Append(chan[m], f) /\ Append(chan[m], f)[i].kind = "Terms"
          /\ Append(chan[m], f)[i].terms = t
      BY <1>1, <2>4 DEF InChan
    <3>2. i \in DOMAIN chan[m] /\ Append(chan[m], f)[i] = chan[m][i]
      BY <1>2, <3>1, Appended
    <3> QED BY <2>1, <3>1, <3>2 DEF InChan
  <2> QED BY <1>1, <2>1, <2>3, <2>4 DEF InChan
<1> QED BY <1>3, <1>4

LEMMA InstructedKeeps ==
  ASSUME AgentTypes, NEW n \in Node, NEW t \in Terms, NEW k, Instructed(n, k)
  PROVE  InstrKept(Shift(n), t)
<1>1. SUFFICES ASSUME NEW m \in Node, NEW i \in Nat, InInstr(m, i, t)'
               PROVE  InInstr(m, i + Shift(n)[m], t)
  BY DEF InstrKept
<1>2. instr \in [Node -> Seq(InstrT)] /\ instr[n] # <<>> /\ instr' = [instr EXCEPT ![n] = Tail(@)]
  BY DEF AgentTypes, WorkerTypes, Instructed, Told
<1>3. CASE m = n
  <2>1. instr'[n] = Tail(instr[n]) BY <1>2
  <2>2. Shift(n)[m] = 1 BY <1>3 DEF Shift
  <2> QED BY <1>1, <1>2, <1>3, <2>1, <2>2 DEF InInstr
<1>4. CASE m # n
  BY <1>1, <1>2, <1>4 DEF InInstr, Shift
<1> QED BY <1>3, <1>4

LEMMA TellKeeps ==
  ASSUME AgentTypes, NEW n \in Node, NEW t \in Terms, NEW k \in InstrT,
         k.kind = "Propose" => k.terms # t, Tell(n, k)
  PROVE  InstrKept(NoShift, t)
<1>1. SUFFICES ASSUME NEW m \in Node, NEW i \in Nat, InInstr(m, i, t)'
               PROVE  InInstr(m, i, t)
  BY DEF InstrKept, NoShift
<1>2. instr \in [Node -> Seq(InstrT)] BY DEF AgentTypes, WorkerTypes
<1>3. instr'[m] = instr[m] \/ instr'[m] = Append(instr[m], k) BY <1>2 DEF Tell
<1>4. CASE instr'[m] = Append(instr[m], k)
  <2>1. i \in DOMAIN Append(instr[m], k) /\ i # 0 /\ Append(instr[m], k)[i].kind = "Propose"
        /\ Append(instr[m], k)[i].terms = t
    BY <1>1, <1>4 DEF InInstr
  <2>2. i \in DOMAIN instr[m] /\ Append(instr[m], k)[i] = instr[m][i]
    BY <1>2, <2>1, Appended
  <2> QED BY <2>1, <2>2 DEF InInstr
<1> QED BY <1>1, <1>3, <1>4 DEF InInstr

LEMMA DiesKeeps ==
  ASSUME AgentTypes, NEW n \in Node, NEW t \in Terms, Dies(n)
  PROVE  /\ InstrKept(NoShift, t) /\ ChanKept(NoShift, t)
         /\ \A m \in Node : offer'[m] \in {offer[m], NoTerms}
         /\ UNCHANGED played
<1>1. /\ chan \in [Node -> Seq(FrameT)] /\ instr \in [Node -> Seq(InstrT)]
      /\ offer \in [Node -> AnyTerms]
  BY DEF AgentTypes, WorkerTypes
<1>2. \A m \in Node :
        /\ instr'[m] = instr[m] \/ instr'[m] = <<>>
        /\ chan'[m] = chan[m] \/ chan'[m] = <<>>
  BY <1>1 DEF Dies
<1>3. InstrKept(NoShift, t)
  <2>1. SUFFICES ASSUME NEW m \in Node, NEW i \in Nat, InInstr(m, i, t)'
                 PROVE  InInstr(m, i, t)
    BY DEF InstrKept, NoShift
  <2>2. instr'[m] # <<>> BY <2>1 DEF InInstr
  <2> QED BY <1>2, <2>1, <2>2 DEF InInstr
<1>4. ChanKept(NoShift, t)
  <2>1. SUFFICES ASSUME NEW m \in Node, NEW i \in Nat, InChan(m, i, t)'
                 PROVE  InChan(m, i, t)
    BY DEF ChanKept, NoShift
  <2>2. chan'[m] # <<>> BY <2>1 DEF InChan
  <2> QED BY <1>2, <2>1, <2>2 DEF InChan
<1> QED BY <1>1, <1>3, <1>4 DEF Dies

----------------------------------------------------------------------------
(* No proposal is played twice.                                            *)

\* A bet is in one place at most: in an instruction, in a frame, on offer or
\* played.
SoleFor(t) ==
    /\ \A n, m \in Node, i, j \in Nat : InInstr(n, i, t) /\ InInstr(m, j, t) => n = m /\ i = j
    /\ \A n, m \in Node, i, j \in Nat : InChan(n, i, t) /\ InChan(m, j, t) => n = m /\ i = j
    /\ \A n, m \in Node : offer[n] = t /\ offer[m] = t => n = m
    /\ \A n, m \in Node, i, j \in Nat : ~ (InInstr(n, i, t) /\ InChan(m, j, t))
    /\ \A n, m \in Node, i \in Nat : ~ (InInstr(n, i, t) /\ offer[m] = t)
    /\ \A n, m \in Node, i \in Nat : ~ (InChan(n, i, t) /\ offer[m] = t)
    /\ \A n \in Node, i \in Nat :
          InInstr(n, i, t) \/ InChan(n, i, t) \/ offer[n] = t => played[t] = <<>>
    /\ \A n \in Node, i \in Nat :
          InInstr(n, i, t) \/ InChan(n, i, t) \/ offer[n] = t \/ played[t] # <<>>
              => t <= proposed
    /\ Len(played[t]) <= 1

Sole == \A t \in Terms : SoleFor(t)

LEMMA SoleInit == Init => Sole
BY AgentAssumption, TermsFacts DEF Init, Sole, SoleFor, InInstr, InChan

\* A step that neither makes nor moves nor plays t.
LEMMA SoleKept ==
  ASSUME NEW t \in Terms, SoleFor(t), NEW d, NEW e, InstrKept(d, t), ChanKept(e, t),
         \A n \in Node : d[n] \in Nat /\ e[n] \in Nat,
         \A n \in Node : offer'[n] = t => offer[n] = t,
         played'[t] = played[t],
         t <= proposed => t <= proposed'
  PROVE  SoleFor(t)'
<1>1. \A n \in Node, i \in Nat : InInstr(n, i, t)' => InInstr(n, i + d[n], t) /\ i + d[n] \in Nat
  BY DEF InstrKept
<1>2. \A n \in Node, i \in Nat : InChan(n, i, t)' => InChan(n, i + e[n], t) /\ i + e[n] \in Nat
  BY DEF ChanKept
<1>3. \A n, m \in Node, i, j \in Nat : InInstr(n, i, t)' /\ InInstr(m, j, t)' => n = m /\ i = j
  BY <1>1 DEF SoleFor
<1>4. \A n, m \in Node, i, j \in Nat : InChan(n, i, t)' /\ InChan(m, j, t)' => n = m /\ i = j
  BY <1>2 DEF SoleFor
<1>5. \A n, m \in Node, i, j \in Nat : ~ (InInstr(n, i, t)' /\ InChan(m, j, t)')
  BY <1>1, <1>2 DEF SoleFor
<1>6. \A n \in Node, i \in Nat :
              InInstr(n, i, t)' \/ InChan(n, i, t)' \/ offer'[n] = t => played'[t] = <<>>
  BY <1>1, <1>2 DEF SoleFor
<1>7. \A n \in Node, i \in Nat :
              InInstr(n, i, t)' \/ InChan(n, i, t)' \/ offer'[n] = t \/ played'[t] # <<>>
                  => t <= proposed'
  BY <1>1, <1>2 DEF SoleFor
<1>8. \A n, m \in Node, i \in Nat : ~ (InInstr(n, i, t)' /\ offer'[m] = t)
                                    /\ ~ (InChan(n, i, t)' /\ offer'[m] = t)
  BY <1>1, <1>2 DEF SoleFor
<1>9. Len(played'[t]) <= 1 /\ \A n, m \in Node : offer'[n] = t /\ offer'[m] = t => n = m
  BY DEF SoleFor
<1> QED BY <1>3, <1>4, <1>5, <1>6, <1>7, <1>8, <1>9 DEF SoleFor

LEMMA Shifts ==
  ASSUME NEW n \in Node
  PROVE  \A m \in Node : /\ NoShift[m] \in Nat /\ Shift(n)[m] \in Nat
                         /\ Shift(n)[n] = 1 /\ (m # n => Shift(n)[m] = 0)
BY DEF NoShift, Shift

\* A proposal at the head of a queue that loses its head is in no queue.
LEMMA HeadGone ==
  ASSUME AgentTypes, NEW n \in Node, NEW t \in Terms, SoleFor(t)
  PROVE  /\ InInstr(n, 1, t) /\ InstrKept(Shift(n), t) =>
               \A m \in Node, i \in Nat : ~ InInstr(m, i, t)'
         /\ InChan(n, 1, t) /\ ChanKept(Shift(n), t) =>
               \A m \in Node, i \in Nat : ~ InChan(m, i, t)'
<1>1. ASSUME InInstr(n, 1, t), InstrKept(Shift(n), t), NEW m \in Node, NEW i \in Nat,
             InInstr(m, i, t)'
      PROVE  FALSE
  <2>1. InInstr(m, i + Shift(n)[m], t) /\ i + Shift(n)[m] \in Nat BY <1>1, Shifts DEF InstrKept
  <2>2. m = n /\ i + Shift(n)[m] = 1 BY <1>1, <2>1 DEF SoleFor
  <2>3. i = 0 BY <2>2, Shifts
  <2> QED BY <1>1, <2>3 DEF InInstr
<1>2. ASSUME InChan(n, 1, t), ChanKept(Shift(n), t), NEW m \in Node, NEW i \in Nat,
             InChan(m, i, t)'
      PROVE  FALSE
  <2>1. InChan(m, i + Shift(n)[m], t) /\ i + Shift(n)[m] \in Nat BY <1>2, Shifts DEF ChanKept
  <2>2. m = n /\ i + Shift(n)[m] = 1 BY <1>2, <2>1 DEF SoleFor
  <2>3. i = 0 BY <2>2, Shifts
  <2> QED BY <1>2, <2>3 DEF InChan
<1> QED BY <1>1, <1>2

\* A proposal that enters a queue it was not in is there once.
LEMMA EnteredOnce ==
  ASSUME AgentTypes, NEW n \in Node, NEW t \in Terms
  PROVE  /\ \A f \in FrameT :
               Send(n, f) /\ (\A m \in Node, i \in Nat : ~ InChan(m, i, t)) =>
                   \A m, l \in Node, i, j \in Nat : InChan(m, i, t)' /\ InChan(l, j, t)' => m = l /\ i = j
         /\ \A k \in InstrT :
               Tell(n, k) /\ (\A m \in Node, i \in Nat : ~ InInstr(m, i, t)) =>
                   \A m, l \in Node, i, j \in Nat : InInstr(m, i, t)' /\ InInstr(l, j, t)' => m = l /\ i = j
<1>1. ASSUME NEW f \in FrameT, Send(n, f), \A m \in Node, i \in Nat : ~ InChan(m, i, t),
             NEW m \in Node, NEW i \in Nat, InChan(m, i, t)'
      PROVE  m = Other(n) /\ i = Len(chan[m]) + 1
  <2>1. chan \in [Node -> Seq(FrameT)] /\ Other(n) \in Node
    BY OtherNode DEF AgentTypes, WorkerTypes
  <2>2. chan'[m] # chan[m] BY <1>1 DEF InChan
  <2>3. m = Other(n) BY <1>1, <2>1, <2>2 DEF Send
  <2>4. chan'[m] = chan[m] \o Arriving(n, f) BY <1>1, <2>1, <2>3 DEF Send
  <2>5. chan'[m] = Append(chan[m], f) BY <2>1, <2>2, <2>4 DEF Arriving
  <2>6. i \in 1..(Len(chan[m]) + 1) BY <1>1, <2>1, <2>5 DEF InChan
  <2>7. ASSUME i \in 1..Len(chan[m]) PROVE FALSE
    <3>1. i \in DOMAIN chan[m] /\ Append(chan[m], f)[i] = chan[m][i] BY <2>1, <2>7
    <3> QED BY <1>1, <2>5, <3>1 DEF InChan
  <2> QED BY <2>1, <2>3, <2>6, <2>7
<1>2. ASSUME NEW k \in InstrT, Tell(n, k), \A m \in Node, i \in Nat : ~ InInstr(m, i, t),
             NEW m \in Node, NEW i \in Nat, InInstr(m, i, t)'
      PROVE  m = n /\ i = Len(instr[m]) + 1
  <2>1. instr \in [Node -> Seq(InstrT)] BY DEF AgentTypes, WorkerTypes
  <2>2. instr'[m] # instr[m] BY <1>2 DEF InInstr
  <2>3. m = n /\ instr'[m] = Append(instr[m], k) BY <1>2, <2>1, <2>2 DEF Tell
  <2>4. i \in 1..(Len(instr[m]) + 1) BY <1>2, <2>1, <2>3 DEF InInstr
  <2>5. ASSUME i \in 1..Len(instr[m]) PROVE FALSE
    <3>1. i \in DOMAIN instr[m] /\ Append(instr[m], k)[i] = instr[m][i] BY <2>1, <2>5
    <3> QED BY <1>2, <2>3, <3>1 DEF InInstr
  <2> QED BY <2>1, <2>3, <2>4, <2>5
<1>3. ASSUME NEW f \in FrameT, Send(n, f), \A m \in Node, i \in Nat : ~ InChan(m, i, t)
      PROVE  \A m, l \in Node, i, j \in Nat : InChan(m, i, t)' /\ InChan(l, j, t)' => m = l /\ i = j
  BY <1>1, <1>3
<1>4. ASSUME NEW k \in InstrT, Tell(n, k), \A m \in Node, i \in Nat : ~ InInstr(m, i, t)
      PROVE  \A m, l \in Node, i, j \in Nat : InInstr(m, i, t)' /\ InInstr(l, j, t)' => m = l /\ i = j
  BY <1>2, <1>4
<1> QED BY <1>3, <1>4

\* A step that takes no proposal anywhere.
LEMMA SoleQuiet ==
  ASSUME AgentTypes, Sole, NEW n \in Node,
         \/ Accept(n) \/ Reject(n) \/ SetConfig(n) \/ Quit(n) \/ HandleWorker(n)
         \/ AutoReject(n) \/ IgnoreFrame(n) \/ PollNothing(n) \/ PeerGone(n) \/ Exit(n)
         \/ ObeyNothing(n) \/ DoAcceptNothing(n) \/ DoReject(n) \/ DoConfig(n) \/ DoQuit(n)
         \/ BetStep(n)
  PROVE  Sole'
<1> SUFFICES ASSUME NEW t \in Terms PROVE SoleFor(t)' BY DEF Sole
<1> USE Shifts DEF Sole
<1>1. ASSUME NEW d, NEW e, InstrKept(d, t), ChanKept(e, t),
             \A m \in Node : d[m] \in Nat /\ e[m] \in Nat,
             offer' = offer \/ offer' = [offer EXCEPT ![n] = NoTerms],
             UNCHANGED <<played, proposed>>
      PROVE  SoleFor(t)'
  <2>1. \A m \in Node : offer'[m] = t => offer[m] = t
    BY <1>1, TermsFacts DEF AgentTypes, WorkerTypes
  <2> QED BY <1>1, <2>1, SoleKept
<1>2. Frame("REJECT", NoTerms) \in FrameT /\ Frame("REJECT", NoTerms).kind # "Terms"
  BY Typed DEF Frame
<1>3. \A k \in {"Accept", "Reject", "Quit"} :
          Instr(k, NoTerms) \in InstrT /\ Instr(k, NoTerms).kind # "Propose"
  BY Typed DEF Instr, InstrKind
<1>4. \A auto \in BOOLEAN : Configured(auto) \in InstrT /\ Configured(auto).kind # "Propose"
  BY Typed DEF Configured, Instr
<1>5. CASE Accept(n) \/ Reject(n) \/ SetConfig(n) \/ Quit(n)
  <2>1. InstrKept(NoShift, t)
    BY <1>3, <1>4, <1>5, TellKeeps DEF Accept, Reject, SetConfig, Quit
  <2>2. ChanKept(NoShift, t) /\ UNCHANGED <<offer, played, proposed>>
    BY <1>5, UnchangedKeeps DEF Accept, Reject, SetConfig, Quit, CoreOnly, Decide, Setting
  <2> QED BY <1>1, <2>1, <2>2
<1>6. CASE HandleWorker(n)
  BY <1>1, <1>6, UnchangedKeeps DEF HandleWorker
<1>7. CASE AutoReject(n) \/ IgnoreFrame(n)
  <2>1. ChanKept(Shift(n), t)
    BY <1>2, <1>7, AnswerKeeps, ConsumeKeeps DEF AutoReject, IgnoreFrame, Proposal
  <2> QED BY <1>1, <1>7, <2>1, UnchangedKeeps
      DEF AutoReject, IgnoreFrame, WorkerOnly, Leaves
<1>8. CASE PollNothing(n) \/ ObeyNothing(n)
  BY <1>1, <1>8, UnchangedKeeps DEF PollNothing, ObeyNothing, WorkerOnly, Leaves
<1>9. CASE PeerGone(n) \/ Exit(n) \/ DoQuit(n)
  <2>1. Dies(n) /\ UNCHANGED proposed BY <1>9 DEF PeerGone, Exit, DoQuit, WorkerOnly, Leaves
  <2>2. UNCHANGED played /\ offer' = [offer EXCEPT ![n] = NoTerms] BY <2>1 DEF Dies
  <2> QED BY <1>1, <2>1, <2>2, DiesKeeps
<1>10. CASE DoAcceptNothing(n) \/ DoReject(n) \/ DoConfig(n)
  <2>1. InstrKept(Shift(n), t)
    BY <1>10, InstructedKeeps DEF DoAcceptNothing, DoReject, DoConfig
  <2>2. ChanKept(NoShift, t)
    BY <1>2, <1>10, SendKeeps, UnchangedKeeps DEF DoAcceptNothing, DoReject, DoConfig
  <2>3. offer' = offer \/ offer' = [offer EXCEPT ![n] = NoTerms]
    BY <1>10 DEF DoAcceptNothing, DoReject, DoConfig
  <2>4. UNCHANGED <<played, proposed>>
    BY <1>10 DEF DoAcceptNothing, DoReject, DoConfig, WorkerOnly, Leaves
  <2> QED BY <1>1, <2>1, <2>2, <2>3, <2>4
<1>11. CASE ProposalAccepted(n) \/ ProposalDeclined(n) \/ SessionReceive(n) \/ SessionWrongFrame(n)
  <2>1. chan[n] # <<>> /\ Consume(n) /\ InBet
    BY <1>11 DEF ProposalAccepted, ProposalDeclined, SessionReceive, SessionWrongFrame, Receives
  <2>2. ChanKept(Shift(n), t) BY <2>1, ConsumeKeeps
  <2> QED BY <1>1, <2>1, <2>2, UnchangedKeeps DEF InBet, WorkerOnly, Leaves
<1>12. CASE ProposalTimeout(n) \/ SessionError(n) \/ SessionOutcome(n)
  BY <1>1, <1>12, UnchangedKeeps
  DEF ProposalTimeout, SessionError, SessionOutcome, InBet, WorkerOnly, Leaves
<1>13. CASE SessionSend(n)
  <2>1. PICK f \in FrameT : f.kind # "Terms" /\ Send(n, f) BY <1>13, SentFrame DEF SessionSend
  <2>2. ChanKept(NoShift, t) BY <2>1, SendKeeps
  <2> QED BY <1>1, <1>13, <2>2, UnchangedKeeps DEF SessionSend
<1> QED BY <1>5, <1>6, <1>7, <1>8, <1>9, <1>10, <1>11, <1>12, <1>13 DEF BetStep

\* A proposal at the head of its queue.
LEMMA AtHead ==
  ASSUME AgentTypes, NEW n \in Node
  PROVE  /\ Proposal(n) => First(n).terms \in Terms /\ InChan(n, 1, First(n).terms)
         /\ Instructed(n, "Propose") =>
               Head(instr[n]).terms \in Terms /\ InInstr(n, 1, Head(instr[n]).terms)
<1>1. chan[n] \in Seq(FrameT) /\ instr[n] \in Seq(InstrT) BY DEF AgentTypes, WorkerTypes
<1>2. ASSUME Proposal(n) PROVE First(n).terms \in Terms /\ InChan(n, 1, First(n).terms)
  <2>1. chan[n] # <<>> /\ First(n).kind = "Terms" /\ First(n) \in FrameT
    BY <1>2, Typed, ChanTyped DEF Proposal
  <2>2. 1 \in DOMAIN chan[n] /\ chan[n][1] = First(n) BY <1>1, <2>1 DEF First
  <2> QED BY <2>1, <2>2 DEF InChan, FrameT
<1>3. ASSUME Instructed(n, "Propose")
      PROVE  Head(instr[n]).terms \in Terms /\ InInstr(n, 1, Head(instr[n]).terms)
  <2>1. instr[n] # <<>> /\ Head(instr[n]).kind = "Propose" /\ Head(instr[n]) \in InstrT
    BY <1>3, InstrTyped DEF Instructed, Told
  <2>2. 1 \in DOMAIN instr[n] /\ instr[n][1] = Head(instr[n]) BY <1>1, <2>1
  <2> QED BY <2>1, <2>2 DEF InInstr, InstrT
<1> QED BY <1>2, <1>3

LEMMA SolePropose ==
  ASSUME AgentTypes, Sole, NEW n \in Node, Propose(n)
  PROVE  Sole'
<1> DEFINE p == proposed + 1
           k == Instr("Propose", p)
<1>1. p \in Terms /\ p > proposed /\ proposed \in Nat /\ proposed' = p
  BY AgentAssumption DEF Propose, AgentTypes, CoreTypes, Terms
<1>2. k \in InstrT /\ k.kind = "Propose" /\ k.terms = p /\ Tell(n, k)
  BY <1>1, Typed DEF Instr, Propose
<1>3. UNCHANGED <<chan, offer, played>> BY DEF Propose, CoreOnly
<1> HIDE DEF p, k
<1>4. SUFFICES ASSUME NEW t \in Terms PROVE SoleFor(t)' BY DEF Sole
<1>5. SoleFor(t) /\ t \in Nat /\ p \in Nat BY <1>1, TermsFacts DEF Sole
<1>6. CASE t # p
  <2>1. InstrKept(NoShift, t) BY <1>2, <1>6, TellKeeps
  <2>2. ChanKept(NoShift, t) BY <1>3, UnchangedKeeps
  <2>3. t <= proposed => t <= proposed' BY <1>1, <1>5
  <2> QED BY <1>3, <1>5, <2>1, <2>2, <2>3, Shifts, SoleKept
<1>7. CASE t = p
  <2>1. ~ (t <= proposed) /\ t <= proposed' BY <1>1, <1>5, <1>7
  <2>2. \A m \in Node, i \in Nat : ~ InInstr(m, i, t) /\ ~ InChan(m, i, t) BY <1>5, <2>1 DEF SoleFor
  <2>3. (\A m \in Node : offer[m] # t) /\ played[t] = <<>> BY <1>5, <2>1 DEF SoleFor
  <2>4. \A m, l \in Node, i, j \in Nat : InInstr(m, i, t)' /\ InInstr(l, j, t)' => m = l /\ i = j
    BY <1>2, <2>2, EnteredOnce
  <2>5. \A m \in Node, i \in Nat : ~ InChan(m, i, t)' BY <1>3, <2>2 DEF InChan
  <2>6. (\A m \in Node : offer'[m] # t) /\ played'[t] = <<>> BY <1>3, <2>3
  <2> QED BY <2>1, <2>4, <2>5, <2>6 DEF SoleFor
<1> QED BY <1>6, <1>7

LEMMA SoleStartProposing ==
  ASSUME AgentTypes, Sole, NEW n \in Node, StartProposing(n)
  PROVE  Sole'
<1> DEFINE p == Head(instr[n]).terms
           f == Frame("Terms", p)
<1>1. p \in Terms /\ InInstr(n, 1, p)
  BY AtHead DEF StartProposing
<1>2. f \in FrameT /\ f.kind = "Terms" /\ f.terms = p BY <1>1, Typed DEF Frame
<1>3. UNCHANGED <<offer, played, proposed>> BY DEF StartProposing, WorkerOnly, Leaves
<1>4. Send(n, f) \/ UNCHANGED chan BY DEF StartProposing
<1> HIDE DEF p, f
<1>5. SUFFICES ASSUME NEW t \in Terms PROVE SoleFor(t)' BY DEF Sole
<1>6. SoleFor(t) /\ InstrKept(Shift(n), t) BY InstructedKeeps DEF Sole, StartProposing
<1>7. CASE t # p
  <2>1. ChanKept(NoShift, t) BY <1>2, <1>4, <1>7, SendKeeps, UnchangedKeeps
  <2> QED BY <1>3, <1>6, <2>1, Shifts, SoleKept
<1>8. CASE t = p
  <2>1. \A m \in Node, i \in Nat : ~ InInstr(m, i, t)' BY <1>1, <1>6, <1>8, HeadGone
  <2>2. /\ \A m \in Node, i \in Nat : ~ InChan(m, i, t)
        /\ \A m \in Node : offer[m] # t
        /\ played[t] = <<>> /\ t <= proposed
    BY <1>1, <1>6, <1>8 DEF SoleFor
  <2>3. \A m, l \in Node, i, j \in Nat : InChan(m, i, t)' /\ InChan(l, j, t)' => m = l /\ i = j
    <3>1. CASE Send(n, f) BY <1>2, <2>2, <3>1, EnteredOnce
    <3>2. CASE UNCHANGED chan BY <2>2, <3>2 DEF InChan
    <3> QED BY <1>4, <3>1, <3>2
  <2> QED BY <1>3, <2>1, <2>2, <2>3 DEF SoleFor
<1> QED BY <1>7, <1>8

LEMMA SoleAskOperator ==
  ASSUME AgentTypes, Sole, NEW n \in Node, AskOperator(n)
  PROVE  Sole'
<1> DEFINE p == First(n).terms
<1>1. p \in Terms /\ InChan(n, 1, p)
  BY AtHead DEF AskOperator
<1>2. UNCHANGED <<instr, played, proposed>> /\ offer' = [offer EXCEPT ![n] = p]
  BY DEF AskOperator, WorkerOnly, Leaves
<1>3. offer \in [Node -> AnyTerms] BY DEF AgentTypes, WorkerTypes
<1> HIDE DEF p
<1>4. SUFFICES ASSUME NEW t \in Terms PROVE SoleFor(t)' BY DEF Sole
<1>5. SoleFor(t) /\ ChanKept(Shift(n), t) BY ConsumeKeeps DEF Sole, AskOperator, Proposal
<1>6. CASE t # p
  <2>1. InstrKept(NoShift, t) BY <1>2, UnchangedKeeps
  <2>2. \A m \in Node : offer'[m] = t => offer[m] = t BY <1>2, <1>3, <1>6
  <2> QED BY <1>2, <1>5, <2>1, <2>2, Shifts, SoleKept
<1>7. CASE t = p
  <2>1. \A m \in Node, i \in Nat : ~ InChan(m, i, t)' BY <1>1, <1>5, <1>7, HeadGone
  <2>2. /\ \A m \in Node, i \in Nat : ~ InInstr(m, i, t)
        /\ \A m \in Node : offer[m] # t
        /\ played[t] = <<>> /\ t <= proposed
    BY <1>1, <1>5, <1>7 DEF SoleFor
  <2>3. \A m \in Node, i \in Nat : ~ InInstr(m, i, t)' BY <1>2, <2>2 DEF InInstr
  <2>4. \A m \in Node : offer'[m] = t => m = n BY <1>2, <1>3, <2>2
  <2>5. played'[t] = <<>> /\ t <= proposed' BY <1>2, <2>2
  <2> QED BY <2>1, <2>3, <2>4, <2>5 DEF SoleFor
<1> QED BY <1>6, <1>7

\* A proposal that is played was on the way to its player only, and is no more.
LEMMA SolePlayed ==
  ASSUME AgentTypes, Sole, NEW n \in Node, NEW p \in Terms, NEW by,
         played[p] = <<>>, p <= proposed, UNCHANGED proposed,
         played' = [played EXCEPT ![p] = Append(@, by)] \/ UNCHANGED played,
         \A m \in Node, i \in Nat : ~ InInstr(m, i, p)' /\ ~ InChan(m, i, p)',
         \A m \in Node : offer'[m] # p,
         NEW d, NEW e, \A m \in Node : d[m] \in Nat /\ e[m] \in Nat,
         \A t \in Terms : InstrKept(d, t) /\ ChanKept(e, t),
         \A m \in Node : offer'[m] \in {offer[m], NoTerms}
  PROVE  Sole'
<1>1. SUFFICES ASSUME NEW t \in Terms PROVE SoleFor(t)' BY DEF Sole
<1>2. SoleFor(t) BY DEF Sole
<1>3. played \in [Terms -> Seq({"operator", "policy"})] BY DEF AgentTypes, WorkerTypes
<1>4. CASE t # p
  <2>1. \A m \in Node : offer'[m] = t => offer[m] = t BY TermsFacts
  <2>2. played'[t] = played[t] BY <1>3, <1>4
  <2> QED BY <1>2, <2>1, <2>2, SoleKept
<1>5. CASE t = p
  <2>1. played'[t] = <<>> \/ played'[t] = Append(<<>>, by) BY <1>3, <1>5
  <2>2. Len(Append(<<>>, by)) = 1 /\ Len(<<>>) = 0 OBVIOUS
  <2>3. Len(played'[t]) \in {0, 1}
    <3>1. CASE played'[t] = <<>> BY <2>2, <3>1
    <3>2. CASE played'[t] = Append(<<>>, by) BY <2>2, <3>2
    <3> QED BY <2>1, <3>1, <3>2
  <2>4. \A x \in {0, 1} : x <= 1 OBVIOUS
  <2>5. Len(played'[t]) <= 1 BY <2>3, <2>4, Zenon
  <2> QED BY <1>5, <2>5 DEF SoleFor
<1> QED BY <1>4, <1>5

LEMMA SoleAutoAccept ==
  ASSUME AgentTypes, Sole, NEW n \in Node, AutoAccept(n)
  PROVE  Sole'
<1>1. PICK p \in Terms : p = First(n).terms /\ InChan(n, 1, p) BY AtHead DEF AutoAccept
<1>2. Frame("ACCEPT", NoTerms) \in FrameT /\ Frame("ACCEPT", NoTerms).kind # "Terms"
  BY Typed DEF Frame
<1>3. \A t \in Terms : ChanKept(Shift(n), t)
  BY <1>2, AnswerKeeps, ConsumeKeeps DEF AutoAccept, Proposal
<1>4. UNCHANGED <<instr, offer, proposed>> BY DEF AutoAccept, WorkerOnly, Leaves
<1>5. played' = [played EXCEPT ![p] = Append(@, "policy")] \/ UNCHANGED played
  BY <1>1 DEF AutoAccept, StartPlayer
<1>6. SoleFor(p) BY <1>1 DEF Sole
<1>7. \A m \in Node, i \in Nat : ~ InChan(m, i, p)' BY <1>1, <1>3, <1>6, HeadGone
<1>8. /\ \A m \in Node, i \in Nat : ~ InInstr(m, i, p)
      /\ \A m \in Node : offer[m] # p
      /\ played[p] = <<>> /\ p <= proposed
  BY <1>1, <1>6 DEF SoleFor
<1>9. \A m \in Node, i \in Nat : ~ InInstr(m, i, p)' BY <1>4, <1>8 DEF InInstr
<1>10. \A t \in Terms : InstrKept(NoShift, t) BY <1>4, UnchangedKeeps
<1> QED BY <1>1, <1>3, <1>4, <1>5, <1>7, <1>8, <1>9, <1>10, Shifts, SolePlayed

LEMMA SoleDoAccept ==
  ASSUME AgentTypes, Sole, NEW n \in Node, DoAccept(n)
  PROVE  Sole'
<1>1. PICK p \in Terms : p = offer[n] BY TermsFacts DEF DoAccept, AgentTypes, WorkerTypes
<1>2. offer \in [Node -> AnyTerms] /\ offer' = [offer EXCEPT ![n] = NoTerms]
  BY DEF DoAccept, AgentTypes, WorkerTypes
<1>3. Frame("ACCEPT", NoTerms) \in FrameT /\ Frame("ACCEPT", NoTerms).kind # "Terms"
  BY Typed DEF Frame
<1>4. \A t \in Terms : InstrKept(Shift(n), t) /\ ChanKept(NoShift, t)
  BY <1>3, InstructedKeeps, SendKeeps, UnchangedKeeps DEF DoAccept
<1>5. UNCHANGED proposed BY DEF DoAccept, WorkerOnly, Leaves
<1>6. played' = [played EXCEPT ![p] = Append(@, "operator")] \/ UNCHANGED played
  BY <1>1 DEF DoAccept, StartPlayer
<1>7. SoleFor(p) BY <1>1 DEF Sole
<1>8. /\ \A m \in Node, i \in Nat : ~ InInstr(m, i, p) /\ ~ InChan(m, i, p)
      /\ \A m \in Node : offer[m] = p => m = n
      /\ played[p] = <<>> /\ p <= proposed
  BY <1>1, <1>7 DEF SoleFor
<1>9. \A m \in Node, i \in Nat : ~ InInstr(m, i, p)' /\ ~ InChan(m, i, p)'
  <2>1. \A m \in Node : Shift(n)[m] \in Nat /\ NoShift[m] \in Nat BY Shifts
  <2>2. InstrKept(Shift(n), p) /\ ChanKept(NoShift, p) BY <1>4
  <2> QED BY <1>8, <2>1, <2>2, SMTT(30) DEF InstrKept, ChanKept
<1>10. (\A m \in Node : offer'[m] # p) /\ \A m \in Node : offer'[m] \in {offer[m], NoTerms}
  BY <1>1, <1>8, <1>2, TermsFacts
<1> QED BY <1>1, <1>4, <1>5, <1>6, <1>8, <1>9, <1>10, Shifts, SolePlayed

LEMMA SoleStep == AgentTypes /\ Sole /\ [Next]_vars => Sole'
<1> SUFFICES ASSUME AgentTypes, Sole, [Next]_vars PROVE Sole' OBVIOUS
<1>1. CASE UNCHANGED vars BY <1>1 DEF vars, Sole, SoleFor, InInstr, InChan
<1>2. ASSUME NEW n \in Node, CoreStep(n) \/ LoopStep(n) \/ BetStep(n) PROVE Sole'
  BY <1>2, SoleQuiet, SolePropose, SoleStartProposing, SoleAskOperator, SoleAutoAccept,
     SoleDoAccept
  DEF CoreStep, LoopStep
<1> QED BY <1>1, <1>2 DEF Next

LEMMA SoleAlways == Spec => []Sole
BY SoleInit, SoleStep, TypesAlways, PTL DEF Spec

\* No proposal is played twice, however often the operators repeat themselves
\* and however late the frames are: it is in one place at a time until then.
THEOREM NeverPlayedTwice == Spec => []PlayedOnce
<1>1. Sole => PlayedOnce BY DEF Sole, SoleFor, PlayedOnce
<1> QED BY <1>1, SoleAlways, PTL

----------------------------------------------------------------------------
(* A dealer signs a bet that its peer signed as the player.                *)

\* The player of t has signed, whoever reads it.
PlayerSigned(n, t) == <<Other(n), "player", t>> \in signed

SignedFrames ==
    \A n \in Node : \A i \in DOMAIN chan[n] :
        chan[n][i].kind = "FundSign" => PlayerSigned(n, chan[n][i].terms)

\* The dealer is past FundSign.
SignedSessions ==
    \A n \in Node :
        worker[n].at = "dealer" /\ worker[n].step > 7 => PlayerSigned(n, worker[n].terms)

SignInv == SignedFrames /\ SignedSessions /\ SignedTogether

LEMMA SignInit == Init => SignInv
BY DEF Init, SignInv, SignedFrames, SignedSessions, SignedTogether, Idle, Doing

\* What is in a channel was there before, or was just sent.
FramesFrom(n, f) ==
    \A m \in Node : \A i \in DOMAIN chan'[m] :
        \/ \E j \in DOMAIN chan[m] : chan'[m][i] = chan[m][j]
        \/ m = Other(n) /\ chan'[m][i] = f

LEMMA FramesComeFrom ==
  ASSUME AgentTypes, NEW n \in Node, NEW f \in FrameT,
         \/ Send(n, f) \/ UNCHANGED chan \/ Dies(n)
         \/ chan[n] # <<>> /\ (Consume(n) \/ Answer(n, f))
  PROVE  FramesFrom(n, f)
<1>1. SUFFICES ASSUME NEW m \in Node, NEW i \in DOMAIN chan'[m]
               PROVE  \/ \E j \in DOMAIN chan[m] : chan'[m][i] = chan[m][j]
                      \/ m = Other(n) /\ chan'[m][i] = f
  BY DEF FramesFrom
<1>2. chan \in [Node -> Seq(FrameT)] /\ Other(n) \in Node /\ Other(n) # n
  BY OtherNode DEF AgentTypes, WorkerTypes
<1>3. CASE chan'[m] = chan[m] BY <1>3
<1>4. CASE chan'[m] = <<>> BY <1>4
<1>5. CASE m = n /\ chan[n] # <<>> /\ chan'[m] = Tail(chan[m])
  <2>1. i + 1 \in DOMAIN chan[m] /\ Tail(chan[m])[i] = chan[m][i + 1] BY <1>2, <1>5
  <2> QED BY <1>5, <2>1
<1>6. CASE m = Other(n) /\ chan'[m] = Append(chan[m], f)
  BY <1>2, <1>6, Appended
<1>7. chan[m] \o Arriving(n, f) \in {chan[m], Append(chan[m], f)} BY <1>2 DEF Arriving
<1>8. \/ chan'[m] = chan[m] \/ chan'[m] = <<>>
      \/ m = n /\ chan[n] # <<>> /\ chan'[m] = Tail(chan[m])
      \/ m = Other(n) /\ chan'[m] = Append(chan[m], f)
  <2>1. CASE Send(n, f) BY <1>2, <1>7, <2>1 DEF Send
  <2>2. CASE UNCHANGED chan \/ Dies(n) BY <1>2, <2>2 DEF Dies
  <2>3. CASE chan[n] # <<>> /\ Consume(n) BY <1>2, <2>3 DEF Consume
  <2>4. CASE chan[n] # <<>> /\ Answer(n, f) BY <1>2, <1>7, <2>4 DEF Answer
  <2> QED BY <2>1, <2>2, <2>3, <2>4
<1> QED BY <1>3, <1>4, <1>5, <1>6, <1>8

\* A step that signs nothing and starts or ends sessions, if it touches any.
LEMMA SignKept ==
  ASSUME AgentTypes, SignInv, NEW n \in Node, NEW f \in FrameT, f.kind # "FundSign",
         FramesFrom(n, f), UNCHANGED signed,
         NEW d, Become(n, d) \/ UNCHANGED worker,
         d.at = "dealer" /\ d.step > 7 => PlayerSigned(n, d.terms)
  PROVE  SignInv'
<1>1. SignedFrames' BY DEF SignInv, SignedFrames, PlayerSigned, FramesFrom
<1>2. \A m \in Node : worker'[m] = worker[m] \/ (m = n /\ worker'[m] = d)
  BY DEF AgentTypes, WorkerTypes, Become
<1>3. SignedSessions' BY <1>2 DEF SignInv, SignedSessions, PlayerSigned
<1>4. SignedTogether' BY DEF SignInv, SignedTogether
<1> QED BY <1>1, <1>3, <1>4 DEF SignInv

LEMMA SignSend ==
  ASSUME AgentTypes, SignInv, NEW n \in Node, SessionSend(n)
  PROVE  SignInv'
<1> DEFINE t == worker[n].terms
           f == Frame(Line(n).kind, t)
<1>1. /\ worker[n] \in Playing /\ worker[n].step \in 1..9 /\ Line(n).terms = worker[n].at
      /\ worker[n].at \in Role
  BY PlayingTyped, ScriptFacts DEF SessionSend, Sends, InScript, Playing
<1>2. /\ Line(n).kind = "FundSign" <=> worker[n].step = 7
      /\ Line(n).kind = "FundFinal" <=> worker[n].step = 8
      /\ worker[n].step = 7 => worker[n].at = "player"
      /\ worker[n].step = 8 => worker[n].at = "dealer"
  BY <1>1, ScriptFacts DEF Line
<1>3. f \in FrameT /\ f.kind = Line(n).kind /\ f.terms = t
  BY SentFrame DEF SessionSend, Frame
<1>4. FramesFrom(n, f) BY <1>3, FramesComeFrom DEF SessionSend
<1>5. signed \subseteq signed' BY DEF SessionSend
<1>6. /\ worker[n].step = 7 => signed' = signed \union {<<n, "player", t>>}
      /\ worker[n].step = 8 => signed' = signed \union {<<n, "dealer", t>>}
      /\ worker[n].step \notin {7, 8} => signed' = signed
  BY <1>2 DEF SessionSend
<1>7. SignedFrames'
  <2>1. SUFFICES ASSUME NEW m \in Node, NEW i \in DOMAIN chan'[m], chan'[m][i].kind = "FundSign"
                 PROVE  <<Other(m), "player", chan'[m][i].terms>> \in signed'
    BY DEF SignedFrames, PlayerSigned
  <2>2. CASE \E j \in DOMAIN chan[m] : chan'[m][i] = chan[m][j]
    BY <1>5, <2>1, <2>2 DEF SignInv, SignedFrames, PlayerSigned
  <2>3. CASE m = Other(n) /\ chan'[m][i] = f
    <3>1. worker[n].step = 7 /\ Other(m) = n BY <1>2, <1>3, <2>1, <2>3, OtherNode
    <3> QED BY <1>3, <1>6, <2>3, <3>1
  <2> QED BY <1>4, <2>2, <2>3 DEF FramesFrom
<1>8. SignedSessions'
  <2>1. SUFFICES ASSUME NEW m \in Node, worker'[m].at = "dealer", worker'[m].step > 7
                 PROVE  <<Other(m), "player", worker'[m].terms>> \in signed'
    BY DEF SignedSessions, PlayerSigned
  <2>2. CASE m # n
    <3>1. worker'[m] = worker[m]
      BY <2>2 DEF SessionSend, Advance, Become, AgentTypes, WorkerTypes
    <3> QED BY <1>5, <2>1, <3>1 DEF SignInv, SignedSessions, PlayerSigned
  <2>3. CASE m = n
    <3>1. worker'[n] = [worker[n] EXCEPT !.step = @ + 1, !.heard = worker[n].heard]
      BY DEF SessionSend, Advance, Become, AgentTypes, WorkerTypes
    <3>2. worker'[n].at = worker[n].at /\ worker'[n].terms = t /\ worker'[n].step = worker[n].step + 1
      BY <1>1, <3>1 DEF Playing
    <3>3. worker[n].at = "dealer" /\ worker[n].step > 7 BY <1>1, <1>2, <2>1, <2>3, <3>2
    <3>4. <<Other(n), "player", t>> \in signed
      BY <3>3 DEF SignInv, SignedSessions, PlayerSigned
    <3> QED BY <1>5, <2>3, <3>2, <3>4
  <2> QED BY <2>2, <2>3
<1>9. SignedTogether'
  <2>1. SUFFICES ASSUME NEW m \in Node, NEW u \in Terms, <<m, "dealer", u>> \in signed'
                 PROVE  <<Other(m), "player", u>> \in signed'
    BY DEF SignedTogether
  <2>2. CASE <<m, "dealer", u>> \in signed BY <1>5, <2>1, <2>2 DEF SignInv, SignedTogether
  <2>3. CASE <<m, "dealer", u>> \notin signed
    <3>1. worker[n].step = 8 /\ m = n /\ u = t BY <1>6, <2>1, <2>3
    <3>2. worker[n].at = "dealer" /\ worker[n].step > 7 BY <1>2, <3>1
    <3>3. <<Other(n), "player", t>> \in signed
      BY <3>2 DEF SignInv, SignedSessions, PlayerSigned
    <3> QED BY <1>5, <3>1, <3>3
  <2> QED BY <2>2, <2>3
<1> QED BY <1>7, <1>8, <1>9 DEF SignInv

LEMMA SignReceive ==
  ASSUME AgentTypes, SignInv, NEW n \in Node, SessionReceive(n)
  PROVE  SignInv'
<1> DEFINE d == [worker[n] EXCEPT !.step = @ + 1, !.heard = First(n).terms]
           f == Frame("REJECT", NoTerms)
<1>1. /\ worker[n] \in Playing /\ worker[n].step \in 1..9 /\ Line(n).terms # worker[n].at
      /\ chan[n] # <<>> /\ First(n).kind = Line(n).kind
      /\ Scrutinised(n, First(n).kind, First(n).terms)
  BY PlayingTyped, ScriptFacts DEF SessionReceive, Receives, InScript, Playing
<1>2. f \in FrameT /\ f.kind # "FundSign" BY Typed DEF Frame
<1>3. FramesFrom(n, f) BY <1>1, <1>2, FramesComeFrom DEF SessionReceive
<1>4. UNCHANGED signed /\ Become(n, d) BY DEF SessionReceive, Advance, InBet, WorkerOnly, Leaves
<1>5. d.at = worker[n].at /\ d.terms = worker[n].terms /\ d.step = worker[n].step + 1
  BY <1>1 DEF Playing
<1>6. ASSUME worker[n].at = "dealer", worker[n].step > 6 PROVE PlayerSigned(n, worker[n].terms)
  <2>1. CASE worker[n].step > 7 BY <1>6, <2>1 DEF SignInv, SignedSessions
  <2>2. CASE worker[n].step = 7
    <3>1. First(n).kind = "FundSign" BY <1>1, <2>2, ScriptFacts DEF Line
    <3>2. First(n).terms = worker[n].terms BY <1>1, <3>1 DEF Scrutinised
    <3>3. 1 \in DOMAIN chan[n] /\ chan[n][1] = First(n)
      BY <1>1 DEF First, AgentTypes, WorkerTypes
    <3> QED BY <3>1, <3>2, <3>3 DEF SignInv, SignedFrames
  <2> QED BY <1>1, <1>6, <2>1, <2>2
<1> HIDE DEF d, f
<1>7. d.at = "dealer" /\ d.step > 7 => PlayerSigned(n, d.terms) BY <1>1, <1>5, <1>6
<1> QED BY <1>2, <1>3, <1>4, <1>7, SignKept

LEMMA SignStep == AgentTypes /\ SignInv /\ [Next]_vars => SignInv'
<1> SUFFICES ASSUME AgentTypes, SignInv, [Next]_vars PROVE SignInv' OBVIOUS
<1>1. CASE UNCHANGED vars
  BY <1>1 DEF vars, SignInv, SignedFrames, SignedSessions, SignedTogether, PlayerSigned
<1>2. ASSUME NEW n \in Node, CoreStep(n) \/ LoopStep(n) \/ BetStep(n) PROVE SignInv'
  <2>1. /\ Frame("ACCEPT", NoTerms) \in FrameT /\ Frame("ACCEPT", NoTerms).kind # "FundSign"
        /\ Frame("REJECT", NoTerms) \in FrameT /\ Frame("REJECT", NoTerms).kind # "FundSign"
        /\ \A t \in Terms : Frame("Terms", t) \in FrameT /\ Frame("Terms", t).kind # "FundSign"
    BY Typed DEF Frame
  <2>2. ASSUME NEW f \in FrameT, f.kind # "FundSign", FramesFrom(n, f), UNCHANGED signed,
               \/ UNCHANGED worker \/ Become(n, Idle) \/ Become(n, Gone)
               \/ \E t, r : Play(n, t, r) \/ Become(n, Doing("proposing", t, 0, NoTerms))
        PROVE  SignInv'
    <3>1. ASSUME NEW d, Become(n, d) \/ UNCHANGED worker, d.at # "dealer" \/ d.step \in {0, 1}
          PROVE  SignInv'
      BY <2>2, <3>1, SignKept
    <3>2. CASE UNCHANGED worker \/ Become(n, Idle)
      BY <3>1, <3>2 DEF Idle, Doing
    <3>3. CASE Become(n, Gone)
      BY <3>1, <3>3 DEF Gone, Doing
    <3>4. ASSUME NEW t, NEW r, Play(n, t, r) PROVE SignInv'
      <4>1. Doing(r, t, 1, NoTerms).step = 1 BY DEF Doing
      <4> QED BY <3>1, <3>4, <4>1 DEF Play
    <3>5. ASSUME NEW t, Become(n, Doing("proposing", t, 0, NoTerms)) PROVE SignInv'
      <4>1. Doing("proposing", t, 0, NoTerms).step = 0 BY DEF Doing
      <4> QED BY <3>1, <3>5, <4>1
    <3> QED BY <2>2, <3>2, <3>3, <3>4, <3>5
  <2>3. CASE CoreStep(n)
    <3>1. UNCHANGED <<chan, worker, signed>>
      BY <2>3 DEF CoreStep, Propose, Accept, Reject, SetConfig, Quit, HandleWorker, CoreOnly
    <3> QED BY <2>1, <2>2, <3>1, FramesComeFrom
  <2>4. CASE AskOperator(n) \/ AutoReject(n) \/ IgnoreFrame(n)
    <3>1. UNCHANGED <<worker, signed>>
      BY <2>4 DEF AskOperator, AutoReject, IgnoreFrame, WorkerOnly, Leaves
    <3>2. chan[n] # <<>> /\ (Consume(n) \/ Answer(n, Frame("REJECT", NoTerms)))
      BY <2>4 DEF AskOperator, AutoReject, IgnoreFrame, Proposal
    <3>3. FramesFrom(n, Frame("REJECT", NoTerms)) BY <2>1, <3>2, FramesComeFrom
    <3> QED BY <2>1, <2>2, <3>1, <3>3
  <2>5. CASE AutoAccept(n)
    <3>1. UNCHANGED signed /\ (UNCHANGED worker \/ \E t, r : Play(n, t, r))
      BY <2>5 DEF AutoAccept, StartPlayer, WorkerOnly, Leaves
    <3>2. chan[n] # <<>> /\ (Consume(n) \/ Answer(n, Frame("ACCEPT", NoTerms)))
      BY <2>5 DEF AutoAccept, Proposal
    <3>3. FramesFrom(n, Frame("ACCEPT", NoTerms)) BY <2>1, <3>2, FramesComeFrom
    <3> QED BY <2>1, <2>2, <3>1, <3>3
  <2>6. CASE PollNothing(n) \/ ObeyNothing(n) \/ DoAcceptNothing(n) \/ DoConfig(n)
    <3>1. UNCHANGED <<chan, worker, signed>>
      BY <2>6 DEF PollNothing, ObeyNothing, DoAcceptNothing, DoConfig, WorkerOnly, Leaves
    <3> QED BY <2>1, <2>2, <3>1, FramesComeFrom
  <2>7. CASE PeerGone(n) \/ Exit(n) \/ DoQuit(n)
    <3>1. Dies(n) /\ UNCHANGED signed BY <2>7 DEF PeerGone, Exit, DoQuit, WorkerOnly, Leaves
    <3>2. Become(n, Gone) BY <3>1 DEF Dies
    <3> QED BY <2>1, <2>2, <3>1, <3>2, FramesComeFrom
  <2>8. CASE StartProposing(n)
    <3>1. PICK t \in Terms : \/ Send(n, Frame("Terms", t)) /\ Become(n, Doing("proposing", t, 0, NoTerms))
                             \/ UNCHANGED <<chan, worker>>
      BY <2>8, AtHead DEF StartProposing
    <3>2. UNCHANGED signed BY <2>8 DEF StartProposing, WorkerOnly, Leaves
    <3>3. FramesFrom(n, Frame("Terms", t)) BY <2>1, <3>1, FramesComeFrom
    <3> QED BY <2>1, <2>2, <3>1, <3>2, <3>3
  <2>9. CASE DoAccept(n)
    <3>1. UNCHANGED signed /\ (UNCHANGED worker \/ \E t, r : Play(n, t, r))
      BY <2>9 DEF DoAccept, StartPlayer, WorkerOnly, Leaves
    <3>2. FramesFrom(n, Frame("ACCEPT", NoTerms)) BY <2>1, <2>9, FramesComeFrom DEF DoAccept
    <3> QED BY <2>1, <2>2, <3>1, <3>2
  <2>10. CASE DoReject(n)
    <3>1. UNCHANGED <<worker, signed>> BY <2>10 DEF DoReject, WorkerOnly, Leaves
    <3>2. FramesFrom(n, Frame("REJECT", NoTerms)) BY <2>1, <2>10, FramesComeFrom DEF DoReject
    <3> QED BY <2>1, <2>2, <3>1, <3>2
  <2>11. CASE ProposalAccepted(n) \/ ProposalDeclined(n) \/ SessionWrongFrame(n)
    <3>1. chan[n] # <<>> /\ Consume(n) /\ UNCHANGED signed
          /\ (Become(n, Idle) \/ \E t, r : Play(n, t, r))
      BY <2>11 DEF ProposalAccepted, ProposalDeclined, SessionWrongFrame, Receives, InBet,
                   WorkerOnly, Leaves
    <3>2. FramesFrom(n, Frame("REJECT", NoTerms)) BY <2>1, <3>1, FramesComeFrom
    <3> QED BY <2>1, <2>2, <3>1, <3>2
  <2>12. CASE ProposalTimeout(n) \/ SessionError(n) \/ SessionOutcome(n)
    <3>1. UNCHANGED <<chan, signed>> /\ Become(n, Idle)
      BY <2>12 DEF ProposalTimeout, SessionError, SessionOutcome, InBet, WorkerOnly, Leaves
    <3> QED BY <2>1, <2>2, <3>1, FramesComeFrom
  <2>13. CASE SessionSend(n) BY <2>13, SignSend
  <2>14. CASE SessionReceive(n) BY <2>14, SignReceive
  <2> QED BY <1>2, <2>3, <2>4, <2>5, <2>6, <2>7, <2>8, <2>9, <2>10, <2>11, <2>12, <2>13, <2>14
      DEF LoopStep, BetStep
<1> QED BY <1>1, <1>2 DEF Next

\* No dealer signs the funding of a bet that his peer has not signed as the
\* player of the same terms: the FundSign he checked is the peer's.
THEOREM NoDealerSignsAlone == Spec => []SignedTogether
<1>1. SignInv => SignedTogether BY DEF SignInv
<1> QED BY <1>1, SignInit, SignStep, TypesAlways, PTL DEF Spec

----------------------------------------------------------------------------
(* The worker follows the configuration.                                   *)

NoConfig(q) == \A i \in DOMAIN q : ~ IsConfig(q[i])

LastConfig(q, c) ==
    \E i \in DOMAIN q : q[i] = Configured(c) /\ \A j \in DOMAIN q : j > i => ~ IsConfig(q[j])

\* A worker that knows k and obeys q ends up with c.
Follows(q, k, c) == (k = c /\ NoConfig(q)) \/ LastConfig(q, c)

LEMMA ConfiguredFacts ==
  /\ \A c \in BOOLEAN : IsConfig(Configured(c))
  /\ \A a, c \in BOOLEAN : Configured(a).kind = Configured(c).kind => a = c
BY DEF IsConfig, Configured, Instr

LEMMA FollowsAppend ==
  ASSUME NEW q \in Seq(InstrT), NEW x \in InstrT, NEW k, NEW c
  PROVE  /\ ~ IsConfig(x) /\ Follows(q, k, c) => Follows(Append(q, x), k, c)
         /\ x = Configured(c) => Follows(Append(q, x), k, c)
<1>1. /\ DOMAIN Append(q, x) = 1..(Len(q) + 1) /\ DOMAIN q = 1..Len(q) /\ Len(q) \in Nat
      /\ \A i \in 1..Len(q) : Append(q, x)[i] = q[i]
      /\ Append(q, x)[Len(q) + 1] = x
  OBVIOUS
<1>2. \A j \in 1..(Len(q) + 1) : j \in 1..Len(q) \/ j = Len(q) + 1 BY <1>1
<1>3. ASSUME ~ IsConfig(x), NoConfig(q) PROVE NoConfig(Append(q, x))
  BY <1>1, <1>2, <1>3 DEF NoConfig
<1>4. ASSUME ~ IsConfig(x), LastConfig(q, c) PROVE LastConfig(Append(q, x), c)
  <2>1. PICK i \in 1..Len(q) :
               q[i] = Configured(c) /\ \A j \in DOMAIN q : j > i => ~ IsConfig(q[j])
    BY <1>1, <1>4 DEF LastConfig
  <2>2. i \in DOMAIN Append(q, x) /\ Append(q, x)[i] = Configured(c) BY <1>1, <2>1
  <2>3. \A j \in DOMAIN Append(q, x) : j > i => ~ IsConfig(Append(q, x)[j])
    BY <1>1, <1>2, <1>4, <2>1
  <2> QED BY <2>2, <2>3 DEF LastConfig
<1>5. ASSUME x = Configured(c) PROVE LastConfig(Append(q, x), c)
  <2>1. Len(q) + 1 \in DOMAIN Append(q, x) BY <1>1
  <2>2. \A j \in DOMAIN Append(q, x) : ~ (j > Len(q) + 1) BY <1>1
  <2> QED BY <1>1, <1>5, <2>1, <2>2 DEF LastConfig
<1> QED BY <1>3, <1>4, <1>5 DEF Follows

LEMMA FollowsTail ==
  ASSUME NEW q \in Seq(InstrT), q # <<>>, NEW k, NEW c \in BOOLEAN, Follows(q, k, c)
  PROVE  /\ ~ IsConfig(Head(q)) => Follows(Tail(q), k, c)
         /\ \A a \in BOOLEAN : Head(q).kind = Configured(a).kind => Follows(Tail(q), a, c)
<1>1. /\ DOMAIN Tail(q) = 1..(Len(q) - 1) /\ DOMAIN q = 1..Len(q) /\ Len(q) \in Nat \ {0}
      /\ \A i \in 1..(Len(q) - 1) : Tail(q)[i] = q[i + 1]
      /\ Head(q) = q[1]
  OBVIOUS
<1>2. \A i \in 1..(Len(q) - 1) : i + 1 \in 1..Len(q) BY <1>1
<1>3. ASSUME NoConfig(q) PROVE NoConfig(Tail(q)) /\ ~ IsConfig(Head(q))
  <2>1. 1 \in 1..Len(q) BY <1>1
  <2> QED BY <1>1, <1>2, <1>3, <2>1 DEF NoConfig
<1>4. ASSUME LastConfig(q, c)
      PROVE  LastConfig(Tail(q), c) \/ (NoConfig(Tail(q)) /\ Head(q) = Configured(c))
  <2>1. PICK i \in 1..Len(q) :
               q[i] = Configured(c) /\ \A j \in 1..Len(q) : j > i => ~ IsConfig(q[j])
    BY <1>1, <1>4 DEF LastConfig
  <2>2. CASE i = 1
    <3>1. \A j \in 1..(Len(q) - 1) : j + 1 > i BY <2>2
    <3>2. NoConfig(Tail(q)) BY <1>1, <1>2, <2>1, <3>1 DEF NoConfig
    <3> QED BY <1>1, <2>1, <2>2, <3>2
  <2>3. CASE i # 1
    <3>1. i - 1 \in 1..(Len(q) - 1) /\ (i - 1) + 1 = i BY <1>1, <2>1, <2>3
    <3>2. Tail(q)[i - 1] = Configured(c) BY <1>1, <2>1, <3>1
    <3>3. \A j \in 1..(Len(q) - 1) : j > i - 1 => j + 1 > i BY <1>1, <2>1
    <3>4. \A j \in 1..(Len(q) - 1) : j > i - 1 => ~ IsConfig(Tail(q)[j])
      BY <1>1, <1>2, <2>1, <3>3
    <3> QED BY <1>1, <3>1, <3>2, <3>4 DEF LastConfig
  <2> QED BY <2>2, <2>3
<1>5. ASSUME ~ IsConfig(Head(q)) PROVE Follows(Tail(q), k, c)
  BY <1>3, <1>4, <1>5, ConfiguredFacts DEF Follows
<1>6. ASSUME NEW a \in BOOLEAN, Head(q).kind = Configured(a).kind PROVE Follows(Tail(q), a, c)
  <2>1. IsConfig(Head(q)) BY <1>6, ConfiguredFacts DEF IsConfig
  <2>2. Head(q) = Configured(c) => a = c BY <1>6, ConfiguredFacts
  <2> QED BY <1>3, <1>4, <2>1, <2>2 DEF Follows
<1> QED BY <1>5, <1>6

ConfigInv == \A n \in Node : worker[n] # Gone => Follows(instr[n], known[n], config[n])

LEMMA ConfigInit == Init => ConfigInv
BY DEF Init, ConfigInv, Follows, NoConfig

\* A worker that is gone stays so.
LEMMA StaysGone ==
  ASSUME AgentTypes, NEW n \in Node, CoreStep(n) \/ LoopStep(n) \/ BetStep(n)
  PROVE  /\ worker[n] = Gone => worker'[n] = Gone
         /\ \A m \in Node \ {n} : worker'[m] = worker[m]
<1>1. worker \in [Node -> {Idle, Gone} \union Playing] BY DEF AgentTypes, WorkerTypes
<1>2. Gone.at = "gone" BY DEF Gone, Doing
<1>3. CASE CoreStep(n)
  BY <1>3 DEF CoreStep, Propose, Accept, Reject, SetConfig, Quit, HandleWorker, CoreOnly
<1>4. CASE \/ AskOperator(n) \/ AutoReject(n) \/ IgnoreFrame(n) \/ PollNothing(n)
           \/ ObeyNothing(n) \/ DoAcceptNothing(n) \/ DoReject(n) \/ DoConfig(n)
  BY <1>4 DEF AskOperator, AutoReject, IgnoreFrame, PollNothing, ObeyNothing, DoAcceptNothing,
              DoReject, DoConfig
<1>5. CASE PeerGone(n) \/ Exit(n) \/ DoQuit(n)
  BY <1>1, <1>5 DEF PeerGone, Exit, DoQuit, Dies, Become
<1>6. CASE AutoAccept(n) \/ StartProposing(n) \/ DoAccept(n)
  <2>1. worker[n].at = "idle"
    BY <1>6 DEF AutoAccept, StartProposing, DoAccept, Proposal, Instructed, Told, Idling
  <2>2. UNCHANGED worker \/ \E d : Become(n, d)
    BY <1>6 DEF AutoAccept, StartProposing, DoAccept, StartPlayer, Play
  <2> QED BY <1>1, <1>2, <2>1, <2>2 DEF Become
<1>7. CASE BetStep(n)
  <2>1. worker[n].at \in {"proposing"} \union Role
    BY <1>7 DEF BetStep, ProposalAccepted, ProposalDeclined, ProposalTimeout, SessionSend,
                SessionReceive, SessionWrongFrame, SessionError, SessionOutcome, Sends, Receives,
                InScript
  <2>2. \E d : Become(n, d)
    BY <1>7 DEF BetStep, ProposalAccepted, ProposalDeclined, ProposalTimeout, SessionSend,
                SessionReceive, SessionWrongFrame, SessionError, SessionOutcome, Play, Advance
  <2> QED BY <1>1, <1>2, <2>1, <2>2 DEF Become, Role
<1> QED BY <1>3, <1>4, <1>5, <1>6, <1>7 DEF LoopStep

LEMMA ConfigStep == AgentTypes /\ ConfigInv /\ [Next]_vars => ConfigInv'
<1> SUFFICES ASSUME AgentTypes, ConfigInv, [Next]_vars PROVE ConfigInv' OBVIOUS
<1>1. CASE UNCHANGED vars BY <1>1 DEF vars, ConfigInv
<1>2. ASSUME NEW n \in Node, CoreStep(n) \/ LoopStep(n) \/ BetStep(n) PROVE ConfigInv'
  <2>1. /\ instr \in [Node -> Seq(InstrT)] /\ config \in [Node -> BOOLEAN]
        /\ known \in [Node -> BOOLEAN] /\ worker \in [Node -> {Idle, Gone} \union Playing]
    BY DEF AgentTypes, CoreTypes, WorkerTypes
  \* The other node keeps what it has, and n is the one to look at.
  <2>2. ASSUME \A m \in Node \ {n} :
                  instr'[m] = instr[m] /\ config'[m] = config[m] /\ known'[m] = known[m],
               \/ worker'[n] = Gone
               \/ worker[n] # Gone => Follows(instr'[n], known'[n], config'[n])
        PROVE  ConfigInv'
    BY <1>2, <2>2, StaysGone DEF ConfigInv
  <2>3. worker[n] # Gone => Follows(instr[n], known[n], config[n]) BY DEF ConfigInv
  <2>4. ASSUME NEW x \in InstrT, Tell(n, x), ~ IsConfig(x), UNCHANGED <<config, known>>
        PROVE  ConfigInv'
    <3>1. worker[n] # Gone => instr'[n] = Append(instr[n], x) BY <2>1, <2>4 DEF Tell
    <3>2. \A m \in Node \ {n} : instr'[m] = instr[m] BY <2>1, <2>4 DEF Tell
    <3>3. worker[n] # Gone => Follows(Append(instr[n], x), known[n], config[n])
      BY <2>1, <2>3, <2>4, FollowsAppend
    <3> QED BY <2>2, <2>4, <3>1, <3>2, <3>3
  <2>5. /\ \A t \in Terms : Instr("Propose", t) \in InstrT /\ ~ IsConfig(Instr("Propose", t))
        /\ \A k \in {"Accept", "Reject", "Quit"} :
              Instr(k, NoTerms) \in InstrT /\ ~ IsConfig(Instr(k, NoTerms))
    BY Typed DEF Instr, IsConfig, InstrKind
  <2>6. CASE Propose(n)
    <3>1. proposed + 1 \in Terms
      BY <2>6, AgentAssumption DEF Propose, AgentTypes, CoreTypes, Terms
    <3> QED BY <2>4, <2>5, <2>6, <3>1 DEF Propose, CoreOnly
  <2>7. CASE Accept(n) \/ Reject(n) \/ Quit(n)
    BY <2>4, <2>5, <2>7 DEF Accept, Reject, Quit, Decide, CoreOnly
  <2>8. CASE SetConfig(n)
    <3>1. PICK auto \in BOOLEAN : config' = [config EXCEPT ![n] = auto] /\ Tell(n, Configured(auto))
      BY <2>8 DEF SetConfig
    <3>2. UNCHANGED known BY <2>8 DEF SetConfig, CoreOnly
    <3>3. worker[n] # Gone => instr'[n] = Append(instr[n], Configured(auto))
      BY <2>1, <3>1 DEF Tell
    <3>4. \A m \in Node \ {n} : instr'[m] = instr[m] /\ config'[m] = config[m]
      BY <2>1, <3>1 DEF Tell
    <3>5. Follows(Append(instr[n], Configured(auto)), known[n], auto)
      BY <2>1, Typed, FollowsAppend
    <3>6. config'[n] = auto BY <2>1, <3>1
    <3> QED BY <2>2, <3>2, <3>3, <3>4, <3>5, <3>6
  <2>9. CASE PeerGone(n) \/ Exit(n) \/ DoQuit(n)
    <3>1. Dies(n) /\ UNCHANGED <<config, known>>
      BY <2>9 DEF PeerGone, Exit, DoQuit, WorkerOnly, Leaves
    <3>2. worker'[n] = Gone /\ \A m \in Node \ {n} : instr'[m] = instr[m]
      BY <2>1, <3>1 DEF Dies, Become
    <3> QED BY <2>2, <3>1, <3>2
  <2>10. ASSUME NEW k, Instructed(n, k)
         PROVE  /\ instr[n] # <<>> /\ Head(instr[n]).kind = k /\ instr'[n] = Tail(instr[n])
                /\ worker[n] # Gone
                /\ \A m \in Node \ {n} : instr'[m] = instr[m]
    BY <2>1, <2>10 DEF Instructed, Told, Idling, Gone, Doing
  <2>11. CASE StartProposing(n) \/ DoAccept(n) \/ DoAcceptNothing(n) \/ DoReject(n)
    <3>1. PICK k \in {"Propose", "Accept", "Reject"} : Instructed(n, k)
      BY <2>11 DEF StartProposing, DoAccept, DoAcceptNothing, DoReject
    <3>2. UNCHANGED <<config, known>>
      BY <2>11 DEF StartProposing, DoAccept, DoAcceptNothing, DoReject, WorkerOnly, Leaves
    <3>3. ~ IsConfig(Head(instr[n])) BY <2>10, <3>1 DEF IsConfig
    <3>4. Follows(Tail(instr[n]), known[n], config[n])
      BY <2>1, <2>3, <2>10, <3>1, <3>3, FollowsTail
    <3> QED BY <2>2, <2>10, <3>1, <3>2, <3>4
  <2>12. CASE DoConfig(n)
    <3>1. PICK auto \in BOOLEAN :
             Instructed(n, Configured(auto).kind) /\ known' = [known EXCEPT ![n] = auto]
      BY <2>12 DEF DoConfig
    <3>2. UNCHANGED config BY <2>12 DEF DoConfig, Leaves
    <3>3. Follows(Tail(instr[n]), auto, config[n])
      BY <2>1, <2>3, <2>10, <3>1, FollowsTail
    <3>4. known'[n] = auto /\ \A m \in Node \ {n} : known'[m] = known[m] BY <2>1, <3>1
    <3> QED BY <2>2, <2>10, <3>1, <3>2, <3>3, <3>4
  <2>13. CASE \/ HandleWorker(n) \/ AskOperator(n) \/ AutoAccept(n) \/ AutoReject(n)
              \/ IgnoreFrame(n) \/ PollNothing(n) \/ ObeyNothing(n) \/ BetStep(n)
    <3>1. UNCHANGED <<instr, config, known>>
      BY <2>13 DEF HandleWorker, AskOperator, AutoAccept, AutoReject, IgnoreFrame, PollNothing,
           ObeyNothing, BetStep, ProposalAccepted, ProposalDeclined, ProposalTimeout, SessionSend,
           SessionReceive, SessionWrongFrame, SessionError, SessionOutcome, InBet, WorkerOnly,
           Leaves
    <3> QED BY <2>2, <2>3, <3>1
  <2> QED BY <1>2, <2>6, <2>7, <2>8, <2>9, <2>11, <2>12, <2>13 DEF CoreStep, LoopStep
<1> QED BY <1>1, <1>2 DEF Next

\* The worker decides by the operator's configuration, or the newest one is on
\* its way to it and the last of its kind.
THEOREM WorkerFollowsConfig == Spec => []ConfigFollows
<1>1. AgentTypes /\ ConfigInv => ConfigFollows
  BY DEF ConfigInv, ConfigFollows, Follows, NoConfig, LastConfig
<1> QED BY <1>1, ConfigInit, ConfigStep, TypesAlways, PTL DEF Spec

============================================================================
