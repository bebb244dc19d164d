--------------------------- MODULE RaftNodeProofs ---------------------------
(***************************************************************************)
(* The Ready pipeline of module RaftNode implements module Raft: what the  *)
(* storages of the cluster hold is, after every step of every node, a      *)
(* reachable state of Raft.  So all that is proved of Raft holds of the    *)
(* disks, whatever fails or crashes between the steps of a Ready.          *)
(*                                                                         *)
(* The theorems about Raft are used twice: Mem is the cores in memory,     *)
(* with the messages they hold back; Dur is what the disks hold, as        *)
(* Durable in RaftNode.                                                    *)
(***************************************************************************)
EXTENDS RaftNode, WellFoundedInduction, TLAPS

-----------------------------------------------------------------------------
(* The commands of a log                                                   *)

\* What holds of 0 and, with a number, of the next one, holds of every number.
LEMMA NumbersByInduction ==
  ASSUME NEW S, 0 \in S, \A n \in Nat : n \in S => n + 1 \in S
  PROVE  Nat \subseteq S
<1> DEFINE Less == OpToRel(<, Nat)
           Missing == Nat \ S
<1>1. IsWellFoundedOn(Less, Nat)
  BY NatLessThanWellFounded
<1>2. \A x, y \in Nat : x < y => <<x, y>> \in Less
  BY DEF OpToRel
<1> HIDE DEF Less
<1>3. SUFFICES ASSUME Missing # {} PROVE FALSE
  OBVIOUS
<1>4. PICK x \in Missing : \A y \in Missing : ~(<<y, x>> \in Less)
  BY <1>1, <1>3, WFMin
<1>5. x \in Nat /\ x # 0 /\ x - 1 \in Nat /\ x = (x - 1) + 1
  BY <1>4
<1>6. x - 1 \in Missing /\ x - 1 < x
  BY <1>4, <1>5
<1> QED
  BY <1>2, <1>4, <1>5, <1>6

\* The function that CommandsUpTo computes.
NextCommands(commands, e) ==
    IF e.command = Noop THEN commands ELSE Append(commands, e.command)

AreCommands(f, lg, index) ==
    f = [n \in 0 .. index |->
           IF n = 0 THEN <<>>
           ELSE IF lg[n].command = Noop THEN f[n - 1]
           ELSE Append(f[n - 1], lg[n].command)]

LEMMA CommandsAt ==
  ASSUME NEW lg, NEW index \in Nat, NEW f, AreCommands(f, lg, index)
  PROVE  /\ f[0] = <<>>
         /\ \A n \in 1 .. index : f[n] = NextCommands(f[n - 1], lg[n])
<1>1. \A n \in 0 .. index : f[n] = IF n = 0 THEN <<>>
                                   ELSE IF lg[n].command = Noop THEN f[n - 1]
                                   ELSE Append(f[n - 1], lg[n].command)
  BY DEF AreCommands
<1> QED
  BY <1>1 DEF NextCommands

LEMMA CommandsExist ==
  ASSUME NEW lg, NEW index \in Nat
  PROVE  \E f : AreCommands(f, lg, index)
<1> DEFINE S == {n \in Nat : \E f : AreCommands(f, lg, n)}
<1>1. 0 \in S
  <2> DEFINE f == [n \in 0 .. 0 |-> <<>>]
  <2>1. AreCommands(f, lg, 0)
    BY DEF AreCommands
  <2> QED
    BY <2>1
<1>2. ASSUME NEW n \in Nat, n \in S
      PROVE  n + 1 \in S
  <2>1. PICK f : AreCommands(f, lg, n)
    BY <1>2
  <2> DEFINE next == NextCommands(f[n], lg[n + 1])
             g == [k \in 0 .. n + 1 |-> IF k = n + 1 THEN next ELSE f[k]]
  <2>2. f[0] = <<>> /\ \A k \in 1 .. n : f[k] = NextCommands(f[k - 1], lg[k])
    BY <2>1, CommandsAt
  <2>3. ASSUME NEW k \in 0 .. n + 1
        PROVE  g[k] = IF k = 0 THEN <<>>
                      ELSE IF lg[k].command = Noop THEN g[k - 1]
                      ELSE Append(g[k - 1], lg[k].command)
    <3>1. CASE k = 0
      BY <2>2, <3>1
    <3>2. CASE k \in 1 .. n
      BY <2>2, <3>2 DEF NextCommands
    <3>3. CASE k = n + 1
      <4>1. g[k] = next /\ g[k - 1] = f[n] /\ k # 0
        BY <3>3
      <4> QED
        BY <3>3, <4>1 DEF NextCommands
    <3> QED
      BY <3>1, <3>2, <3>3
  <2>4. AreCommands(g, lg, n + 1)
    BY <2>3 DEF AreCommands
  <2> QED
    BY <2>4
<1>3. Nat \subseteq S
  <2> HIDE DEF S
  <2> QED
    BY <1>1, <1>2, NumbersByInduction
<1> QED
  BY <1>3

\* It depends on the entries up to the index only.
LEMMA CommandsAgree ==
  ASSUME NEW lg, NEW index \in Nat, NEW f, AreCommands(f, lg, index),
         NEW lg2, NEW index2 \in Nat, NEW f2, AreCommands(f2, lg2, index2),
         NEW last \in Nat, last <= index, last <= index2,
         \A k \in 1 .. last : lg[k] = lg2[k]
  PROVE  f[last] = f2[last]
<1> DEFINE S == {n \in Nat : n <= last => f[n] = f2[n]}
<1>1. 0 \in S
  BY CommandsAt
<1>2. ASSUME NEW n \in Nat, n \in S
      PROVE  n + 1 \in S
  <2>1. CASE n + 1 <= last
    <3>1. f[n] = f2[n] /\ lg[n + 1] = lg2[n + 1]
      BY <1>2, <2>1
    <3>2. /\ n + 1 \in 1 .. index /\ n + 1 \in 1 .. index2 /\ (n + 1) - 1 = n
      BY <2>1
    <3>3. f[n + 1] = NextCommands(f[n], lg[n + 1]) /\ f2[n + 1] = NextCommands(f2[n], lg2[n + 1])
      BY <3>2, CommandsAt
    <3> QED
      BY <3>1, <3>3
  <2>2. CASE ~(n + 1 <= last)
    BY <2>2
  <2> QED
    BY <2>1, <2>2
<1>3. Nat \subseteq S
  <2> HIDE DEF S
  <2> QED
    BY <1>1, <1>2, NumbersByInduction
<1> QED
  BY <1>3

LEMMA CommandsUpToIs ==
  ASSUME NEW lg, NEW index \in Nat, NEW f, AreCommands(f, lg, index)
  PROVE  CommandsUpTo(lg, index) = f[index]
<1> DEFINE g == CHOOSE g : AreCommands(g, lg, index)
<1>1. AreCommands(g, lg, index)
  BY Zenon
<1>2. CommandsUpTo(lg, index) = g[index]
  BY DEF AreCommands, CommandsUpTo
<1> HIDE DEF g
<1> QED
  BY <1>1, <1>2, CommandsAgree

\* No entry has no command.
LEMMA CommandsOfNone ==
  ASSUME NEW lg
  PROVE  CommandsUpTo(lg, 0) = <<>>
<1>1. PICK f : AreCommands(f, lg, 0)
  BY CommandsExist
<1>2. CommandsUpTo(lg, 0) = f[0]
  BY <1>1, CommandsUpToIs
<1>3. f[0] = <<>>
  BY <1>1, CommandsAt
<1> QED
  BY <1>2, <1>3

\* One entry more.
LEMMA CommandsOfNext ==
  ASSUME NEW lg, NEW index \in Nat
  PROVE  CommandsUpTo(lg, index + 1) = NextCommands(CommandsUpTo(lg, index), lg[index + 1])
<1>1. PICK f : AreCommands(f, lg, index)
  BY CommandsExist
<1>2. PICK f2 : AreCommands(f2, lg, index + 1)
  BY CommandsExist
<1>3. f2[index] = f[index]
  <2>1. PICK index2 \in Nat : index2 = index + 1
    OBVIOUS
  <2>2. index <= index /\ index <= index2 /\ AreCommands(f2, lg, index2)
    BY <1>2, <2>1
  <2> QED
    BY <1>1, <2>2, CommandsAgree
<1>4. f2[index + 1] = NextCommands(f2[index], lg[index + 1])
  <2>1. index + 1 \in 1 .. index + 1 /\ (index + 1) - 1 = index
    OBVIOUS
  <2> QED
    BY <1>2, <2>1, CommandsAt
<1>5. CommandsUpTo(lg, index) = f[index] /\ CommandsUpTo(lg, index + 1) = f2[index + 1]
  BY <1>1, <1>2, CommandsUpToIs
<1> QED
  BY <1>3, <1>4, <1>5

\* Another log with the same entries.
LEMMA CommandsOfSame ==
  ASSUME NEW lg, NEW lg2, NEW index \in Nat, \A k \in 1 .. index : lg[k] = lg2[k]
  PROVE  CommandsUpTo(lg, index) = CommandsUpTo(lg2, index)
<1>1. PICK f, f2 : AreCommands(f, lg, index) /\ AreCommands(f2, lg2, index)
  BY CommandsExist
<1>2. f[index] = f2[index]
  BY <1>1, CommandsAgree
<1> QED
  BY <1>1, <1>2, CommandsUpToIs

LEMMA CommandsType ==
  ASSUME NEW lg \in Seq(Core!Entry), NEW index \in 0 .. Len(lg)
  PROVE  CommandsUpTo(lg, index) \in Seq(Command)
<1> DEFINE S == {n \in Nat : n <= Len(lg) => CommandsUpTo(lg, n) \in Seq(Command)}
<1>1. 0 \in S
  <2>1. CommandsUpTo(lg, 0) \in Seq(Command)
    <3>1. <<>> \in Seq(Command)
      OBVIOUS
    <3>2. CommandsUpTo(lg, 0) = <<>>
      BY CommandsOfNone
    <3> QED
      BY <3>1, <3>2, Zenon
  <2> QED
    BY <2>1
<1>2. ASSUME NEW n \in Nat, n \in S
      PROVE  n + 1 \in S
  <2>1. CASE n + 1 <= Len(lg)
    <3>1. CommandsUpTo(lg, n) \in Seq(Command) /\ n + 1 \in 1 .. Len(lg)
      BY <1>2, <2>1
    <3>2. lg[n + 1] \in Core!Entry
      BY <3>1
    <3>3. lg[n + 1].command \in Command \cup {Noop}
      BY <3>2 DEF Core!Entry
    <3>4. CommandsUpTo(lg, n + 1) = NextCommands(CommandsUpTo(lg, n), lg[n + 1])
      BY CommandsOfNext
    <3>5. NextCommands(CommandsUpTo(lg, n), lg[n + 1]) \in Seq(Command)
      BY <3>1, <3>3 DEF NextCommands
    <3> QED
      BY <3>4, <3>5
  <2>2. CASE ~(n + 1 <= Len(lg))
    BY <2>2
  <2> QED
    BY <2>1, <2>2
<1>3. Nat \subseteq S
  <2> HIDE DEF S
  <2> QED
    BY <1>1, <1>2, NumbersByInduction
<1> QED
  BY <1>3

-----------------------------------------------------------------------------
(* The two instances                                                       *)

Mem == INSTANCE RaftLogProofs WITH messages <- outbound, Restarts <- {}

Dur == INSTANCE RaftSafetyProofs WITH
    currentTerm <- [i \in Server |-> disk[i].currentTerm],
    votedFor    <- [i \in Server |-> disk[i].votedFor],
    commitIndex <- [i \in Server |-> disk[i].commitIndex],
    log         <- [i \in Server |-> disk[i].log],
    role        <- [i \in Server |-> settled[i].role],
    leaderId    <- [i \in Server |-> settled[i].leaderId],
    votes       <- [i \in Server |-> settled[i].votes],
    nextIndex   <- [i \in Server |-> settled[i].nextIndex],
    matchIndex  <- [i \in Server |-> settled[i].matchIndex],
    messages    <- accepted,
    Restarts    <- Server \X Nat

\* What Raft assumes holds of both.
LEMMA Assumptions ==
  /\ IsFiniteSet(Server) /\ Nil \notin Server /\ Noop \notin Command
  /\ Campaigns \subseteq Server \X Nat /\ MaxLogLength \in Nat
  /\ {} \subseteq Server \X Nat /\ Server \X Nat \subseteq Server \X Nat
  BY ServerAssumption, EntryAssumption, BoundAssumption

\* The instances carry a definition of finite sets of their own.
LEMMA FiniteInBoth == Mem!IsFiniteSet(Server) /\ Dur!IsFiniteSet(Server)
  BY ServerAssumption DEF IsFiniteSet, Mem!IsFiniteSet, Dur!IsFiniteSet

LEMMA MemStepOfType ==
  ASSUME Mem!TypeOK, NEW i \in Server, NEW ms \in SUBSET Mem!RaftMessage, Mem!StepOf(i, ms)
  PROVE  Mem!TypeOK'
  BY Assumptions, FiniteInBoth, Mem!StepOfType

LEMMA MemStepKeepsCommitted ==
  ASSUME Mem!TypeOK, NEW i \in Server, NEW ms \in SUBSET Mem!RaftMessage, Mem!StepOf(i, ms)
  PROVE  \A j \in Server : Mem!KeepsCommitted(j)
  BY Assumptions, FiniteInBoth, Mem!StepKeepsCommitted

LEMMA MemStepIsAlone ==
  ASSUME Mem!TypeOK, NEW i \in Server, NEW ms, Mem!StepOf(i, ms)
  PROVE  Mem!StepsAlone(i)
  BY Assumptions, FiniteInBoth, Mem!StepIsAlone

LEMMA MemStepIsReaction ==
  ASSUME Mem!TypeOK, Mem!TypeOK', NEW i \in Server, NEW ms \in SUBSET Mem!RaftMessage,
         Mem!StepOf(i, ms), ~Mem!Restart(i), NEW s, s = Mem!Member(i), NEW t, t = Mem!Member(i)'
  PROVE  /\ Mem!Becomes(i, t)
         /\ \E sent : Mem!Send(sent) /\ Mem!Reaction(i, s, t, sent, ms)
  BY Assumptions, FiniteInBoth, Mem!StepIsReaction

LEMMA DurReactionIsStep ==
  ASSUME Dur!TypeOK, NEW i \in Server, NEW sent, NEW ms, NEW t, Dur!Becomes(i, t),
         NEW s, s = Dur!Member(i), Dur!Send(sent), Dur!Reaction(i, s, t, sent, ms)
  PROVE  Dur!StepOf(i, ms)
  BY Assumptions, FiniteInBoth, Dur!ReactionIsStep

\* Both instances mean the same by what mentions no variable, and what the instances
\* in RaftNode mean.
LEMMA SameTypes ==
  /\ Mem!Entry = Core!Entry /\ Dur!Entry = Core!Entry
  /\ Mem!Role = Core!Role /\ Dur!Role = Core!Role
  /\ Mem!RaftMessage = Core!RaftMessage /\ Dur!RaftMessage = Core!RaftMessage
  BY DEF
     Core!Entry, Mem!Entry, Dur!Entry, Core!Role, Mem!Role, Dur!Role,
     Core!RequestVoteRequest, Mem!RequestVoteRequest, Dur!RequestVoteRequest,
     Core!RequestVoteResponse, Mem!RequestVoteResponse, Dur!RequestVoteResponse,
     Core!AppendEntriesRequest, Mem!AppendEntriesRequest, Dur!AppendEntriesRequest,
     Core!AppendEntriesResponse, Mem!AppendEntriesResponse, Dur!AppendEntriesResponse,
     Core!RaftMessage, Mem!RaftMessage, Dur!RaftMessage

LEMMA SameReaction ==
  ASSUME NEW i, NEW s, NEW t, NEW sent, NEW ms, Mem!Reaction(i, s, t, sent, ms)
  PROVE  Dur!Reaction(i, s, t, sent, ms)
  BY DEF
     Mem!Peers, Dur!Peers, Mem!Quorum, Dur!Quorum, Mem!Cardinality, Dur!Cardinality,
     Mem!Larger, Dur!Larger, Mem!Smaller, Dur!Smaller, Mem!TermAt, Dur!TermAt,
     Mem!HasIndex, Dur!HasIndex, Mem!AppendFor, Dur!AppendFor, Mem!BroadcastAppend,
     Dur!BroadcastAppend, Mem!Replicated, Dur!Replicated, Mem!VoteReply, Dur!VoteReply,
     Mem!AppendReply, Dur!AppendReply, Mem!LastSent, Dur!LastSent, Mem!SameTerm,
     Dur!SameTerm, Mem!SameLog, Dur!SameLog, Mem!SameRole, Dur!SameRole,
     Mem!SameProgress, Dur!SameProgress, Mem!Forgets, Dur!Forgets, Mem!BecomesFollower,
     Dur!BecomesFollower, Mem!Observes, Dur!Observes, Mem!AdvancesCommit,
     Dur!AdvancesCommit, Mem!Appends, Dur!Appends, Mem!BecomesLeader, Dur!BecomesLeader,
     Mem!VoteRequestsOf, Dur!VoteRequestsOf, Mem!Campaigning, Dur!Campaigning,
     Mem!Beating, Dur!Beating, Mem!Proposing, Dur!Proposing, Mem!CanGrantFrom,
     Dur!CanGrantFrom, Mem!Granting, Dur!Granting, Mem!Refusing, Dur!Refusing,
     Mem!Counting, Dur!Counting, Mem!ObservingNewer, Dur!ObservingNewer,
     Mem!RejectingStale, Dur!RejectingStale, Mem!PreviousIsIn, Dur!PreviousIsIn,
     Mem!RejectingMismatch, Dur!RejectingMismatch, Mem!ConflictsAt, Dur!ConflictsAt,
     Mem!Accepting, Dur!Accepting, Mem!Continuing, Dur!Continuing, Mem!Recording,
     Dur!Recording, Mem!Retrying, Dur!Retrying, Mem!Handling, Dur!Handling,
     Mem!Reaction, Dur!Reaction

LEMMA EventIsStep ==
  ASSUME NEW i \in Server, Event(i)
  PROVE  Mem!StepOf(i, messages) /\ ~Mem!Restart(i)
<1>1. /\ Core!ElectionTimeout(i) <=> Mem!ElectionTimeout(i)
      /\ Core!HeartbeatTimeout(i) <=> Mem!HeartbeatTimeout(i)
      /\ \A command : Core!Propose(i, command) <=> Mem!Propose(i, command)
      /\ \A m : Core!HandleMessage(m) <=> Mem!HandleMessage(m)
  BY DEF
     Core!progress, Mem!progress, Core!hardState, Mem!hardState, Core!Peers, Mem!Peers,
     Core!Quorum, Mem!Quorum, Core!Cardinality, Mem!Cardinality, Core!Larger,
     Mem!Larger, Core!Smaller, Mem!Smaller, Core!TermAt, Mem!TermAt, Core!HasIndex,
     Mem!HasIndex, Core!Send, Mem!Send, Core!ForgetVotesAndProgress,
     Mem!ForgetVotesAndProgress, Core!BecomeFollower, Mem!BecomeFollower,
     Core!ObserveTerm, Mem!ObserveTerm, Core!AppendFor, Mem!AppendFor,
     Core!BroadcastAppend, Mem!BroadcastAppend, Core!Replicated, Mem!Replicated,
     Core!AdvanceLeaderCommit, Mem!AdvanceLeaderCommit, Core!AppendLocal,
     Mem!AppendLocal, Core!BecomeLeader, Mem!BecomeLeader, Core!VoteRequests,
     Mem!VoteRequests, Core!ElectionTimeout, Mem!ElectionTimeout, Core!HeartbeatTimeout,
     Mem!HeartbeatTimeout, Core!Propose, Mem!Propose, Core!UpToDate, Mem!UpToDate,
     Core!CanGrant, Mem!CanGrant, Core!VoteReply, Mem!VoteReply, Core!GrantVote,
     Mem!GrantVote, Core!RefuseVote, Mem!RefuseVote, Core!HandleVoteRequest,
     Mem!HandleVoteRequest, Core!CountVote, Mem!CountVote, Core!HandleNewerResponse,
     Mem!HandleNewerResponse, Core!HandleVoteResponse, Mem!HandleVoteResponse,
     Core!AppendReply, Mem!AppendReply, Core!RejectStaleAppend, Mem!RejectStaleAppend,
     Core!PreviousMatches, Mem!PreviousMatches, Core!RejectMismatch, Mem!RejectMismatch,
     Core!LastSent, Mem!LastSent, Core!Conflicts, Mem!Conflicts, Core!IsKept,
     Mem!IsKept, Core!MergedLog, Mem!MergedLog, Core!OverwritesCommitted,
     Mem!OverwritesCommitted, Core!CommitAfterAppend, Mem!CommitAfterAppend,
     Core!AcceptAppend, Mem!AcceptAppend, Core!HandleAppendRequest,
     Mem!HandleAppendRequest, Core!NextAppend, Mem!NextAppend, Core!MatchAfterSuccess,
     Mem!MatchAfterSuccess, Core!RecordSuccess, Mem!RecordSuccess, Core!NextAfterReject,
     Mem!NextAfterReject, Core!RetryEarlier, Mem!RetryEarlier,
     Core!HandleAppendResponse, Mem!HandleAppendResponse, Core!HandleMessage,
     Mem!HandleMessage, Core!AllAt, Mem!AllAt
<1>2. ~Mem!Restart(i)
  BY DEF Mem!Restart
<1> QED
  BY <1>1, <1>2 DEF Event, Mem!StepOf

LEMMA SameRaft ==
  /\ Dur!Init <=> Durable!Init
  /\ Dur!Next <=> Durable!Next
  /\ Dur!vars = Durable!vars
<1>1. Dur!Init <=> Durable!Init
  BY DEF Dur!Init, Durable!Init, Dur!AllAt, Durable!AllAt
<1>2. Dur!Next <=> Durable!Next
  BY DEF Dur!Next, Durable!Next, Dur!Restart, Durable!Restart,
     Dur!progress, Durable!progress, Dur!hardState, Durable!hardState, Dur!Peers,
     Durable!Peers, Dur!Quorum, Durable!Quorum, Dur!Cardinality, Durable!Cardinality,
     Dur!Larger, Durable!Larger, Dur!Smaller, Durable!Smaller, Dur!TermAt,
     Durable!TermAt, Dur!HasIndex, Durable!HasIndex, Dur!Send, Durable!Send,
     Dur!ForgetVotesAndProgress, Durable!ForgetVotesAndProgress, Dur!BecomeFollower,
     Durable!BecomeFollower, Dur!ObserveTerm, Durable!ObserveTerm, Dur!AppendFor,
     Durable!AppendFor, Dur!BroadcastAppend, Durable!BroadcastAppend, Dur!Replicated,
     Durable!Replicated, Dur!AdvanceLeaderCommit, Durable!AdvanceLeaderCommit,
     Dur!AppendLocal, Durable!AppendLocal, Dur!BecomeLeader, Durable!BecomeLeader,
     Dur!VoteRequests, Durable!VoteRequests, Dur!ElectionTimeout,
     Durable!ElectionTimeout, Dur!HeartbeatTimeout, Durable!HeartbeatTimeout,
     Dur!Propose, Durable!Propose, Dur!UpToDate, Durable!UpToDate, Dur!CanGrant,
     Durable!CanGrant, Dur!VoteReply, Durable!VoteReply, Dur!GrantVote,
     Durable!GrantVote, Dur!RefuseVote, Durable!RefuseVote, Dur!HandleVoteRequest,
     Durable!HandleVoteRequest, Dur!CountVote, Durable!CountVote,
     Dur!HandleNewerResponse, Durable!HandleNewerResponse, Dur!HandleVoteResponse,
     Durable!HandleVoteResponse, Dur!AppendReply, Durable!AppendReply,
     Dur!RejectStaleAppend, Durable!RejectStaleAppend, Dur!PreviousMatches,
     Durable!PreviousMatches, Dur!RejectMismatch, Durable!RejectMismatch, Dur!LastSent,
     Durable!LastSent, Dur!Conflicts, Durable!Conflicts, Dur!IsKept, Durable!IsKept,
     Dur!MergedLog, Durable!MergedLog, Dur!OverwritesCommitted,
     Durable!OverwritesCommitted, Dur!CommitAfterAppend, Durable!CommitAfterAppend,
     Dur!AcceptAppend, Durable!AcceptAppend, Dur!HandleAppendRequest,
     Durable!HandleAppendRequest, Dur!NextAppend, Durable!NextAppend,
     Dur!MatchAfterSuccess, Durable!MatchAfterSuccess, Dur!RecordSuccess,
     Durable!RecordSuccess, Dur!NextAfterReject, Durable!NextAfterReject,
     Dur!RetryEarlier, Durable!RetryEarlier, Dur!HandleAppendResponse,
     Durable!HandleAppendResponse, Dur!HandleMessage, Durable!HandleMessage,
      Dur!AllAt, Durable!AllAt
<1>3. Dur!vars = Durable!vars
  BY DEF Dur!vars, Durable!vars, Dur!hardState, Durable!hardState, Dur!progress, Durable!progress
<1> QED
  BY <1>1, <1>2, <1>3


-----------------------------------------------------------------------------
(* The invariant                                                           *)

SettledType ==
    settled \in [Server -> [role : Core!Role, leaderId : Server \cup {Nil},
                            votes : SUBSET Server, nextIndex : [Server -> Nat \ {0}],
                            matchIndex : [Server -> Nat]]]

\* A disk has what it calls committed, and nothing else is applied.
DiskIsOrdered(i) ==
    /\ disk[i].commitIndex <= Len(disk[i].log)
    /\ disk[i].appliedIndex <= disk[i].commitIndex

\* Unless a Ready is outstanding that is not persisted, memory is what the disk holds.
MemoryIsDisk(i) ==
    phase[i] \in {"idle", "finish", "apply"} => Mem!Member(i) = Dur!Member(i)

\* Only the messages of the Ready that is being handled are held back, and once it
\* is persisted they count as sent.
HeldBack(i) ==
    /\ phase[i] \notin {"persist", "finish"} => Outgoing(i) = {}
    /\ phase[i] = "finish" => Outgoing(i) \subseteq accepted

\* What is being persisted is what one step of the core made of what the disk holds;
\* that step is over, and only its outcome is left.
StepIsPending(i) ==
    phase[i] = "persist" =>
      Mem!Reaction(i, Dur!Member(i), Mem!Member(i), Outgoing(i), messages)

DownIsFresh(i) == phase[i] = "down" => settled[i] = Fresh

\* BatchIsAcceptable for one node.
BatchFits(i) ==
    phase[i] = "persist" =>
      LET d == disk[i] IN
      /\ \A k \in 1 .. d.commitIndex : k \in DOMAIN log[i] /\ log[i][k] = d.log[k]
      /\ currentTerm[i] >= d.currentTerm
      /\ currentTerm[i] = d.currentTerm /\ d.votedFor # Nil => votedFor[i] = d.votedFor
      /\ d.commitIndex <= commitIndex[i] /\ commitIndex[i] <= Len(log[i])
      /\ d.appliedIndex <= commitIndex[i]

\* The state machine is only given a committed entry that has a command.
ApplyIsDue(i) ==
    phase[i] = "apply" =>
      NextApplied(i) <= commitIndex[i] /\ log[i][NextApplied(i)].command # Noop

NodeInv(i) ==
    /\ DiskIsOrdered(i)
    /\ MemoryIsDisk(i)
    /\ HeldBack(i)
    /\ StepIsPending(i)
    /\ DownIsFresh(i)
    /\ BatchFits(i)
    /\ ApplyIsDue(i)

\* Nobody sends in a term that is not on its disk.
TermsAreDurable == \A m \in accepted : m.term <= disk[m.from].currentTerm

PipelineInv ==
    /\ TypeOK
    /\ SettledType
    /\ \A i \in Server : NodeInv(i)
    /\ TermsAreDurable

\* The types of both instances.
LEMMA MemType ==
  ASSUME TypeOK
  PROVE  /\ Mem!TypeOK
         /\ messages \in SUBSET Mem!RaftMessage
         /\ \A m \in outbound \cup accepted :
              m.from \in Server /\ m.to \in Server /\ m.term \in Nat
<1>1. Mem!TypeOK <=> Core!MemberTypeOK /\ Core!LogTypeOK /\ Core!MessagesTypeOK
  BY SameTypes DEF Mem!TypeOK, Mem!MemberTypeOK, Mem!LogTypeOK, Mem!MessagesTypeOK,
     Core!MemberTypeOK, Core!LogTypeOK, Core!MessagesTypeOK
<1>2. outbound \subseteq Mem!RaftMessage /\ accepted \subseteq Mem!RaftMessage
  BY SameTypes DEF TypeOK, CoreTypeOK, RuntimeTypeOK, Core!MessagesTypeOK
<1>3. \A m \in Mem!RaftMessage : m.from \in Server /\ m.to \in Server /\ m.term \in Nat
  BY Assumptions, FiniteInBoth, Mem!RaftMessageFields
<1> QED
  BY <1>1, <1>2, <1>3, SameTypes DEF TypeOK, CoreTypeOK, RuntimeTypeOK

LEMMA CoreTypeStays ==
  ASSUME Mem!TypeOK
  PROVE  Core!MemberTypeOK /\ Core!LogTypeOK /\ Core!MessagesTypeOK
  BY SameTypes DEF Mem!TypeOK, Mem!MemberTypeOK, Mem!LogTypeOK, Mem!MessagesTypeOK,
     Core!MemberTypeOK, Core!LogTypeOK, Core!MessagesTypeOK

LEMMA DiskFields ==
  ASSUME TypeOK, NEW i \in Server
  PROVE  /\ disk[i] \in Disk
         /\ disk[i].currentTerm \in Nat /\ disk[i].votedFor \in Server \cup {Nil}
         /\ disk[i].commitIndex \in Nat /\ disk[i].appliedIndex \in Nat
         /\ disk[i].log \in Seq(Core!Entry) /\ Len(disk[i].log) \in Nat
         /\ DOMAIN disk[i].log = 1 .. Len(disk[i].log)
<1>1. disk[i] \in Disk
  BY DEF TypeOK, RuntimeTypeOK
<1>2. disk[i].log \in Seq(Core!Entry)
  BY <1>1 DEF Disk
<1> QED
  BY <1>1, <1>2 DEF Disk

LEMMA CoreFields ==
  ASSUME TypeOK, NEW i \in Server
  PROVE  /\ currentTerm[i] \in Nat /\ votedFor[i] \in Server \cup {Nil}
         /\ commitIndex[i] \in Nat /\ appliedIndex[i] \in Nat
         /\ log[i] \in Seq(Core!Entry) /\ Len(log[i]) \in Nat
         /\ DOMAIN log[i] = 1 .. Len(log[i])
         /\ commitIndex[i] <= Len(log[i])
         /\ Volatile(i) \in [role : Core!Role, leaderId : Server \cup {Nil},
                            votes : SUBSET Server, nextIndex : [Server -> Nat \ {0}],
                            matchIndex : [Server -> Nat]]
<1>1. log[i] \in Seq(Core!Entry)
  BY DEF TypeOK, CoreTypeOK, Core!LogTypeOK
<1>2. Volatile(i) \in [role : Core!Role, leaderId : Server \cup {Nil},
                       votes : SUBSET Server, nextIndex : [Server -> Nat \ {0}],
                       matchIndex : [Server -> Nat]]
  BY DEF TypeOK, CoreTypeOK, Core!MemberTypeOK, Volatile
<1>3. /\ currentTerm[i] \in Nat /\ votedFor[i] \in Server \cup {Nil}
      /\ commitIndex[i] \in Nat /\ appliedIndex[i] \in Nat
      /\ commitIndex[i] <= Len(log[i])
  BY DEF TypeOK, CoreTypeOK, Core!MemberTypeOK, Core!LogTypeOK
<1>4. Len(log[i]) \in Nat /\ DOMAIN log[i] = 1 .. Len(log[i])
  BY <1>1
<1> QED
  BY <1>1, <1>2, <1>3, <1>4

VolatileTypeOK ==
    \A i \in Server :
      Volatile(i) \in [role : Core!Role, leaderId : Server \cup {Nil},
                      votes : SUBSET Server, nextIndex : [Server -> Nat \ {0}],
                      matchIndex : [Server -> Nat]]

LEMMA VolatileType == TypeOK => VolatileTypeOK
  BY CoreFields DEF VolatileTypeOK

\* What memory and disk have of one node.
LEMMA Members ==
  ASSUME NEW i \in Server
  PROVE  /\ Mem!Member(i) =
              [currentTerm |-> currentTerm[i], votedFor |-> votedFor[i],
               commitIndex |-> commitIndex[i], log |-> log[i], role |-> role[i],
               leaderId |-> leaderId[i], votes |-> votes[i],
               nextIndex |-> nextIndex[i], matchIndex |-> matchIndex[i]]
         /\ Dur!Member(i) =
              [currentTerm |-> disk[i].currentTerm, votedFor |-> disk[i].votedFor,
               commitIndex |-> disk[i].commitIndex, log |-> disk[i].log,
               role |-> settled[i].role, leaderId |-> settled[i].leaderId,
               votes |-> settled[i].votes, nextIndex |-> settled[i].nextIndex,
               matchIndex |-> settled[i].matchIndex]
  BY DEF Mem!Member, Dur!Member

LEMMA DurType ==
  ASSUME PipelineInv
  PROVE  Dur!TypeOK
<1>0. TypeOK /\ SettledType /\ \A i \in Server : DiskIsOrdered(i)
  BY DEF PipelineInv, NodeInv
<1>1. \A i \in Server :
        /\ settled[i].role \in Core!Role
        /\ settled[i].leaderId \in Server \cup {Nil}
        /\ settled[i].votes \in SUBSET Server
        /\ settled[i].nextIndex \in [Server -> Nat \ {0}]
        /\ settled[i].matchIndex \in [Server -> Nat]
  BY <1>0 DEF SettledType
<1>2. \A i \in Server :
        /\ disk[i].currentTerm \in Nat /\ disk[i].votedFor \in Server \cup {Nil}
        /\ disk[i].commitIndex \in Nat /\ disk[i].log \in Seq(Core!Entry)
        /\ disk[i].commitIndex <= Len(disk[i].log)
  BY <1>0, DiskFields DEF DiskIsOrdered
<1>3. Dur!MemberTypeOK
  BY <1>1, <1>2, SameTypes DEF Dur!MemberTypeOK
<1>4. Dur!LogTypeOK
  BY <1>2, SameTypes DEF Dur!LogTypeOK
<1>5. Dur!MessagesTypeOK
  BY <1>0, SameTypes DEF Dur!MessagesTypeOK, TypeOK, RuntimeTypeOK
<1> QED
  BY <1>3, <1>4, <1>5 DEF Dur!TypeOK

LEMMA InitPipelineInv == Init => PipelineInv
<1> SUFFICES ASSUME Init PROVE PipelineInv
  OBVIOUS
<1>1. TypeOK
  <2>1. CoreTypeOK
    BY DEF Init, CoreTypeOK, Core!Init, Core!MemberTypeOK, Core!LogTypeOK,
       Core!MessagesTypeOK, Core!Role, Core!AllAt
  <2>2. RuntimeTypeOK
    <3>1. <<>> \in Seq(Core!Entry) /\ <<>> \in Seq(Command)
      OBVIOUS
    <3>2. [currentTerm |-> 0, votedFor |-> Nil, commitIndex |-> 0,
           log |-> <<>>, appliedIndex |-> 0] \in Disk
      BY <3>1 DEF Disk
    <3>3. disk \in [Server -> Disk]
      BY <3>2 DEF Init
    <3>4. machine \in [Server -> Seq(Command)]
      BY <3>1, Zenon DEF Init
    <3> QED
      BY <3>3, <3>4 DEF Init, RuntimeTypeOK, Phase
  <2> QED
    BY <2>1, <2>2 DEF TypeOK, Init, Core!Init, Core!AllAt
<1>2. SettledType
  <2>1. Fresh \in [role : Core!Role, leaderId : Server \cup {Nil},
                   votes : SUBSET Server, nextIndex : [Server -> Nat \ {0}],
                   matchIndex : [Server -> Nat]]
    BY DEF Fresh, Core!Role
  <2> QED
    BY <2>1 DEF Init, SettledType
<1>3. ASSUME NEW i \in Server PROVE NodeInv(i)
  <2>1. /\ phase[i] = "idle" /\ settled[i] = Fresh /\ Outgoing(i) = {}
        /\ disk[i] = [currentTerm |-> 0, votedFor |-> Nil, commitIndex |-> 0,
                      log |-> <<>>, appliedIndex |-> 0]
    BY DEF Init, Core!Init, Outgoing
  <2>2. /\ disk[i].currentTerm = 0 /\ disk[i].votedFor = Nil /\ disk[i].commitIndex = 0
        /\ disk[i].log = <<>> /\ disk[i].appliedIndex = 0
    BY <2>1
  <2>3. Mem!Member(i) = Dur!Member(i)
    BY <2>1, <2>2, Members DEF Init, Core!Init, Fresh, Core!AllAt
  <2> QED
    BY <2>1, <2>2, <2>3 DEF NodeInv, DiskIsOrdered, MemoryIsDisk, HeldBack, StepIsPending,
       DownIsFresh, BatchFits, ApplyIsDue
<1>4. TermsAreDurable
  BY DEF Init, TermsAreDurable
<1> QED
  BY <1>1, <1>2, <1>3, <1>4 DEF PipelineInv

-----------------------------------------------------------------------------
(* Steps of other nodes                                                    *)

SameCore(j) ==
    /\ currentTerm'[j] = currentTerm[j]
    /\ votedFor'[j] = votedFor[j]
    /\ commitIndex'[j] = commitIndex[j]
    /\ log'[j] = log[j]
    /\ role'[j] = role[j]
    /\ leaderId'[j] = leaderId[j]
    /\ votes'[j] = votes[j]
    /\ nextIndex'[j] = nextIndex[j]
    /\ matchIndex'[j] = matchIndex[j]

\* Nothing of node j changes, but for the messages it may yet be handed.
Untouched(j) ==
    /\ SameCore(j)
    /\ phase'[j] = phase[j]
    /\ disk'[j] = disk[j]
    /\ settled'[j] = settled[j]
    /\ machine'[j] = machine[j]
    /\ Outgoing(j)' = Outgoing(j)
    /\ messages \subseteq messages' /\ accepted \subseteq accepted'

LEMMA CoreSame ==
  ASSUME UNCHANGED core, NEW j
  PROVE  SameCore(j)
  BY DEF core, election, SameCore

LEMMA MoreMessages ==
  ASSUME NEW i, NEW s, NEW t, NEW sent, NEW ms, Mem!Reaction(i, s, t, sent, ms),
         NEW ms2, ms \subseteq ms2
  PROVE  Mem!Reaction(i, s, t, sent, ms2)
  BY DEF Mem!Reaction

LEMMA MembersStay ==
  ASSUME NEW j \in Server, SameCore(j), disk'[j] = disk[j], settled'[j] = settled[j]
  PROVE  Mem!Member(j)' = Mem!Member(j) /\ Dur!Member(j)' = Dur!Member(j)
<1>1. Mem!Member(j)' = Mem!Member(j)
  BY DEF Mem!Member, SameCore
<1>2. Dur!Member(j)' = Dur!Member(j)
  BY DEF Dur!Member
<1> QED
  BY <1>1, <1>2

LEMMA UntouchedStays ==
  ASSUME NEW j \in Server, NodeInv(j), Untouched(j)
  PROVE  NodeInv(j)'
<1>1. Mem!Member(j)' = Mem!Member(j) /\ Dur!Member(j)' = Dur!Member(j)
  BY MembersStay DEF Untouched
<1>2. (DiskIsOrdered(j) /\ HeldBack(j) /\ DownIsFresh(j))'
  BY DEF NodeInv, Untouched, DiskIsOrdered, HeldBack, DownIsFresh
<1>3. MemoryIsDisk(j)'
  BY <1>1 DEF NodeInv, Untouched, MemoryIsDisk
<1>4. StepIsPending(j)'
  <2>1. SUFFICES ASSUME phase'[j] = "persist"
                 PROVE  Mem!Reaction(j, Dur!Member(j)', Mem!Member(j)', Outgoing(j)', messages')
    BY DEF StepIsPending
  <2>2. Mem!Reaction(j, Dur!Member(j), Mem!Member(j), Outgoing(j), messages)
    BY <2>1 DEF NodeInv, Untouched, StepIsPending
  <2>3. PICK s, t, sent, ms, ms2 :
          /\ s = Dur!Member(j) /\ t = Mem!Member(j) /\ sent = Outgoing(j) /\ ms = messages
          /\ ms2 = messages' /\ ms \subseteq ms2
          /\ s = Dur!Member(j)' /\ t = Mem!Member(j)' /\ sent = Outgoing(j)'
    BY <1>1 DEF Untouched
  <2>4. Mem!Reaction(j, s, t, sent, ms2)
    BY <2>2, <2>3, MoreMessages
  <2> QED
    BY <2>3, <2>4
<1>5. BatchFits(j)' /\ ApplyIsDue(j)'
  BY DEF NodeInv, Untouched, SameCore, BatchFits, ApplyIsDue, NextApplied
<1> QED
  BY <1>2, <1>3, <1>4, <1>5 DEF NodeInv

\* What keeps every type, besides the core's.
LEMMA RuntimeTypeStays ==
  ASSUME TypeOK, SettledType, NEW i \in Server,
         NEW p \in Phase, phase' = [phase EXCEPT ![i] = p],
         NEW h \in BOOLEAN, healthy' = [healthy EXCEPT ![i] = h],
         NEW d \in Disk, disk' = [disk EXCEPT ![i] = d],
         NEW q \in Seq(Command), machine' = [machine EXCEPT ![i] = q],
         NEW a \in Nat, appliedIndex' = [appliedIndex EXCEPT ![i] = a], a <= commitIndex'[i],
         \A j \in Server \ {i} : commitIndex'[j] = commitIndex[j],
         (Core!MemberTypeOK /\ Core!LogTypeOK /\ Core!MessagesTypeOK)',
         messages' \subseteq accepted', accepted' \subseteq Core!RaftMessage
  PROVE  TypeOK'
<1>1. RuntimeTypeOK'
  BY DEF TypeOK, RuntimeTypeOK
<1>2. appliedIndex' \in [Server -> Nat] /\ CoreTypeOK'
  BY DEF TypeOK, CoreTypeOK
<1>3. \A j \in Server : appliedIndex'[j] <= commitIndex'[j]
  BY DEF TypeOK, CoreTypeOK
<1> QED
  BY <1>1, <1>2, <1>3 DEF TypeOK

-----------------------------------------------------------------------------
(* A step of the core                                                      *)

\* What the core does, in the terms of Raft: it reacts from what the disk holds.
LEMMA CoreSteps ==
  ASSUME PipelineInv, NEW i \in Server, Step(i)
  PROVE  /\ Mem!TypeOK'
         /\ Mem!KeepsCommitted(i)
         /\ \A j \in Server \ {i} : SameCore(j) /\ Outgoing(j)' = Outgoing(j)
         /\ \E s, t, sent :
              /\ s = Mem!Member(i) /\ s = Dur!Member(i) /\ t = Mem!Member(i)'
              /\ Mem!Reaction(i, s, t, sent, messages)
              /\ sent = Outgoing(i)'
<1>1. TypeOK /\ phase[i] = "idle" /\ Event(i) /\ Outgoing(i) = {} /\ Mem!Member(i) = Dur!Member(i)
  BY DEF PipelineInv, NodeInv, Step, HeldBack, MemoryIsDisk
<1>2. Mem!TypeOK /\ messages \in SUBSET Mem!RaftMessage
  BY <1>1, MemType
<1>3. Mem!StepOf(i, messages) /\ ~Mem!Restart(i)
  BY <1>1, EventIsStep
<1>4. Mem!TypeOK'
  BY <1>2, <1>3, MemStepOfType
<1>5. Mem!KeepsCommitted(i)
  BY <1>2, <1>3, MemStepKeepsCommitted
<1>6. \A j \in Server \ {i} : SameCore(j)
  <2>1. Mem!StepsAlone(i)
    BY <1>2, <1>3, MemStepIsAlone
  <2> QED
    BY <2>1 DEF Mem!StepsAlone, SameCore
<1>7. PICK s, t : s = Mem!Member(i) /\ t = Mem!Member(i)'
  OBVIOUS
<1>8. PICK sent : Mem!Send(sent) /\ Mem!Reaction(i, s, t, sent, messages)
  BY <1>2, <1>3, <1>4, <1>7, MemStepIsReaction
<1>9. \A m \in sent : m.from = i
  BY <1>8, Assumptions, FiniteInBoth, Mem!ReactionSends
<1>10. outbound' = outbound \cup sent
  BY <1>8 DEF Mem!Send
<1>11. Outgoing(i)' = sent /\ \A j \in Server \ {i} : Outgoing(j)' = Outgoing(j)
  BY <1>1, <1>9, <1>10 DEF Outgoing
<1> QED
  BY <1>1, <1>4, <1>5, <1>6, <1>7, <1>8, <1>11

LEMMA StepType ==
  ASSUME PipelineInv, NEW i \in Server, Step(i)
  PROVE  TypeOK' /\ SettledType' /\ phase'[i] = IF ReturnsReady(i) THEN "persist" ELSE "idle"
<1>1. /\ TypeOK /\ SettledType /\ Mem!TypeOK' /\ Mem!KeepsCommitted(i)
      /\ \A j \in Server \ {i} : SameCore(j)
  BY CoreSteps DEF PipelineInv
<1>2. (Core!MemberTypeOK /\ Core!LogTypeOK /\ Core!MessagesTypeOK)'
  BY <1>1, CoreTypeStays, PTL
<1>3. CoreTypeOK'
  BY <1>1, <1>2 DEF TypeOK, CoreTypeOK, Step
<1>4. RuntimeTypeOK' /\ phase'[i] = IF ReturnsReady(i) THEN "persist" ELSE "idle"
  BY <1>1 DEF TypeOK, RuntimeTypeOK, Step, Phase
<1>5. \A j \in Server : appliedIndex'[j] <= commitIndex'[j]
  <2>1. appliedIndex[i] <= commitIndex[i] /\ commitIndex'[i] >= commitIndex[i]
    BY <1>1 DEF TypeOK, Mem!KeepsCommitted
  <2>2. commitIndex[i] \in Nat /\ appliedIndex[i] \in Nat /\ commitIndex'[i] \in Nat
    BY <1>1, <1>3 DEF TypeOK, CoreTypeOK, Core!LogTypeOK
  <2>3. appliedIndex'[i] <= commitIndex'[i]
    BY <2>1, <2>2 DEF Step
  <2>4. \A j \in Server \ {i} : appliedIndex'[j] <= commitIndex'[j]
    BY <1>1 DEF TypeOK, Step, SameCore
  <2> QED
    BY <2>3, <2>4
<1>6. TypeOK'
  BY <1>3, <1>4, <1>5 DEF TypeOK
<1>7. SettledType'
  <2>1. Volatile(i)' \in [role : Core!Role, leaderId : Server \cup {Nil},
                          votes : SUBSET Server, nextIndex : [Server -> Nat \ {0}],
                          matchIndex : [Server -> Nat]]
    <3>1. VolatileTypeOK'
      BY <1>6, VolatileType, PTL
    <3> QED
      BY <3>1 DEF VolatileTypeOK
  <2> QED
    BY <1>1, <2>1 DEF SettledType, Step
<1> QED
  BY <1>4, <1>6, <1>7

LEMMA StepNodeInv ==
  ASSUME PipelineInv, NEW i \in Server, Step(i)
  PROVE  NodeInv(i)'
<1>0. TypeOK /\ NodeInv(i) /\ TypeOK' /\ disk' = disk /\ messages' = messages
  BY StepType DEF PipelineInv, Step
<1>1. PICK s, t, sent :
        /\ s = Mem!Member(i) /\ s = Dur!Member(i) /\ t = Mem!Member(i)'
        /\ Mem!Reaction(i, s, t, sent, messages)
        /\ sent = Outgoing(i)'
  BY CoreSteps
<1>2. /\ s.currentTerm = currentTerm[i] /\ s.votedFor = votedFor[i]
      /\ s.commitIndex = commitIndex[i] /\ s.log = log[i]
      /\ s.currentTerm = disk[i].currentTerm /\ s.votedFor = disk[i].votedFor
      /\ s.commitIndex = disk[i].commitIndex /\ s.log = disk[i].log
      /\ t.currentTerm = currentTerm'[i] /\ t.votedFor = votedFor'[i]
  BY <1>1 DEF Mem!Member, Dur!Member
<1>3. CASE ~ReturnsReady(i)
  <2>1. phase'[i] = "idle" /\ settled'[i] = Volatile(i)'
    BY <1>0, <1>3, StepType DEF Step, PipelineInv, SettledType
  <2>2. Outgoing(i)' = {} /\ HardState(i)' = HardState(i) /\ log'[i] = log[i]
    BY <1>3 DEF ReturnsReady
  <2>3. /\ currentTerm'[i] = currentTerm[i] /\ votedFor'[i] = votedFor[i]
        /\ commitIndex'[i] = commitIndex[i]
    BY <2>2 DEF HardState
  <2>4. Mem!Member(i)' = Dur!Member(i)'
    <3>1. /\ disk'[i].currentTerm = currentTerm'[i] /\ disk'[i].votedFor = votedFor'[i]
          /\ disk'[i].commitIndex = commitIndex'[i] /\ disk'[i].log = log'[i]
      BY <1>0, <1>2, <2>2, <2>3
    <3>2. /\ settled'[i].role = role'[i] /\ settled'[i].leaderId = leaderId'[i]
          /\ settled'[i].votes = votes'[i] /\ settled'[i].nextIndex = nextIndex'[i]
          /\ settled'[i].matchIndex = matchIndex'[i]
      BY <2>1 DEF Volatile
    <3> QED
      BY <3>1, <3>2 DEF Mem!Member, Dur!Member
  <2> QED
    BY <1>0, <2>1, <2>2, <2>4 DEF NodeInv, DiskIsOrdered, MemoryIsDisk, HeldBack, StepIsPending,
       DownIsFresh, BatchFits, ApplyIsDue
<1>4. CASE ReturnsReady(i)
  <2>1. phase'[i] = "persist" /\ settled'[i] = settled[i]
    BY <1>4, StepType DEF Step, PipelineInv, SettledType
  <2>2. Dur!Member(i)' = Dur!Member(i)
    BY <1>0, <2>1 DEF Dur!Member
  <2>3. StepIsPending(i)'
    BY <1>0, <1>1, <2>2 DEF StepIsPending
  <2>4. BatchFits(i)'
    <3>1. /\ commitIndex'[i] >= commitIndex[i]
          /\ \A k \in 1 .. commitIndex[i] : log'[i][k] = log[i][k]
      BY CoreSteps DEF Mem!KeepsCommitted
    <3>2. /\ currentTerm'[i] >= disk[i].currentTerm
          /\ currentTerm'[i] = disk[i].currentTerm /\ disk[i].votedFor # Nil
               => votedFor'[i] = disk[i].votedFor
      <4>1. messages \in SUBSET Mem!RaftMessage /\ currentTerm[i] \in Nat
        BY <1>0, MemType, CoreFields
      <4>2. s.currentTerm \in Nat
        BY <1>2, <4>1
      <4>3. /\ t.currentTerm >= s.currentTerm
            /\ t.currentTerm = s.currentTerm /\ s.votedFor # Nil => t.votedFor = s.votedFor
        BY <1>1, <4>1, <4>2, Assumptions, FiniteInBoth, Mem!ReactionKeepsVote
      <4> QED
        BY <1>2, <4>3
    <3>3. /\ commitIndex'[i] \in Nat /\ Len(log'[i]) \in Nat
          /\ DOMAIN log'[i] = 1 .. Len(log'[i]) /\ commitIndex'[i] <= Len(log'[i])
      <4>1. /\ commitIndex'[i] \in Nat
            /\ log'[i] \in Seq(Core!Entry)
            /\ commitIndex'[i] <= Len(log'[i])
        BY <1>0 DEF TypeOK, CoreTypeOK, Core!LogTypeOK
      <4> QED
        BY <4>1
    <3>4. /\ disk[i].commitIndex \in Nat /\ disk[i].appliedIndex \in Nat
          /\ disk[i].appliedIndex <= disk[i].commitIndex
      BY <1>0, DiskFields DEF NodeInv, DiskIsOrdered
    <3>5. disk[i].commitIndex = commitIndex[i] /\ disk[i].log = log[i]
      BY <1>2
    <3>6. \A k \in 1 .. disk[i].commitIndex : k \in DOMAIN log'[i] /\ log'[i][k] = disk[i].log[k]
      BY <3>1, <3>3, <3>4, <3>5
    <3>7. disk[i].commitIndex <= commitIndex'[i] /\ disk[i].appliedIndex <= commitIndex'[i]
      BY <3>1, <3>3, <3>4, <3>5
    <3> QED
      BY <1>0, <3>2, <3>3, <3>6, <3>7 DEF BatchFits
  <2> QED
    BY <1>0, <2>1, <2>3, <2>4 DEF NodeInv, DiskIsOrdered, MemoryIsDisk, HeldBack,
       DownIsFresh, ApplyIsDue
<1> QED
  BY <1>3, <1>4

\* The nodes a step of the runtime leaves alone.
OthersUntouched(i) == \A j \in Server \ {i} : Untouched(j)

LEMMA StepLeavesOthers ==
  ASSUME PipelineInv, NEW i \in Server, Step(i)
  PROVE  OthersUntouched(i)
<1>1. \A j \in Server \ {i} : SameCore(j) /\ Outgoing(j)' = Outgoing(j)
  BY CoreSteps
<1>2. phase \in [Server -> Phase]
  BY DEF PipelineInv, TypeOK, RuntimeTypeOK
<1> QED
  BY <1>1, <1>2 DEF OthersUntouched, Untouched, Step, PipelineInv, SettledType

LEMMA PipelineInvFrom ==
  ASSUME PipelineInv, TypeOK', SettledType', NEW i \in Server, NodeInv(i)',
         OthersUntouched(i), TermsAreDurable'
  PROVE  PipelineInv'
<1>1. \A j \in Server \ {i} : NodeInv(j)'
  BY UntouchedStays DEF OthersUntouched, PipelineInv
<1> QED
  BY <1>1 DEF PipelineInv

LEMMA StepPipelineInv ==
  ASSUME PipelineInv, NEW i \in Server, Step(i)
  PROVE  PipelineInv' /\ OthersUntouched(i)
<1>1. TypeOK' /\ SettledType'
  BY StepType
<1>2. TermsAreDurable'
  BY DEF Step, PipelineInv, TermsAreDurable
<1> QED
  BY <1>1, <1>2, StepNodeInv, StepLeavesOthers, PipelineInvFrom

-----------------------------------------------------------------------------
(* Steps of the runtime                                                    *)

\* A step of node i that leaves its core as it is: the node's new phase, health,
\* storage, machine, applied index and settled state.
RuntimeStep(i, p, h, d, q, a, v) ==
    /\ UNCHANGED core
    /\ phase' = [phase EXCEPT ![i] = p]
    /\ healthy' = [healthy EXCEPT ![i] = h]
    /\ disk' = [disk EXCEPT ![i] = d]
    /\ machine' = [machine EXCEPT ![i] = q]
    /\ appliedIndex' = [appliedIndex EXCEPT ![i] = a]
    /\ settled' = [settled EXCEPT ![i] = v]
    /\ outbound' \in {outbound, outbound \ Outgoing(i)}
    /\ accepted' \in {accepted, accepted \cup Outgoing(i)}
    /\ messages \subseteq messages' /\ messages' \subseteq accepted'

\* What a step does not mention keeps its value.
LEMMA Same ==
  ASSUME PipelineInv, NEW i \in Server
  PROVE  /\ phase = [phase EXCEPT ![i] = phase[i]] /\ phase[i] \in Phase
         /\ healthy = [healthy EXCEPT ![i] = healthy[i]] /\ healthy[i] \in BOOLEAN
         /\ disk = [disk EXCEPT ![i] = disk[i]] /\ disk[i] \in Disk
         /\ machine = [machine EXCEPT ![i] = machine[i]] /\ machine[i] \in Seq(Command)
         /\ appliedIndex = [appliedIndex EXCEPT ![i] = appliedIndex[i]]
         /\ appliedIndex[i] \in Nat /\ appliedIndex[i] <= commitIndex[i]
         /\ settled = [settled EXCEPT ![i] = settled[i]]
         /\ messages \subseteq accepted
         /\ i \in DOMAIN settled
<1>1. TypeOK /\ SettledType
  BY DEF PipelineInv
<1>2. /\ phase = [phase EXCEPT ![i] = phase[i]] /\ phase[i] \in Phase
      /\ healthy = [healthy EXCEPT ![i] = healthy[i]] /\ healthy[i] \in BOOLEAN
  BY <1>1 DEF TypeOK, RuntimeTypeOK
<1>3. /\ disk = [disk EXCEPT ![i] = disk[i]] /\ disk[i] \in Disk
      /\ machine = [machine EXCEPT ![i] = machine[i]] /\ machine[i] \in Seq(Command)
      /\ messages \subseteq accepted
  BY <1>1 DEF TypeOK, RuntimeTypeOK
<1>4. /\ appliedIndex = [appliedIndex EXCEPT ![i] = appliedIndex[i]]
      /\ appliedIndex[i] \in Nat /\ appliedIndex[i] <= commitIndex[i]
  BY <1>1 DEF TypeOK, CoreTypeOK
<1>5. settled = [settled EXCEPT ![i] = settled[i]] /\ i \in DOMAIN settled
  BY <1>1 DEF SettledType
<1> QED
  BY <1>2, <1>3, <1>4, <1>5

LEMMA RuntimeStepValues ==
  ASSUME PipelineInv, NEW i \in Server, NEW p, NEW h, NEW d, NEW q, NEW a, NEW v,
         RuntimeStep(i, p, h, d, q, a, v)
  PROVE  /\ phase'[i] = p /\ disk'[i] = d /\ machine'[i] = q /\ settled'[i] = v
         /\ SameCore(i)
         /\ OthersUntouched(i)
         /\ Outgoing(i)' = Outgoing(i) \/ Outgoing(i)' = {}
<1>1. TypeOK /\ SettledType
  BY DEF PipelineInv
<1>2. \A j : SameCore(j)
  BY CoreSame DEF RuntimeStep
<1>3. ASSUME NEW j \in Server, j # i PROVE Outgoing(j)' = Outgoing(j)
  BY <1>3 DEF RuntimeStep, Outgoing
<1>4. /\ phase'[i] = p /\ disk'[i] = d /\ machine'[i] = q /\ settled'[i] = v
      /\ \A j \in Server \ {i} : /\ phase'[j] = phase[j] /\ disk'[j] = disk[j]
                                 /\ machine'[j] = machine[j] /\ settled'[j] = settled[j]
  BY <1>1 DEF RuntimeStep, TypeOK, RuntimeTypeOK, SettledType
<1>5. messages \subseteq messages' /\ accepted \subseteq accepted'
  BY DEF RuntimeStep
<1>6. OthersUntouched(i)
  BY <1>2, <1>3, <1>4, <1>5 DEF OthersUntouched, Untouched
<1>7. Outgoing(i)' = Outgoing(i) \/ Outgoing(i)' = {}
  BY DEF RuntimeStep, Outgoing
<1> QED
  BY <1>2, <1>4, <1>6, <1>7

LEMMA RuntimeStepInv ==
  ASSUME PipelineInv, NEW i \in Server,
         NEW p \in Phase, NEW h \in BOOLEAN, NEW d \in Disk, NEW q \in Seq(Command), NEW a \in Nat,
         NEW v, v = settled[i] \/ v = Fresh \/ v = Volatile(i),
         RuntimeStep(i, p, h, d, q, a, v), a <= commitIndex[i],
         d.currentTerm >= disk[i].currentTerm,
         accepted' = accepted \/ \A m \in Outgoing(i) : m.term = d.currentTerm,
         NodeInv(i)'
  PROVE  PipelineInv' /\ OthersUntouched(i)
<1>1. TypeOK /\ SettledType
  BY DEF PipelineInv
<1>2. (Core!MemberTypeOK /\ Core!LogTypeOK /\ Core!MessagesTypeOK)'
  BY <1>1 DEF TypeOK, CoreTypeOK, RuntimeStep, core, election, Core!MemberTypeOK,
     Core!LogTypeOK, Core!MessagesTypeOK
<1>3. commitIndex' = commitIndex
  BY DEF RuntimeStep, core
<1>4. messages' \subseteq accepted' /\ accepted' \subseteq Core!RaftMessage
  BY <1>1 DEF TypeOK, CoreTypeOK, RuntimeTypeOK, RuntimeStep, Core!MessagesTypeOK, Outgoing
<1>5. TypeOK'
  BY <1>1, <1>2, <1>3, <1>4, RuntimeTypeStays DEF RuntimeStep
<1>6. SettledType'
  <2> DEFINE R == [role : Core!Role, leaderId : Server \cup {Nil}, votes : SUBSET Server,
                   nextIndex : [Server -> Nat \ {0}], matchIndex : [Server -> Nat]]
  <2>1. Fresh \in R
    BY DEF Fresh, Core!Role
  <2>2. v \in R
    BY <1>1, <2>1, CoreFields DEF SettledType
  <2> QED
    BY <1>1, <2>2 DEF RuntimeStep, SettledType
<1>7. TermsAreDurable'
  <2> SUFFICES ASSUME NEW m \in accepted'
               PROVE  m.term <= disk'[m.from].currentTerm
    BY DEF TermsAreDurable
  <2>1. m.from \in Server /\ m.term \in Nat
    BY <1>1, MemType DEF RuntimeStep, Outgoing
  <2>2. /\ disk[m.from].currentTerm \in Nat /\ d.currentTerm \in Nat
        /\ disk'[m.from] = IF m.from = i THEN d ELSE disk[m.from]
    BY <1>1, <2>1, DiskFields DEF RuntimeStep, Disk, TypeOK, RuntimeTypeOK
  <2>3. CASE m \in accepted
    BY <2>1, <2>2, <2>3 DEF PipelineInv, TermsAreDurable
  <2>4. CASE m \notin accepted
    <3>1. m \in Outgoing(i) /\ m.from = i /\ m.term = d.currentTerm
      BY <2>4 DEF RuntimeStep, Outgoing
    <3> QED
      BY <2>1, <2>2, <3>1
  <2> QED
    BY <2>3, <2>4
<1> QED
  BY <1>5, <1>6, <1>7, RuntimeStepValues, PipelineInvFrom

LEMMA PersistRuntime ==
  ASSUME PipelineInv, NEW i \in Server, Persist(i)
  PROVE  \E d \in Disk :
           /\ d = [currentTerm |-> currentTerm[i], votedFor |-> votedFor[i],
                   commitIndex |-> commitIndex[i], log |-> log[i],
                   appliedIndex |-> disk[i].appliedIndex]
           /\ RuntimeStep(i, "finish", healthy[i], d, machine[i], appliedIndex[i], Volatile(i))
<1>0. TypeOK
  BY DEF PipelineInv
<1>1. PICK d : d = [currentTerm |-> currentTerm[i], votedFor |-> votedFor[i],
                    commitIndex |-> commitIndex[i], log |-> log[i],
                    appliedIndex |-> disk[i].appliedIndex]
  OBVIOUS
<1>2. d \in Disk
  BY <1>0, <1>1, CoreFields, DiskFields DEF Disk
<1>3. disk' = [disk EXCEPT ![i] = d]
  BY <1>0, <1>1 DEF Persist, TypeOK, RuntimeTypeOK
<1>4. RuntimeStep(i, "finish", healthy[i], d, machine[i], appliedIndex[i], Volatile(i))
  BY <1>3, Same DEF Persist, RuntimeStep
<1> QED
  BY <1>1, <1>2, <1>4

LEMMA PersistPipelineInv ==
  ASSUME PipelineInv, NEW i \in Server, Persist(i)
  PROVE  PipelineInv' /\ OthersUntouched(i)
<1>0. TypeOK /\ NodeInv(i) /\ phase[i] = "persist"
  BY DEF PipelineInv, Persist
<1>1. PICK d \in Disk :
        /\ d = [currentTerm |-> currentTerm[i], votedFor |-> votedFor[i],
                commitIndex |-> commitIndex[i], log |-> log[i],
                appliedIndex |-> disk[i].appliedIndex]
        /\ RuntimeStep(i, "finish", healthy[i], d, machine[i], appliedIndex[i], Volatile(i))
  BY PersistRuntime
<1>2. /\ d.currentTerm = currentTerm[i] /\ d.votedFor = votedFor[i]
      /\ d.commitIndex = commitIndex[i] /\ d.log = log[i]
      /\ d.appliedIndex = disk[i].appliedIndex
  BY <1>1
<1>3. /\ d.currentTerm >= disk[i].currentTerm
      /\ d.commitIndex <= Len(d.log) /\ d.appliedIndex <= d.commitIndex
  BY <1>0, <1>2 DEF NodeInv, BatchFits
<1>4. \A m \in Outgoing(i) : m.term = d.currentTerm
  <2>1. Mem!Reaction(i, Dur!Member(i), Mem!Member(i), Outgoing(i), messages)
    BY <1>0 DEF NodeInv, StepIsPending
  <2>2. PICK s, t, sent, ms :
         /\ s = Dur!Member(i)
         /\ t = Mem!Member(i)
         /\ sent = Outgoing(i)
         /\ ms = messages
    OBVIOUS
  <2>3. Mem!Reaction(i, s, t, sent, ms)
    BY <2>1, <2>2
  <2>4. \A m \in sent : m.term = t.currentTerm
    BY <2>3, Assumptions, FiniteInBoth, Mem!ReactionSends
  <2>5. t.currentTerm = currentTerm[i]
    BY <2>2 DEF Mem!Member
  <2> QED
    BY <1>2, <2>2, <2>4, <2>5
<1>5. /\ phase'[i] = "finish" /\ disk'[i] = d /\ settled'[i] = Volatile(i) /\ SameCore(i)
      /\ Outgoing(i)' = Outgoing(i) \/ Outgoing(i)' = {}
  BY <1>1, RuntimeStepValues
<1>6. Mem!Member(i)' = Dur!Member(i)'
  <2>1. /\ disk'[i].currentTerm = currentTerm'[i] /\ disk'[i].votedFor = votedFor'[i]
        /\ disk'[i].commitIndex = commitIndex'[i] /\ disk'[i].log = log'[i]
    BY <1>2, <1>5 DEF SameCore
  <2>2. /\ settled'[i].role = role'[i] /\ settled'[i].leaderId = leaderId'[i]
        /\ settled'[i].votes = votes'[i] /\ settled'[i].nextIndex = nextIndex'[i]
        /\ settled'[i].matchIndex = matchIndex'[i]
    BY <1>5 DEF SameCore, Volatile
  <2> QED
    BY <2>1, <2>2 DEF Mem!Member, Dur!Member
<1>7. Outgoing(i)' \subseteq accepted'
  BY <1>5 DEF Persist
<1>8. NodeInv(i)'
  BY <1>3, <1>5, <1>6, <1>7 DEF NodeInv, DiskIsOrdered, MemoryIsDisk, HeldBack, StepIsPending,
     DownIsFresh, BatchFits, ApplyIsDue
<1>9. "finish" \in Phase
  BY DEF Phase
<1> QED
  BY <1>1, <1>3, <1>4, <1>8, <1>9, Same, RuntimeStepInv

\* The steps of a Ready once it is persisted change nothing of the disk but its applied
\* index.
LEMMA MembersAfter ==
  ASSUME PipelineInv, NEW i \in Server, SameCore(i), settled'[i] = settled[i],
         disk'[i] = disk[i] \/ disk'[i] = [disk[i] EXCEPT !.appliedIndex = NextApplied(i)]
  PROVE  /\ Mem!Member(i)' = Mem!Member(i) /\ Dur!Member(i)' = Dur!Member(i)
         /\ disk'[i].currentTerm = disk[i].currentTerm /\ disk'[i].votedFor = disk[i].votedFor
         /\ disk'[i].commitIndex = disk[i].commitIndex /\ disk'[i].log = disk[i].log
<1>1. disk[i] \in Disk
  BY DiskFields DEF PipelineInv
<1>2. /\ disk'[i].currentTerm = disk[i].currentTerm /\ disk'[i].votedFor = disk[i].votedFor
      /\ disk'[i].commitIndex = disk[i].commitIndex /\ disk'[i].log = disk[i].log
  BY <1>1 DEF Disk
<1>3. Mem!Member(i)' = Mem!Member(i)
  BY DEF Mem!Member, SameCore
<1>4. Dur!Member(i)' = Dur!Member(i)
  BY <1>2 DEF Dur!Member
<1> QED
  BY <1>2, <1>3, <1>4

\* Those steps keep the term of the disk.
LEMMA LaterStepInv ==
  ASSUME PipelineInv, NEW i \in Server,
         NEW p \in Phase, NEW h \in BOOLEAN, NEW d \in Disk, NEW q \in Seq(Command), NEW a \in Nat,
         NEW v, v = settled[i] \/ v = Fresh,
         RuntimeStep(i, p, h, d, q, a, v), a <= commitIndex[i],
         d.currentTerm = disk[i].currentTerm, accepted' = accepted, NodeInv(i)'
  PROVE  PipelineInv' /\ OthersUntouched(i)
<1>1. d.currentTerm \in Nat
  BY DEF Disk
<1>2. d.currentTerm >= disk[i].currentTerm
  BY <1>1
<1> QED
  BY <1>2, RuntimeStepInv

LEMMA SendMessagesPipelineInv ==
  ASSUME PipelineInv, NEW i \in Server, SendMessages(i)
  PROVE  PipelineInv' /\ OthersUntouched(i)
<1>0. TypeOK /\ NodeInv(i) /\ phase[i] = "finish" /\ Outgoing(i) \subseteq accepted
  BY DEF PipelineInv, NodeInv, HeldBack, SendMessages, MaySend
<1>1. RuntimeStep(i, "finish", healthy[i], disk[i], machine[i], appliedIndex[i], settled[i])
  BY <1>0, Same DEF SendMessages, MaySend, RuntimeStep, history
<1>2. /\ phase'[i] = "finish" /\ disk'[i] = disk[i] /\ settled'[i] = settled[i] /\ SameCore(i)
      /\ accepted' = accepted
  BY <1>1, RuntimeStepValues DEF SendMessages, history
<1>3. Outgoing(i)' = {}
  BY DEF SendMessages, Outgoing
<1>4. Mem!Member(i)' = Mem!Member(i) /\ Dur!Member(i)' = Dur!Member(i)
  BY <1>2, MembersStay
<1>5. NodeInv(i)'
  BY <1>0, <1>2, <1>3, <1>4 DEF NodeInv, DiskIsOrdered, MemoryIsDisk, HeldBack,
     StepIsPending, DownIsFresh, BatchFits, ApplyIsDue
<1>6. "finish" \in Phase
  BY DEF Phase
<1> QED
  BY <1>1, <1>2, <1>5, <1>6, Same, LaterStepInv

LEMMA RecordAppliedIs ==
  ASSUME PipelineInv, NEW i \in Server, RecordApplied(i)
  PROVE  \E d \in Disk :
           /\ d = [disk[i] EXCEPT !.appliedIndex = NextApplied(i)]
           /\ disk' = [disk EXCEPT ![i] = d]
           /\ d.currentTerm = disk[i].currentTerm /\ d.commitIndex = disk[i].commitIndex
           /\ d.log = disk[i].log /\ d.appliedIndex = NextApplied(i)
<1>1. disk \in [Server -> Disk] /\ disk[i] \in Disk /\ NextApplied(i) \in Nat
  BY DiskFields DEF PipelineInv, TypeOK, RuntimeTypeOK, NextApplied
<1>2. PICK d : d = [disk[i] EXCEPT !.appliedIndex = NextApplied(i)]
  OBVIOUS
<1>3. d \in Disk /\ d.appliedIndex = NextApplied(i)
  BY <1>1, <1>2 DEF Disk
<1>4. d.currentTerm = disk[i].currentTerm /\ d.commitIndex = disk[i].commitIndex
      /\ d.log = disk[i].log
  BY <1>1, <1>2 DEF Disk
<1>5. disk' = [disk EXCEPT ![i] = d]
  BY <1>1, <1>2 DEF RecordApplied
<1> QED
  BY <1>2, <1>3, <1>4, <1>5

\* The committed prefix of the disk is that of memory while entries are applied.
LEMMA CommittedHere ==
  ASSUME PipelineInv, NEW i \in Server, phase[i] \in {"idle", "finish", "apply"}
  PROVE  /\ disk[i].currentTerm = currentTerm[i] /\ disk[i].votedFor = votedFor[i]
         /\ disk[i].commitIndex = commitIndex[i] /\ disk[i].log = log[i]
         /\ commitIndex[i] \in Nat /\ NextApplied(i) \in Nat /\ disk[i].appliedIndex \in Nat
<1>1. Mem!Member(i) = Dur!Member(i) /\ TypeOK
  BY DEF PipelineInv, NodeInv, MemoryIsDisk
<1> QED
  BY <1>1, CoreFields, DiskFields DEF Mem!Member, Dur!Member, NextApplied

LEMMA SkipNoopPipelineInv ==
  ASSUME PipelineInv, NEW i \in Server, SkipNoop(i)
  PROVE  PipelineInv' /\ OthersUntouched(i)
<1>0. NodeInv(i) /\ phase[i] = "finish" /\ Outgoing(i) = {} /\ NextApplied(i) <= commitIndex[i]
  BY DEF PipelineInv, SkipNoop, MayApply
<1>1. PICK d \in Disk :
        /\ d = [disk[i] EXCEPT !.appliedIndex = NextApplied(i)]
        /\ disk' = [disk EXCEPT ![i] = d]
        /\ d.currentTerm = disk[i].currentTerm /\ d.commitIndex = disk[i].commitIndex
        /\ d.log = disk[i].log /\ d.appliedIndex = NextApplied(i)
  BY RecordAppliedIs DEF SkipNoop
<1>2. RuntimeStep(i, "finish", healthy[i], d, machine[i], appliedIndex[i], settled[i])
  BY <1>0, <1>1, Same DEF SkipNoop, RuntimeStep, history
<1>3. /\ phase'[i] = "finish" /\ disk'[i] = d /\ settled'[i] = settled[i] /\ SameCore(i)
      /\ Outgoing(i)' = {} /\ accepted' = accepted
  BY <1>0, <1>2, RuntimeStepValues DEF SkipNoop, history
<1>4. Mem!Member(i)' = Mem!Member(i) /\ Dur!Member(i)' = Dur!Member(i)
  BY <1>1, <1>3, MembersAfter
<1>5. DiskIsOrdered(i)'
  BY <1>0, <1>1, <1>3, CommittedHere DEF NodeInv, DiskIsOrdered
<1>6. NodeInv(i)'
  BY <1>0, <1>3, <1>4, <1>5 DEF NodeInv, MemoryIsDisk, HeldBack,
     StepIsPending, DownIsFresh, BatchFits, ApplyIsDue
<1>7. "finish" \in Phase /\ d.currentTerm = disk[i].currentTerm /\ accepted' = accepted
  BY <1>1, <1>3 DEF Phase
<1> QED
  BY <1>2, <1>6, <1>7, Same, LaterStepInv

LEMMA ApplyCommandPipelineInv ==
  ASSUME PipelineInv, NEW i \in Server, ApplyCommand(i)
  PROVE  PipelineInv' /\ OthersUntouched(i)
<1>0. /\ NodeInv(i) /\ phase[i] = "finish" /\ Outgoing(i) = {} /\ NextApplied(i) <= commitIndex[i]
      /\ log[i][NextApplied(i)].command # Noop
  BY DEF PipelineInv, ApplyCommand, MayApply
<1>1. PICK q : q = Append(machine[i], log[i][NextApplied(i)].command)
  OBVIOUS
<1>2. q \in Seq(Command)
  <2>1. /\ log[i] \in Seq(Core!Entry) /\ NextApplied(i) \in 1 .. Len(log[i])
    BY <1>0, CommittedHere, CoreFields DEF PipelineInv, NextApplied
  <2>2. log[i][NextApplied(i)] \in Core!Entry
    BY <2>1
  <2>3. log[i][NextApplied(i)].command \in Command
    BY <1>0, <2>2 DEF Core!Entry
  <2> QED
    BY <1>1, <2>3, Same
<1>3. RuntimeStep(i, "apply", healthy[i], disk[i], q, appliedIndex[i], settled[i])
  BY <1>1, Same DEF ApplyCommand, RuntimeStep, history
<1>4. /\ phase'[i] = "apply" /\ disk'[i] = disk[i] /\ settled'[i] = settled[i] /\ SameCore(i)
      /\ Outgoing(i)' = {} /\ accepted' = accepted
  BY <1>0, <1>3, RuntimeStepValues DEF ApplyCommand, history
<1>5. Mem!Member(i)' = Mem!Member(i) /\ Dur!Member(i)' = Dur!Member(i)
  BY <1>4, MembersStay
<1>6. NodeInv(i)'
  BY <1>0, <1>4, <1>5 DEF NodeInv, DiskIsOrdered, MemoryIsDisk, HeldBack,
     StepIsPending, DownIsFresh, BatchFits, ApplyIsDue, NextApplied, SameCore
<1>7. "apply" \in Phase
  BY DEF Phase
<1> QED
  BY <1>2, <1>3, <1>4, <1>6, <1>7, Same, LaterStepInv

LEMMA FinishCommandPipelineInv ==
  ASSUME PipelineInv, NEW i \in Server, FinishCommand(i)
  PROVE  PipelineInv' /\ OthersUntouched(i)
<1>0. NodeInv(i) /\ phase[i] = "apply" /\ Outgoing(i) = {} /\ NextApplied(i) <= commitIndex[i]
  BY DEF PipelineInv, NodeInv, HeldBack, ApplyIsDue, FinishCommand
<1>1. PICK d \in Disk :
        /\ d = [disk[i] EXCEPT !.appliedIndex = NextApplied(i)]
        /\ disk' = [disk EXCEPT ![i] = d]
        /\ d.currentTerm = disk[i].currentTerm /\ d.commitIndex = disk[i].commitIndex
        /\ d.log = disk[i].log /\ d.appliedIndex = NextApplied(i)
  BY RecordAppliedIs DEF FinishCommand
<1>2. RuntimeStep(i, "finish", healthy[i], d, machine[i], appliedIndex[i], settled[i])
  BY <1>1, Same DEF FinishCommand, RuntimeStep, history
<1>3. /\ phase'[i] = "finish" /\ disk'[i] = d /\ settled'[i] = settled[i] /\ SameCore(i)
      /\ Outgoing(i)' = {} /\ accepted' = accepted
  BY <1>0, <1>2, RuntimeStepValues DEF FinishCommand, history
<1>4. Mem!Member(i)' = Mem!Member(i) /\ Dur!Member(i)' = Dur!Member(i)
  BY <1>1, <1>3, MembersAfter
<1>5. DiskIsOrdered(i)'
  BY <1>0, <1>1, <1>3, CommittedHere DEF NodeInv, DiskIsOrdered
<1>6. NodeInv(i)'
  BY <1>0, <1>3, <1>4, <1>5 DEF NodeInv, MemoryIsDisk, HeldBack,
     StepIsPending, DownIsFresh, BatchFits, ApplyIsDue
<1>7. "finish" \in Phase /\ d.currentTerm = disk[i].currentTerm /\ accepted' = accepted
  BY <1>1, <1>3 DEF Phase
<1> QED
  BY <1>2, <1>6, <1>7, Same, LaterStepInv

LEMMA AdvancePipelineInv ==
  ASSUME PipelineInv, NEW i \in Server, Advance(i)
  PROVE  PipelineInv' /\ OthersUntouched(i)
<1>0. NodeInv(i) /\ phase[i] = "finish" /\ Outgoing(i) = {}
  BY DEF PipelineInv, Advance
<1>1. RuntimeStep(i, "idle", healthy[i], disk[i], machine[i], commitIndex[i], settled[i])
  BY Same DEF Advance, RuntimeStep, history
<1>2. /\ phase'[i] = "idle" /\ disk'[i] = disk[i] /\ settled'[i] = settled[i] /\ SameCore(i)
      /\ Outgoing(i)' = {} /\ accepted' = accepted
  BY <1>0, <1>1, RuntimeStepValues DEF Advance, history
<1>3. Mem!Member(i)' = Mem!Member(i) /\ Dur!Member(i)' = Dur!Member(i)
  BY <1>2, MembersStay
<1>4. NodeInv(i)'
  BY <1>0, <1>2, <1>3 DEF NodeInv, DiskIsOrdered, MemoryIsDisk, HeldBack,
     StepIsPending, DownIsFresh, BatchFits, ApplyIsDue
<1>5. "idle" \in Phase /\ commitIndex[i] \in Nat /\ commitIndex[i] <= commitIndex[i]
  BY CoreFields DEF Phase, PipelineInv
<1> QED
  BY <1>1, <1>2, <1>4, <1>5, Same, LaterStepInv

LEMMA TimerPipelineInv ==
  ASSUME PipelineInv, NEW i \in Server, TimerFindsCoreStuck(i)
  PROVE  PipelineInv' /\ OthersUntouched(i)
<1>0. NodeInv(i) /\ phase[i] = "stuck" /\ Outgoing(i) = {}
  BY DEF PipelineInv, NodeInv, HeldBack, TimerFindsCoreStuck
<1>1. RuntimeStep(i, "stuck", FALSE, disk[i], machine[i], appliedIndex[i], settled[i])
  BY <1>0, Same DEF TimerFindsCoreStuck, RuntimeStep, history
<1>2. /\ phase'[i] = "stuck" /\ disk'[i] = disk[i] /\ settled'[i] = settled[i] /\ SameCore(i)
      /\ Outgoing(i)' = {} /\ accepted' = accepted
  BY <1>0, <1>1, RuntimeStepValues DEF TimerFindsCoreStuck, history
<1>3. NodeInv(i)'
  BY <1>0, <1>2 DEF NodeInv, DiskIsOrdered, MemoryIsDisk, HeldBack,
     StepIsPending, DownIsFresh, BatchFits, ApplyIsDue
<1>4. "stuck" \in Phase
  BY DEF Phase
<1> QED
  BY <1>1, <1>2, <1>3, <1>4, Same, LaterStepInv

\* A Ready that fails, whichever way.
LEMMA AbandonPipelineInv ==
  ASSUME PipelineInv, NEW i \in Server, NEW h \in BOOLEAN,
         healthy' = [healthy EXCEPT ![i] = h], Abandon(i)
  PROVE  PipelineInv' /\ OthersUntouched(i)
<1>0. NodeInv(i)
  BY DEF PipelineInv
<1>1. RuntimeStep(i, "stuck", h, disk[i], machine[i], appliedIndex[i], settled[i])
  BY Same DEF Abandon, RuntimeStep, history
<1>2. /\ phase'[i] = "stuck" /\ disk'[i] = disk[i] /\ settled'[i] = settled[i] /\ SameCore(i)
      /\ accepted' = accepted
  BY <1>1, RuntimeStepValues DEF Abandon, history
<1>3. Outgoing(i)' = {}
  BY DEF Abandon, Outgoing
<1>4. NodeInv(i)'
  BY <1>0, <1>2, <1>3 DEF NodeInv, DiskIsOrdered, MemoryIsDisk, HeldBack,
     StepIsPending, DownIsFresh, BatchFits, ApplyIsDue
<1>5. "stuck" \in Phase
  BY DEF Phase
<1> QED
  BY <1>1, <1>2, <1>4, <1>5, Same, LaterStepInv

LEMMA CrashPipelineInv ==
  ASSUME PipelineInv, NEW i \in Server, Crash(i)
  PROVE  PipelineInv' /\ OthersUntouched(i)
<1>0. NodeInv(i)
  BY DEF PipelineInv
<1>a. PICK q \in Seq(Command) : q = <<>>
  <2>1. <<>> \in Seq(Command)
    OBVIOUS
  <2> QED
    BY <2>1, Zenon
<1>1. RuntimeStep(i, "down", healthy[i], disk[i], q, appliedIndex[i], Fresh)
  BY <1>a, Same DEF Crash, RuntimeStep
<1>2. /\ phase'[i] = "down" /\ disk'[i] = disk[i] /\ settled'[i] = Fresh /\ SameCore(i)
      /\ accepted' = accepted
  BY <1>1, RuntimeStepValues DEF Crash
<1>3. Outgoing(i)' = {}
  BY DEF Crash, Outgoing
<1>4. NodeInv(i)'
  BY <1>0, <1>2, <1>3 DEF NodeInv, DiskIsOrdered, MemoryIsDisk, HeldBack,
     StepIsPending, DownIsFresh, BatchFits, ApplyIsDue, Fresh
<1>5. "down" \in Phase
  BY DEF Phase
<1> QED
  BY <1>1, <1>2, <1>4, <1>5, Same, LaterStepInv

\* A process that starts again is as its disk says, and knows nothing else.
LEMMA StartPipelineInv ==
  ASSUME PipelineInv, NEW i \in Server, Start(i)
  PROVE  PipelineInv' /\ OthersUntouched(i)
<1>0. /\ TypeOK /\ SettledType /\ NodeInv(i) /\ Outgoing(i) = {} /\ settled[i] = Fresh
      /\ phase[i] = "down"
  BY DEF PipelineInv, NodeInv, HeldBack, DownIsFresh, Start
<1>1. disk[i].commitIndex <= Len(disk[i].log) /\ disk[i].commitIndex \in Nat
  BY <1>0, DiskFields DEF NodeInv, DiskIsOrdered
<1>2. PICK d \in Disk :
        /\ d = [disk[i] EXCEPT !.appliedIndex = disk[i].commitIndex]
        /\ disk' = [disk EXCEPT ![i] = d]
        /\ d.currentTerm = disk[i].currentTerm /\ d.votedFor = disk[i].votedFor
        /\ d.commitIndex = disk[i].commitIndex
        /\ d.log = disk[i].log /\ d.appliedIndex = disk[i].commitIndex
  <2>1. PICK d : d = [disk[i] EXCEPT !.appliedIndex = disk[i].commitIndex]
    OBVIOUS
  <2>2. disk \in [Server -> Disk] /\ disk[i] \in Disk
    BY <1>0, DiskFields DEF TypeOK, RuntimeTypeOK
  <2>3. d \in Disk /\ d.appliedIndex = disk[i].commitIndex
    BY <1>1, <2>1, <2>2 DEF Disk
  <2>4. /\ d.currentTerm = disk[i].currentTerm /\ d.votedFor = disk[i].votedFor
        /\ d.commitIndex = disk[i].commitIndex /\ d.log = disk[i].log
    BY <2>1, <2>2 DEF Disk
  <2>5. disk' = [disk EXCEPT ![i] = d]
    BY <2>1, <2>2 DEF Start
  <2> QED
    BY <2>1, <2>3, <2>4, <2>5
<1>3. /\ phase'[i] = "idle" /\ disk'[i] = d /\ settled'[i] = settled[i] /\ Outgoing(i)' = {}
      /\ accepted' = accepted /\ outbound' = outbound /\ messages' = messages
  BY <1>0, <1>2 DEF Start, history, Outgoing, TypeOK, RuntimeTypeOK
<1>4. /\ currentTerm'[i] = disk[i].currentTerm /\ votedFor'[i] = disk[i].votedFor
      /\ commitIndex'[i] = disk[i].commitIndex /\ log'[i] = disk[i].log
      /\ role'[i] = Fresh.role /\ leaderId'[i] = Fresh.leaderId /\ votes'[i] = Fresh.votes
      /\ nextIndex'[i] = Fresh.nextIndex /\ matchIndex'[i] = Fresh.matchIndex
  BY <1>0 DEF Start, LoadVote, TypeOK, CoreTypeOK, Core!MemberTypeOK, Core!LogTypeOK
<1>5. \A j \in Server \ {i} : SameCore(j)
  BY <1>0 DEF Start, LoadVote, SameCore, TypeOK, CoreTypeOK, Core!MemberTypeOK, Core!LogTypeOK
<1>6. OthersUntouched(i)
  BY <1>0, <1>2, <1>3, <1>5
     DEF Start, history, OthersUntouched, Untouched, Outgoing, TypeOK, RuntimeTypeOK
<1>7. (Core!MemberTypeOK /\ Core!LogTypeOK /\ Core!MessagesTypeOK)'
  <2>1. /\ disk[i].currentTerm \in Nat /\ disk[i].votedFor \in Server \cup {Nil}
        /\ disk[i].log \in Seq(Core!Entry)
    BY <1>0, DiskFields
  <2>2. /\ Fresh.role \in Core!Role /\ Fresh.leaderId \in Server \cup {Nil}
        /\ Fresh.votes \in SUBSET Server /\ Fresh.nextIndex \in [Server -> Nat \ {0}]
        /\ Fresh.matchIndex \in [Server -> Nat]
    BY DEF Fresh, Core!Role
  <2>3. Core!MemberTypeOK'
    BY <1>0, <2>1, <2>2 DEF Start, LoadVote, TypeOK, CoreTypeOK, Core!MemberTypeOK
  <2>4. Core!LogTypeOK'
    BY <1>0, <1>1, <2>1 DEF Start, TypeOK, CoreTypeOK, Core!LogTypeOK
  <2>5. Core!MessagesTypeOK'
    BY <1>0, <1>3 DEF TypeOK, CoreTypeOK, Core!MessagesTypeOK
  <2> QED
    BY <2>3, <2>4, <2>5
<1>8. TypeOK'
  <2>1. PICK q : q = Replayed(i)
    OBVIOUS
  <2>2. q \in Seq(Command)
    <3>1. PICK lg, c : lg = disk[i].log /\ c = disk[i].commitIndex
      OBVIOUS
    <3>2. lg \in Seq(Core!Entry) /\ c \in 0 .. Len(lg)
      BY <1>0, <1>1, <3>1, DiskFields
    <3>3. CommandsUpTo(lg, c) \in Seq(Command)
      BY <3>2, CommandsType
    <3> QED
      BY <2>1, <3>1, <3>3 DEF Replayed
  <2>3. PICK a \in Nat : a = disk[i].commitIndex
    BY <1>1
  <2>4. /\ phase' = [phase EXCEPT ![i] = "idle"] /\ healthy' = [healthy EXCEPT ![i] = TRUE]
        /\ machine' = [machine EXCEPT ![i] = q]
        /\ appliedIndex' = [appliedIndex EXCEPT ![i] = a]
    BY <2>1, <2>3 DEF Start
  <2>5. a <= commitIndex'[i] /\ \A j \in Server \ {i} : commitIndex'[j] = commitIndex[j]
    BY <1>4, <1>5, <2>3 DEF SameCore
  <2>6. messages' \subseteq accepted' /\ accepted' \subseteq Core!RaftMessage
    BY <1>0, <1>3 DEF TypeOK, RuntimeTypeOK
  <2>7. "idle" \in Phase
    BY DEF Phase
  <2> QED
    BY <1>0, <1>2, <1>7, <2>2, <2>4, <2>5, <2>6, <2>7, RuntimeTypeStays
<1>9. SettledType'
  BY <1>0 DEF Start, history, SettledType
<1>10. Mem!Member(i)' = Dur!Member(i)'
  <2>1. /\ disk'[i].currentTerm = currentTerm'[i] /\ disk'[i].votedFor = votedFor'[i]
        /\ disk'[i].commitIndex = commitIndex'[i] /\ disk'[i].log = log'[i]
    BY <1>2, <1>3, <1>4
  <2>2. /\ settled'[i].role = role'[i] /\ settled'[i].leaderId = leaderId'[i]
        /\ settled'[i].votes = votes'[i] /\ settled'[i].nextIndex = nextIndex'[i]
        /\ settled'[i].matchIndex = matchIndex'[i]
    BY <1>0, <1>3, <1>4
  <2> QED
    BY <2>1, <2>2 DEF Mem!Member, Dur!Member
<1>11. DiskIsOrdered(i)'
  <2>1. /\ disk'[i].commitIndex = disk[i].commitIndex /\ disk'[i].log = disk[i].log
        /\ disk'[i].appliedIndex = disk[i].commitIndex
    BY <1>2, <1>3
  <2> QED
    BY <1>1, <2>1 DEF DiskIsOrdered
<1>12. NodeInv(i)'
  BY <1>3, <1>10, <1>11 DEF NodeInv, MemoryIsDisk, HeldBack,
     StepIsPending, DownIsFresh, BatchFits, ApplyIsDue
<1>13. TermsAreDurable'
  <2> SUFFICES ASSUME NEW m \in accepted'
               PROVE  m.term <= disk'[m.from].currentTerm
    BY DEF TermsAreDurable
  <2>1. m.from \in Server /\ m.term <= disk[m.from].currentTerm
    BY <1>0, <1>3, MemType DEF PipelineInv, TermsAreDurable
  <2>2. disk'[m.from].currentTerm = disk[m.from].currentTerm
    BY <1>0, <1>2, <1>3, <2>1 DEF TypeOK, RuntimeTypeOK
  <2> QED
    BY <2>1, <2>2
<1> QED
  BY <1>6, <1>8, <1>9, <1>12, <1>13, PipelineInvFrom

LEMMA NextPipelineInv ==
  ASSUME PipelineInv, NEW i \in Server,
         Step(i) \/ HandleReady(i) \/ TimerFindsCoreStuck(i) \/ Failure(i) \/ Start(i)
  PROVE  PipelineInv' /\ OthersUntouched(i)
<1>1. CASE HandleReady(i)
  BY <1>1, PersistPipelineInv, SendMessagesPipelineInv, SkipNoopPipelineInv,
     ApplyCommandPipelineInv, FinishCommandPipelineInv, AdvancePipelineInv DEF HandleReady
<1>2. CASE Failure(i)
  <2>1. CASE PersistFails(i) \/ ApplyFails(i)
    <3>1. healthy' = [healthy EXCEPT ![i] = FALSE] /\ Abandon(i)
      BY <2>1 DEF PersistFails, ApplyFails, Fail
    <3> QED
      BY <3>1, AbandonPipelineInv
  <2>2. CASE SkipNoopFails(i)
    <3>1. healthy' = [healthy EXCEPT ![i] = healthy[i]] /\ healthy[i] \in BOOLEAN /\ Abandon(i)
      BY <2>2, Same DEF SkipNoopFails
    <3> QED
      BY <3>1, AbandonPipelineInv
  <2> QED
    BY <1>2, <2>1, <2>2, CrashPipelineInv DEF Failure
<1> QED
  BY <1>1, <1>2, StepPipelineInv, TimerPipelineInv, StartPipelineInv

LEMMA NothingHappens ==
  ASSUME PipelineInv, UNCHANGED vars
  PROVE  PipelineInv'
<1>1. \A i \in Server : Untouched(i)
  BY DEF vars, core, election, history, Untouched, SameCore, Outgoing
<1>2. \A i \in Server : NodeInv(i)'
  BY <1>1, UntouchedStays DEF PipelineInv
<1>3. TypeOK'
  BY DEF vars, core, election, history, PipelineInv, TypeOK, CoreTypeOK, RuntimeTypeOK,
     Core!MemberTypeOK, Core!LogTypeOK, Core!MessagesTypeOK
<1>4. SettledType' /\ TermsAreDurable'
  BY DEF vars, history, PipelineInv, SettledType, TermsAreDurable
<1> QED
  BY <1>2, <1>3, <1>4 DEF PipelineInv

\* The invariant of the Ready pipeline, whatever fails or crashes and whenever.
THEOREM PipelineIsInOrder == Spec => []PipelineInv
<1>1. PipelineInv /\ [Next]_vars => PipelineInv'
  BY NextPipelineInv, NothingHappens DEF Next
<1> QED
  BY <1>1, InitPipelineInv, PTL DEF Spec

\* Every variable keeps its type and nothing is sent that is not persisted before, with
\* any number of nodes, storages and machines that fail and processes that die: the
\* applied index, which raft.ts asserts is committed, always is.
THEOREM TypeCorrect == Spec => []TypeOK
<1>1. PipelineInv => TypeOK
  BY DEF PipelineInv
<1> QED
  BY <1>1, PipelineIsInOrder, PTL

\* The storage never has a reason to refuse what it is given to persist
\* (restartable-storage.ts, persist), on any cluster.
THEOREM BatchesAreAccepted == Spec => []BatchIsAcceptable
<1>1. PipelineInv => BatchIsAcceptable
  BY DEF PipelineInv, NodeInv, BatchFits, BatchIsAcceptable
<1> QED
  BY <1>1, PipelineIsInOrder, PTL

-----------------------------------------------------------------------------
(* The pipeline implements Raft                                            *)

\* A node whose disk and settled state become those of t becomes t.
LEMMA DurBecomes ==
  ASSUME TypeOK, SettledType, NEW i \in Server,
         NEW d, disk' = [disk EXCEPT ![i] = d], NEW v, settled' = [settled EXCEPT ![i] = v],
         NEW t, t.currentTerm = d.currentTerm, t.votedFor = d.votedFor,
         t.commitIndex = d.commitIndex, t.log = d.log,
         t.role = v.role, t.leaderId = v.leaderId, t.votes = v.votes,
         t.nextIndex = v.nextIndex, t.matchIndex = v.matchIndex
  PROVE  Dur!Becomes(i, t)
<1>1. \A j \in Server : /\ disk'[j] = IF j = i THEN d ELSE disk[j]
                        /\ settled'[j] = IF j = i THEN v ELSE settled[j]
  BY DEF TypeOK, RuntimeTypeOK, SettledType
<1>2. \A j \in Server \ {i} : disk'[j] = disk[j] /\ settled'[j] = settled[j]
  BY <1>1
<1>3. disk'[i] = d /\ settled'[i] = v
  BY <1>1
<1>4. [j \in Server |-> disk'[j].currentTerm]
      = [[j \in Server |-> disk[j].currentTerm] EXCEPT ![i] = t.currentTerm]
  <2>1. \A j \in Server :
          disk'[j].currentTerm =
            IF j = i THEN t.currentTerm ELSE disk[j].currentTerm
    BY <1>2, <1>3
  <2> QED
    BY <2>1
<1>5. [j \in Server |-> disk'[j].votedFor]
      = [[j \in Server |-> disk[j].votedFor] EXCEPT ![i] = t.votedFor]
  <2>1. \A j \in Server : disk'[j].votedFor = IF j = i THEN t.votedFor ELSE disk[j].votedFor
    BY <1>2, <1>3
  <2> QED
    BY <2>1
<1>6. [j \in Server |-> disk'[j].commitIndex]
      = [[j \in Server |-> disk[j].commitIndex] EXCEPT ![i] = t.commitIndex]
  <2>1. \A j \in Server :
          disk'[j].commitIndex =
            IF j = i THEN t.commitIndex ELSE disk[j].commitIndex
    BY <1>2, <1>3
  <2> QED
    BY <2>1
<1>7. [j \in Server |-> disk'[j].log]
      = [[j \in Server |-> disk[j].log] EXCEPT ![i] = t.log]
  <2>1. \A j \in Server : disk'[j].log = IF j = i THEN t.log ELSE disk[j].log
    BY <1>2, <1>3
  <2> QED
    BY <2>1
<1>8. [j \in Server |-> settled'[j].role]
      = [[j \in Server |-> settled[j].role] EXCEPT ![i] = t.role]
  <2>1. \A j \in Server : settled'[j].role = IF j = i THEN t.role ELSE settled[j].role
    BY <1>2, <1>3
  <2> QED
    BY <2>1
<1>9. [j \in Server |-> settled'[j].leaderId]
      = [[j \in Server |-> settled[j].leaderId] EXCEPT ![i] = t.leaderId]
  <2>1. \A j \in Server : settled'[j].leaderId = IF j = i THEN t.leaderId ELSE settled[j].leaderId
    BY <1>2, <1>3
  <2> QED
    BY <2>1
<1>10. [j \in Server |-> settled'[j].votes]
       = [[j \in Server |-> settled[j].votes] EXCEPT ![i] = t.votes]
  <2>1. \A j \in Server : settled'[j].votes = IF j = i THEN t.votes ELSE settled[j].votes
    BY <1>2, <1>3
  <2> QED
    BY <2>1
<1>11. [j \in Server |-> settled'[j].nextIndex]
       = [[j \in Server |-> settled[j].nextIndex] EXCEPT ![i] = t.nextIndex]
  <2>1. \A j \in Server :
          settled'[j].nextIndex =
            IF j = i THEN t.nextIndex ELSE settled[j].nextIndex
    BY <1>2, <1>3
  <2> QED
    BY <2>1
<1>12. [j \in Server |-> settled'[j].matchIndex]
       = [[j \in Server |-> settled[j].matchIndex] EXCEPT ![i] = t.matchIndex]
  <2>1. \A j \in Server :
          settled'[j].matchIndex =
            IF j = i THEN t.matchIndex ELSE settled[j].matchIndex
    BY <1>2, <1>3
  <2> QED
    BY <2>1
<1> QED
  BY <1>4, <1>5, <1>6, <1>7, <1>8, <1>9, <1>10, <1>11, <1>12 DEF Dur!Becomes

\* A core that reacts and whose reaction reaches the disk takes a step of Raft.
LEMMA DurReacts ==
  ASSUME PipelineInv, NEW i \in Server, NEW s, s = Dur!Member(i), NEW t, Dur!Becomes(i, t),
         NEW sent, accepted' = accepted \cup sent, Mem!Reaction(i, s, t, sent, messages)
  PROVE  Dur!Next
<1>1. Dur!TypeOK /\ messages \subseteq accepted
  BY DurType, Same
<1>2. Dur!Send(sent)
  BY DEF Dur!Send
<1>3. PICK ms : ms = messages /\ Dur!Reaction(i, s, t, sent, ms)
  BY SameReaction
<1>4. Dur!StepOf(i, ms)
  BY <1>1, <1>2, <1>3, DurReactionIsStep
<1>5. ms \subseteq accepted
  BY <1>1, <1>3
<1> QED
  BY <1>4, <1>5 DEF Dur!StepOf, Dur!Next

LEMMA DurStutters ==
  ASSUME \A j \in Server :
           /\ disk'[j].currentTerm = disk[j].currentTerm /\ disk'[j].votedFor = disk[j].votedFor
           /\ disk'[j].commitIndex = disk[j].commitIndex /\ disk'[j].log = disk[j].log,
         settled' = settled, accepted' = accepted
  PROVE  UNCHANGED Dur!vars
  BY DEF Dur!vars, Dur!hardState, Dur!progress

\* An event that leaves nothing to do is a step of Raft that changes no hard state; one
\* that returns a Ready is none yet.
LEMMA StepRefines ==
  ASSUME PipelineInv, NEW i \in Server, Step(i)
  PROVE  Dur!Next \/ UNCHANGED Dur!vars
<1>0. TypeOK /\ SettledType /\ disk' = disk /\ accepted' = accepted
  BY DEF PipelineInv, Step
<1>1. CASE ReturnsReady(i)
  <2>1. settled' = settled
    BY <1>0, <1>1 DEF Step, SettledType
  <2> QED
    BY <1>0, <2>1, DurStutters
<1>2. CASE ~ReturnsReady(i)
  <2>1. PICK s, t, sent :
          /\ s = Mem!Member(i) /\ s = Dur!Member(i) /\ t = Mem!Member(i)'
          /\ Mem!Reaction(i, s, t, sent, messages)
          /\ sent = Outgoing(i)'
    BY CoreSteps
  <2>2. sent = {} /\ HardState(i)' = HardState(i) /\ log'[i] = log[i]
    BY <1>2, <2>1 DEF ReturnsReady
  <2>3. /\ currentTerm'[i] = currentTerm[i] /\ votedFor'[i] = votedFor[i]
        /\ commitIndex'[i] = commitIndex[i]
    BY <2>2 DEF HardState
  <2>4. /\ currentTerm[i] = disk[i].currentTerm /\ votedFor[i] = disk[i].votedFor
        /\ commitIndex[i] = disk[i].commitIndex /\ log[i] = disk[i].log
    BY <2>1 DEF Mem!Member, Dur!Member
  <2>5. PICK d, v : d = disk[i] /\ v = Volatile(i)'
    OBVIOUS
  <2>6. disk' = [disk EXCEPT ![i] = d] /\ settled' = [settled EXCEPT ![i] = v]
    BY <1>0, <1>2, <2>5 DEF Step, TypeOK, RuntimeTypeOK
  <2>7. /\ t.currentTerm = d.currentTerm /\ t.votedFor = d.votedFor
        /\ t.commitIndex = d.commitIndex /\ t.log = d.log
    BY <2>1, <2>2, <2>3, <2>4, <2>5 DEF Mem!Member
  <2>8. /\ t.role = v.role /\ t.leaderId = v.leaderId /\ t.votes = v.votes
        /\ t.nextIndex = v.nextIndex /\ t.matchIndex = v.matchIndex
    BY <2>1, <2>5 DEF Mem!Member, Volatile
  <2>9. Dur!Becomes(i, t)
    BY <1>0, <2>6, <2>7, <2>8, DurBecomes
  <2>10. accepted' = accepted \cup sent
    BY <1>0, <2>2
  <2> QED
    BY <2>1, <2>9, <2>10, DurReacts
<1> QED
  BY <1>1, <1>2

\* The step of Raft is taken when the Ready is persisted.
LEMMA PersistRefines ==
  ASSUME PipelineInv, NEW i \in Server, Persist(i)
  PROVE  Dur!Next
<1>0. TypeOK /\ SettledType /\ NodeInv(i) /\ phase[i] = "persist"
  BY DEF PipelineInv, Persist
<1>1. PICK s, t, sent : s = Dur!Member(i) /\ t = Mem!Member(i) /\ sent = Outgoing(i)
  OBVIOUS
<1>2. Mem!Reaction(i, s, t, sent, messages)
  BY <1>0, <1>1 DEF NodeInv, StepIsPending
<1>3. PICK d \in Disk :
        /\ d = [currentTerm |-> currentTerm[i], votedFor |-> votedFor[i],
                commitIndex |-> commitIndex[i], log |-> log[i],
                appliedIndex |-> disk[i].appliedIndex]
        /\ RuntimeStep(i, "finish", healthy[i], d, machine[i], appliedIndex[i], Volatile(i))
  BY PersistRuntime
<1>4. PICK v : v = Volatile(i)
  OBVIOUS
<1>5. disk' = [disk EXCEPT ![i] = d] /\ settled' = [settled EXCEPT ![i] = v]
  BY <1>3, <1>4 DEF RuntimeStep
<1>6. /\ t.currentTerm = d.currentTerm /\ t.votedFor = d.votedFor
      /\ t.commitIndex = d.commitIndex /\ t.log = d.log
  BY <1>1, <1>3 DEF Mem!Member
<1>7. /\ t.role = v.role /\ t.leaderId = v.leaderId /\ t.votes = v.votes
      /\ t.nextIndex = v.nextIndex /\ t.matchIndex = v.matchIndex
  BY <1>1, <1>4 DEF Mem!Member, Volatile
<1>8. Dur!Becomes(i, t)
  BY <1>0, <1>5, <1>6, <1>7, DurBecomes
<1>9. accepted' = accepted \cup sent
  BY <1>1 DEF Persist
<1> QED
  BY <1>1, <1>2, <1>8, <1>9, DurReacts

\* A process that dies is restarted as far as Raft can tell.
LEMMA CrashRefines ==
  ASSUME PipelineInv, NEW i \in Server, Crash(i)
  PROVE  Dur!Next
<1>0. TypeOK /\ SettledType
  BY DEF PipelineInv
<1>1. /\ disk' = disk /\ accepted' = accepted /\ settled' = [settled EXCEPT ![i] = Fresh]
  BY DEF Crash
<1>2. \A j \in Server : settled'[j] = IF j = i THEN Fresh ELSE settled[j]
  BY <1>0, <1>1 DEF SettledType
<1>3. disk[i].currentTerm \in Nat
  BY <1>0, DiskFields
<1>a. PICK v : v = Fresh
  OBVIOUS
<1>b. /\ v.role = "follower" /\ v.leaderId = Nil /\ v.votes = {}
      /\ v.nextIndex = [j \in Server |-> 1] /\ v.matchIndex = [j \in Server |-> 0]
  BY <1>a DEF Fresh
<1>4. Dur!Restart(i)
  <2>1. Dur!ForgetVotesAndProgress(i)
    BY <1>2, <1>a, <1>b DEF Dur!ForgetVotesAndProgress, Dur!AllAt
  <2>2. [j \in Server |-> settled'[j].role]
          = [[j \in Server |-> settled[j].role] EXCEPT ![i] = "follower"]
    BY <1>2, <1>a, <1>b
  <2>3. [j \in Server |-> settled'[j].leaderId]
          = [[j \in Server |-> settled[j].leaderId] EXCEPT ![i] = Nil]
    BY <1>2, <1>a, <1>b
  <2>4. <<i, [j \in Server |-> disk[j].currentTerm][i]>> \in Server \X Nat
    BY <1>3
  <2> QED
    BY <1>1, <2>1, <2>2, <2>3, <2>4 DEF Dur!Restart, Dur!hardState
<1> QED
  BY <1>4 DEF Dur!Next

\* All other steps of the runtime show nothing of themselves on the disk but the applied
\* index.
LEMMA LaterRefines ==
  ASSUME PipelineInv, NEW i \in Server,
         \/ SendMessages(i) \/ SkipNoop(i) \/ ApplyCommand(i) \/ FinishCommand(i) \/ Advance(i)
         \/ TimerFindsCoreStuck(i) \/ Abandon(i) \/ Start(i)
  PROVE  UNCHANGED Dur!vars
<1>1. settled' = settled /\ accepted' = accepted
  BY DEF SendMessages, SkipNoop, ApplyCommand, FinishCommand, Advance, TimerFindsCoreStuck,
     Abandon, Start, history
<1>2. disk \in [Server -> Disk]
  BY DEF PipelineInv, TypeOK, RuntimeTypeOK
<1>3. disk' = disk \/ \E k : disk' = [disk EXCEPT ![i].appliedIndex = k]
  BY DEF SendMessages, SkipNoop, ApplyCommand, FinishCommand, Advance, TimerFindsCoreStuck,
     Abandon, Start, RecordApplied
<1>4. \A j \in Server :
        /\ disk'[j].currentTerm = disk[j].currentTerm /\ disk'[j].votedFor = disk[j].votedFor
        /\ disk'[j].commitIndex = disk[j].commitIndex /\ disk'[j].log = disk[j].log
  BY <1>2, <1>3 DEF Disk
<1> QED
  BY <1>1, <1>4, DurStutters

LEMMA NextRefines ==
  ASSUME PipelineInv, NEW i \in Server,
         Step(i) \/ HandleReady(i) \/ TimerFindsCoreStuck(i) \/ Failure(i) \/ Start(i)
  PROVE  Dur!Next \/ UNCHANGED Dur!vars
<1>1. CASE HandleReady(i)
  BY <1>1, PersistRefines, LaterRefines DEF HandleReady
<1>2. CASE Failure(i)
  BY <1>2, CrashRefines, LaterRefines DEF Failure, PersistFails, SkipNoopFails, ApplyFails
<1> QED
  BY <1>1, <1>2, StepRefines, LaterRefines

LEMMA InitRefines == Init => Dur!Init
<1> SUFFICES ASSUME Init PROVE Dur!Init
  OBVIOUS
<1>1. \A i \in Server :
        /\ disk[i].currentTerm = 0 /\ disk[i].votedFor = Nil /\ disk[i].commitIndex = 0
        /\ disk[i].log = <<>> /\ settled[i] = Fresh
  BY DEF Init
<1>2. /\ Fresh.role = "follower" /\ Fresh.leaderId = Nil /\ Fresh.votes = {}
      /\ Fresh.nextIndex = [j \in Server |-> 1] /\ Fresh.matchIndex = [j \in Server |-> 0]
  BY DEF Fresh
<1> QED
  BY <1>1, <1>2 DEF Init, Dur!Init, Dur!AllAt

\* What the disks hold is a behaviour of Raft, for all that is proved of Raft.
THEOREM DisksAreRaft == Spec => Dur!Spec
<1>1. PipelineInv /\ [Next]_vars => [Dur!Next]_(Dur!vars)
  <2> SUFFICES ASSUME PipelineInv, [Next]_vars
               PROVE  Dur!Next \/ UNCHANGED Dur!vars
    OBVIOUS
  <2>1. CASE Next
    BY <2>1, NextRefines DEF Next
  <2>2. CASE UNCHANGED vars
    BY <2>2 DEF vars, history, Dur!vars, Dur!hardState, Dur!progress
  <2> QED
    BY <2>1, <2>2
<1> QED
  BY <1>1, InitRefines, PipelineIsInOrder, PTL DEF Spec, Dur!Spec

\* The cluster of runtimes implements module Raft: what the disks hold is, after every
\* step of every node, a state that Raft reaches, with restarts, whatever fails or
\* crashes between the steps of a Ready and whatever messages are lost.
THEOREM PipelineImplementsRaft == Spec => ImplementsRaft
<1>1. [Dur!Next]_(Dur!vars) => [Durable!Next]_(Durable!vars)
  <2>1. CASE Dur!Next
    BY <2>1, SameRaft
  <2>2. CASE UNCHANGED Dur!vars
    BY <2>2 DEF Dur!vars, Dur!hardState, Dur!progress,
       Durable!vars, Durable!hardState, Durable!progress
  <2> QED
    BY <2>1, <2>2
<1> QED
  BY <1>1, SameRaft, DisksAreRaft, PTL DEF ImplementsRaft, Durable!Spec, Dur!Spec

-----------------------------------------------------------------------------
(* What holds of the disks because of it                                   *)

LEMMA DurSentStaysTrue == Dur!Spec => []Dur!SentIsHeld
  BY Assumptions, FiniteInBoth, Dur!SentStaysTrue

LEMMA DurStateMachinesAreSafe == Dur!Spec => []Dur!StateMachineSafety
  BY Assumptions, FiniteInBoth, Dur!StateMachinesAreSafe

\* A vote, an append response or an append request that was sent is true of its
\* sender's disk as long as the sender is in that term, on any cluster and whatever fails.
THEOREM SentStaysDurable == Spec => []SentIsDurable
<1>1. PipelineInv /\ Dur!SentIsHeld => SentIsDurable
  <2> SUFFICES ASSUME PipelineInv, Dur!SentIsHeld, NEW m \in messages
               PROVE  LET d == disk[m.from] IN
                      /\ m.term <= d.currentTerm
                      /\ m.type = "request-vote-response" /\ m.voteGranted /\ m.term = d.currentTerm
                           => d.votedFor = m.to
                      /\ m.type = "append-entries-response" /\ m.success /\ m.term = d.currentTerm
                           => m.matchIndex <= Len(d.log)
                      /\ m.type = "append-entries-request" /\ m.term = d.currentTerm
                           => \A k \in DOMAIN m.entries :
                                /\ m.prevLogIndex + k \in DOMAIN d.log
                                /\ d.log[m.prevLogIndex + k] = m.entries[k]
    BY DEF SentIsDurable
  <2>1. m \in accepted /\ m.from \in Server
    BY MemType DEF PipelineInv, TypeOK, RuntimeTypeOK
  <2>2. m.term <= disk[m.from].currentTerm
    BY <2>1 DEF PipelineInv, TermsAreDurable
  <2>3. m.term = disk[m.from].currentTerm =>
          /\ m.type = "request-vote-response" /\ m.voteGranted => disk[m.from].votedFor = m.to
          /\ m.type = "append-entries-response" /\ m.success
               => m.matchIndex <= Len(disk[m.from].log)
          /\ m.type = "append-entries-request" => \A k \in DOMAIN m.entries :
               /\ m.prevLogIndex + k \in DOMAIN disk[m.from].log
               /\ disk[m.from].log[m.prevLogIndex + k] = m.entries[k]
    BY <2>1 DEF Dur!SentIsHeld, Dur!IsGrant, Dur!IsAck, Dur!IsAppend
  <2> QED
    BY <2>2, <2>3
<1> QED
  BY <1>1, PipelineIsInOrder, DisksAreRaft, DurSentStaysTrue, PTL

-----------------------------------------------------------------------------
(* The state machines                                                      *)

\* How far the state machine of a node that handles its Readies has come.
Reached(i) == IF phase[i] = "apply" THEN NextApplied(i) ELSE disk[i].appliedIndex

\* Every state machine was given the commands of a committed prefix of its disk's log,
\* and a node that works knows which.
MachineInv(i) ==
    /\ \E n \in 0 .. disk[i].commitIndex : machine[i] = CommandsUpTo(disk[i].log, n)
    /\ phase[i] \notin {"down", "stuck"} => machine[i] = CommandsUpTo(disk[i].log, Reached(i))

MachinesInv == \A i \in Server : MachineInv(i)

LEMMA UntouchedMachine ==
  ASSUME NEW j \in Server, MachineInv(j), Untouched(j)
  PROVE  MachineInv(j)'
<1>1. /\ phase'[j] = phase[j] /\ disk'[j] = disk[j] /\ machine'[j] = machine[j]
  BY DEF Untouched
<1> QED
  BY <1>1 DEF MachineInv, Reached, NextApplied

\* The steps that touch neither the machine nor what the disk holds.
LEMMA IdleMachine ==
  ASSUME NEW i \in Server, MachineInv(i), disk'[i] = disk[i], machine'[i] = machine[i],
         \/ phase'[i] = "stuck"
         \/ /\ phase[i] \in {"idle", "persist", "finish"}
            /\ phase'[i] \in {"idle", "persist", "finish"}
  PROVE  MachineInv(i)'
  BY DEF MachineInv, Reached

\* What a step of a runtime that touches only its own node makes of it.
LEMMA OwnValues ==
  ASSUME PipelineInv, NEW i \in Server
  PROVE  /\ \A p : phase' = [phase EXCEPT ![i] = p] => phase'[i] = p
         /\ \A q : machine' = [machine EXCEPT ![i] = q] => machine'[i] = q
         /\ \A d : disk' = [disk EXCEPT ![i] = d] => disk'[i] = d
  BY DEF PipelineInv, TypeOK, RuntimeTypeOK

LEMMA PersistMachine ==
  ASSUME PipelineInv, NEW i \in Server, MachineInv(i), Persist(i)
  PROVE  MachineInv(i)'
<1>0. TypeOK /\ NodeInv(i) /\ phase[i] = "persist" /\ machine'[i] = machine[i]
  BY DEF PipelineInv, Persist
<1>1. PICK d \in Disk :
        /\ d = [currentTerm |-> currentTerm[i], votedFor |-> votedFor[i],
                commitIndex |-> commitIndex[i], log |-> log[i],
                appliedIndex |-> disk[i].appliedIndex]
        /\ RuntimeStep(i, "finish", healthy[i], d, machine[i], appliedIndex[i], Volatile(i))
  BY PersistRuntime
<1>2. /\ d.commitIndex = commitIndex[i] /\ d.log = log[i]
      /\ d.appliedIndex = disk[i].appliedIndex
  BY <1>1
<1>3. phase'[i] = "finish" /\ disk'[i] = d
  BY <1>1, RuntimeStepValues
<1>4. /\ disk[i].commitIndex \in Nat /\ commitIndex[i] \in Nat
      /\ disk[i].commitIndex <= commitIndex[i]
      /\ \A k \in 1 .. disk[i].commitIndex : log[i][k] = disk[i].log[k]
      /\ disk[i].appliedIndex \in 0 .. disk[i].commitIndex
  BY <1>0, DiskFields, CoreFields DEF NodeInv, BatchFits, DiskIsOrdered
<1>5. PICK n \in 0 .. disk[i].commitIndex : machine[i] = CommandsUpTo(disk[i].log, n)
  BY DEF MachineInv
<1>6. ASSUME NEW m \in 0 .. disk[i].commitIndex, machine[i] = CommandsUpTo(disk[i].log, m)
      PROVE  m \in 0 .. commitIndex[i] /\ machine[i] = CommandsUpTo(log[i], m)
  <2>1. PICK lg, lg2 : lg = disk[i].log /\ lg2 = log[i]
    OBVIOUS
  <2>2. m \in Nat /\ m \in 0 .. commitIndex[i] /\ \A k \in 1 .. m : lg[k] = lg2[k]
    BY <1>4, <2>1
  <2>3. CommandsUpTo(lg, m) = CommandsUpTo(lg2, m)
    BY <2>2, CommandsOfSame
  <2> QED
    BY <1>6, <2>1, <2>2, <2>3
<1>7. machine[i] = CommandsUpTo(disk[i].log, disk[i].appliedIndex)
  BY <1>0 DEF MachineInv, Reached
<1>8. machine[i] = CommandsUpTo(log[i], disk[i].appliedIndex)
  BY <1>4, <1>6, <1>7
<1>9. n \in 0 .. commitIndex[i] /\ machine[i] = CommandsUpTo(log[i], n)
  BY <1>5, <1>6
<1> QED
  BY <1>0, <1>2, <1>3, <1>8, <1>9 DEF MachineInv, Reached

\* An entry without a command makes no difference to a machine.
LEMMA SkipNoopMachine ==
  ASSUME PipelineInv, NEW i \in Server, MachineInv(i), SkipNoop(i)
  PROVE  MachineInv(i)'
<1>0. /\ phase[i] = "finish" /\ phase' = phase /\ machine' = machine
      /\ NextApplied(i) <= commitIndex[i] /\ log[i][NextApplied(i)].command = Noop
  BY DEF SkipNoop, MayApply
<1>1. PICK d \in Disk :
        /\ d = [disk[i] EXCEPT !.appliedIndex = NextApplied(i)]
        /\ disk' = [disk EXCEPT ![i] = d]
        /\ d.currentTerm = disk[i].currentTerm /\ d.commitIndex = disk[i].commitIndex
        /\ d.log = disk[i].log /\ d.appliedIndex = NextApplied(i)
  BY RecordAppliedIs DEF SkipNoop
<1>2. /\ disk'[i].log = disk[i].log /\ disk'[i].commitIndex = disk[i].commitIndex
      /\ disk'[i].appliedIndex = NextApplied(i)
  <2>1. disk'[i] = d
    BY <1>1, OwnValues
  <2> QED
    BY <1>1, <2>1
<1>3. PICK lg, k : lg = disk[i].log /\ k = disk[i].appliedIndex /\ k \in Nat
  BY <1>0, CommittedHere
<1>4. lg = log[i] /\ NextApplied(i) = k + 1
  BY <1>0, <1>3, CommittedHere DEF NextApplied
<1>5. CommandsUpTo(lg, k + 1) = NextCommands(CommandsUpTo(lg, k), lg[k + 1])
  BY <1>3, CommandsOfNext
<1>6. machine[i] = CommandsUpTo(lg, k + 1)
  BY <1>0, <1>3, <1>4, <1>5 DEF MachineInv, Reached, NextCommands
<1> QED
  BY <1>0, <1>2, <1>3, <1>4, <1>6 DEF MachineInv, Reached

LEMMA ApplyCommandMachine ==
  ASSUME PipelineInv, NEW i \in Server, MachineInv(i), ApplyCommand(i)
  PROVE  MachineInv(i)'
<1>0. /\ phase[i] = "finish" /\ disk' = disk
      /\ NextApplied(i) <= commitIndex[i] /\ log[i][NextApplied(i)].command # Noop
  BY DEF ApplyCommand, MayApply
<1>1. /\ phase'[i] = "apply"
      /\ machine'[i] = Append(machine[i], log[i][NextApplied(i)].command)
  BY DEF ApplyCommand, PipelineInv, TypeOK, RuntimeTypeOK
<1>2. PICK lg, k : lg = disk[i].log /\ k = disk[i].appliedIndex /\ k \in Nat
  BY <1>0, CommittedHere
<1>3. lg = log[i] /\ NextApplied(i) = k + 1 /\ k + 1 \in 0 .. disk[i].commitIndex
  BY <1>0, <1>2, CommittedHere DEF NextApplied
<1>4. CommandsUpTo(lg, k + 1) = NextCommands(CommandsUpTo(lg, k), lg[k + 1])
  BY <1>2, CommandsOfNext
<1>5. machine'[i] = CommandsUpTo(lg, k + 1)
  BY <1>0, <1>1, <1>2, <1>3, <1>4 DEF MachineInv, Reached, NextCommands
<1>6. NextApplied(i)' = NextApplied(i)
  BY <1>0 DEF NextApplied
<1> QED
  BY <1>0, <1>1, <1>2, <1>3, <1>5, <1>6 DEF MachineInv, Reached

LEMMA FinishCommandMachine ==
  ASSUME PipelineInv, NEW i \in Server, MachineInv(i), FinishCommand(i)
  PROVE  MachineInv(i)'
<1>0. phase[i] = "apply" /\ machine' = machine
  BY DEF FinishCommand
<1>1. PICK d \in Disk :
        /\ d = [disk[i] EXCEPT !.appliedIndex = NextApplied(i)]
        /\ disk' = [disk EXCEPT ![i] = d]
        /\ d.currentTerm = disk[i].currentTerm /\ d.commitIndex = disk[i].commitIndex
        /\ d.log = disk[i].log /\ d.appliedIndex = NextApplied(i)
  BY RecordAppliedIs DEF FinishCommand
<1>2. /\ disk'[i].log = disk[i].log /\ disk'[i].commitIndex = disk[i].commitIndex
      /\ disk'[i].appliedIndex = NextApplied(i)
  <2>1. disk'[i] = d
    BY <1>1, OwnValues
  <2> QED
    BY <1>1, <2>1
<1>3. phase'[i] = "finish"
  BY OwnValues DEF FinishCommand
<1> QED
  BY <1>0, <1>2, <1>3 DEF MachineInv, Reached

LEMMA CrashMachine ==
  ASSUME PipelineInv, NEW i \in Server, Crash(i)
  PROVE  MachineInv(i)'
<1>1. phase'[i] = "down" /\ machine'[i] = <<>> /\ disk' = disk
  BY OwnValues DEF Crash
<1>2. machine'[i] = CommandsUpTo(disk[i].log, 0)
  BY <1>1, CommandsOfNone
<1>3. 0 \in 0 .. disk[i].commitIndex
  BY DiskFields DEF PipelineInv
<1> QED
  BY <1>1, <1>2, <1>3 DEF MachineInv

\* create gives a new machine every committed command again.
LEMMA StartMachine ==
  ASSUME PipelineInv, NEW i \in Server, Start(i)
  PROVE  MachineInv(i)'
<1>0. TypeOK /\ disk[i] \in Disk /\ disk \in [Server -> Disk] /\ disk[i].commitIndex \in Nat
  BY DiskFields DEF PipelineInv, TypeOK, RuntimeTypeOK
<1>1. phase'[i] = "idle" /\ machine'[i] = Replayed(i)
  BY OwnValues DEF Start
<1>2. /\ disk'[i].log = disk[i].log /\ disk'[i].commitIndex = disk[i].commitIndex
      /\ disk'[i].appliedIndex = disk[i].commitIndex
  BY <1>0 DEF Start, Disk
<1>3. machine'[i] = CommandsUpTo(disk[i].log, disk[i].commitIndex)
  BY <1>1 DEF Replayed
<1>4. disk[i].commitIndex \in 0 .. disk[i].commitIndex
  BY <1>0
<1> QED
  BY <1>1, <1>2, <1>3, <1>4 DEF MachineInv, Reached

LEMMA NextMachine ==
  ASSUME PipelineInv, NEW i \in Server, MachineInv(i),
         Step(i) \/ HandleReady(i) \/ TimerFindsCoreStuck(i) \/ Failure(i) \/ Start(i)
  PROVE  MachineInv(i)'
<1>1. CASE Step(i)
  <2>1. disk'[i] = disk[i] /\ machine'[i] = machine[i] /\ phase[i] = "idle"
    BY <1>1 DEF Step
  <2>2. phase'[i] \in {"idle", "persist"}
    BY <1>1, StepType
  <2> QED
    BY <2>1, <2>2, IdleMachine
<1>2. CASE SendMessages(i)
  <2>1. disk'[i] = disk[i] /\ machine'[i] = machine[i] /\ phase[i] = "finish" /\ phase' = phase
    BY <1>2 DEF SendMessages, MaySend
  <2> QED
    BY <2>1, IdleMachine
<1>3. CASE Advance(i)
  <2>1. disk'[i] = disk[i] /\ machine'[i] = machine[i] /\ phase[i] = "finish"
    BY <1>3 DEF Advance
  <2>2. phase'[i] = "idle"
    BY <1>3, OwnValues DEF Advance
  <2> QED
    BY <2>1, <2>2, IdleMachine
<1>4. CASE TimerFindsCoreStuck(i)
  <2>1. disk'[i] = disk[i] /\ machine'[i] = machine[i] /\ phase'[i] = "stuck"
    BY <1>4 DEF TimerFindsCoreStuck
  <2> QED
    BY <2>1, IdleMachine
<1>5. CASE Abandon(i)
  <2>1. disk'[i] = disk[i] /\ machine'[i] = machine[i]
    BY <1>5 DEF Abandon
  <2>2. phase'[i] = "stuck"
    BY <1>5, OwnValues DEF Abandon
  <2> QED
    BY <2>1, <2>2, IdleMachine
<1>6. CASE HandleReady(i)
  BY <1>2, <1>3, <1>6, PersistMachine, SkipNoopMachine, ApplyCommandMachine,
     FinishCommandMachine DEF HandleReady
<1>7. CASE Failure(i)
  BY <1>5, <1>7, CrashMachine DEF Failure, PersistFails, SkipNoopFails, ApplyFails
<1> QED
  BY <1>1, <1>4, <1>6, <1>7, StartMachine

\* The invariant of the machines, besides the pipeline's.
THEOREM MachinesAreCommitted == Spec => []MachinesInv
<1>1. Init => MachinesInv
  <2> SUFFICES ASSUME Init, NEW i \in Server
               PROVE  MachineInv(i)
    BY DEF MachinesInv
  <2>1. /\ phase[i] = "idle" /\ machine[i] = <<>> /\ disk[i].commitIndex = 0
        /\ disk[i].appliedIndex = 0
    BY DEF Init
  <2>2. machine[i] = CommandsUpTo(disk[i].log, 0)
    BY <2>1, CommandsOfNone
  <2> QED
    BY <2>1, <2>2 DEF MachineInv, Reached
<1>2. PipelineInv /\ MachinesInv /\ [Next]_vars => MachinesInv'
  <2> SUFFICES ASSUME PipelineInv, MachinesInv, [Next]_vars
               PROVE  MachinesInv'
    OBVIOUS
  <2>1. ASSUME NEW i \in Server,
               Step(i) \/ HandleReady(i) \/ TimerFindsCoreStuck(i) \/ Failure(i) \/ Start(i)
        PROVE  MachinesInv'
    <3>1. MachineInv(i)'
      BY <2>1, NextMachine DEF MachinesInv
    <3>2. \A j \in Server \ {i} : MachineInv(j)'
      BY <2>1, NextPipelineInv, UntouchedMachine DEF OthersUntouched, MachinesInv
    <3> QED
      BY <3>1, <3>2 DEF MachinesInv
  <2>2. CASE UNCHANGED vars
    BY <2>2 DEF vars, MachinesInv, MachineInv, Reached, NextApplied
  <2> QED
    BY <2>1, <2>2 DEF Next
<1> QED
  BY <1>1, <1>2, PipelineIsInOrder, PTL DEF Spec

\* The state machine of a running process was given exactly the committed commands of
\* its disk, in order and once each, up to the applied index, on any cluster, however
\* often its process died and was started again.
THEOREM MachinesFollowDisks == Spec => []MachineFollowsDisk
<1>1. MachinesInv => MachineFollowsDisk
  BY DEF MachinesInv, MachineInv, Reached, MachineFollowsDisk
<1> QED
  BY <1>1, MachinesAreCommitted, PTL

\* The commands up to an earlier entry come first.
LEMMA CommandsGrow ==
  ASSUME NEW lg \in Seq(Core!Entry), NEW n \in Nat, NEW n2 \in Nat, n <= n2, n2 <= Len(lg)
  PROVE  /\ Len(CommandsUpTo(lg, n)) <= Len(CommandsUpTo(lg, n2))
         /\ \A k \in 1 .. Len(CommandsUpTo(lg, n)) :
              CommandsUpTo(lg, n)[k] = CommandsUpTo(lg, n2)[k]
<1> DEFINE first == CommandsUpTo(lg, n)
           Grown(q) == Len(first) <= Len(q) /\ \A k \in 1 .. Len(first) : first[k] = q[k]
           S == {j \in Nat : n + j <= Len(lg) => Grown(CommandsUpTo(lg, n + j))}
<1>0. first \in Seq(Command)
  BY CommandsType
<1>1. 0 \in S
  <2>1. n + 0 = n /\ Len(first) <= Len(first)
    BY <1>0
  <2> QED
    BY <2>1
<1>2. ASSUME NEW j \in Nat, j \in S
      PROVE  j + 1 \in S
  <2>1. SUFFICES ASSUME n + (j + 1) <= Len(lg)
                 PROVE  Grown(CommandsUpTo(lg, n + (j + 1)))
    OBVIOUS
  <2>2. PICK last \in Nat : last = n + j /\ n + (j + 1) = last + 1
    OBVIOUS
  <2>3. last + 1 \in 1 .. Len(lg) /\ last \in 0 .. Len(lg)
    BY <2>1, <2>2
  <2>4. PICK q, e : q = CommandsUpTo(lg, last) /\ e = lg[last + 1]
    OBVIOUS
  <2>5. CommandsUpTo(lg, last + 1) = NextCommands(q, e)
    BY <2>4, CommandsOfNext
  <2>6. q \in Seq(Command) /\ e \in Core!Entry
    BY <2>3, <2>4, CommandsType
  <2>7. Grown(q)
    BY <1>2, <2>2, <2>3, <2>4
  <2>8. Grown(NextCommands(q, e))
    <3> HIDE DEF first
    <3>1. CASE e.command = Noop
      BY <2>7, <3>1 DEF NextCommands
    <3>2. CASE e.command # Noop
      <4>1. e.command \in Command
        BY <2>6, <3>2 DEF Core!Entry
      <4>2. NextCommands(q, e) = Append(q, e.command)
        BY <3>2 DEF NextCommands
      <4>3. /\ Len(Append(q, e.command)) = Len(q) + 1 /\ Len(q) \in Nat /\ Len(first) \in Nat
            /\ \A k \in 1 .. Len(q) : Append(q, e.command)[k] = q[k]
        BY <1>0, <2>6, <4>1
      <4> QED
        BY <2>7, <4>2, <4>3
    <3> QED
      BY <3>1, <3>2
  <2> HIDE DEF Grown
  <2> QED
    BY <2>2, <2>5, <2>8
<1>3. n2 - n \in S
  <2>1. Nat \subseteq S
    <3> HIDE DEF S
    <3> QED
      BY <1>1, <1>2, NumbersByInduction
  <2> QED
    BY <2>1
<1> QED
  <2>1. n + (n2 - n) = n2
    OBVIOUS
  <2> QED
    BY <1>3, <2>1

\* What a replicated state machine is for: the state machines of any two nodes were given
\* the same commands in the same order, as far as both have come, whatever was lost,
\* failed or died, and however often they were started again (README.md:5).
MachinesAgree ==
    \A i, j \in Server :
      \A k \in 1 .. Core!Smaller(Len(machine[i]), Len(machine[j])) :
        machine[i][k] = machine[j][k]

LEMMA PrefixesAgree ==
  ASSUME NEW lg \in Seq(Core!Entry), NEW lg2 \in Seq(Core!Entry),
         NEW n \in 0 .. Len(lg), NEW n2 \in 0 .. Len(lg2), n <= n2,
         \A k \in 1 .. n : lg[k] = lg2[k]
  PROVE  \A k \in 1 .. Len(CommandsUpTo(lg, n)) :
           CommandsUpTo(lg, n)[k] = CommandsUpTo(lg2, n2)[k]
<1>1. CommandsUpTo(lg, n) = CommandsUpTo(lg2, n)
  BY CommandsOfSame
<1>2. n \in Nat /\ n2 \in Nat /\ n2 <= Len(lg2)
  OBVIOUS
<1>3. \A k \in 1 .. Len(CommandsUpTo(lg2, n)) :
        CommandsUpTo(lg2, n)[k] = CommandsUpTo(lg2, n2)[k]
  BY <1>2, CommandsGrow
<1> QED
  BY <1>1, <1>3

\* The entries two machines were given are committed on both disks as far as the one goes
\* that has come less far, and Raft says that they are the same.
THEOREM StateMachinesAgree == Spec => []MachinesAgree
<1>1. PipelineInv /\ MachinesInv /\ Dur!StateMachineSafety => MachinesAgree
  <2> SUFFICES ASSUME PipelineInv, MachinesInv, Dur!StateMachineSafety
               PROVE  MachinesAgree
    OBVIOUS
  <2>1. ASSUME NEW i \in Server
        PROVE  /\ disk[i].log \in Seq(Core!Entry) /\ Len(disk[i].log) \in Nat
               /\ disk[i].commitIndex \in Nat /\ disk[i].commitIndex <= Len(disk[i].log)
               /\ \E n \in 0 .. disk[i].commitIndex : machine[i] = CommandsUpTo(disk[i].log, n)
               /\ Len(machine[i]) \in Nat
    BY DiskFields, Same DEF PipelineInv, NodeInv, DiskIsOrdered, MachinesInv, MachineInv
  <2>2. ASSUME NEW i \in Server, NEW j \in Server,
               NEW n \in 0 .. disk[i].commitIndex, machine[i] = CommandsUpTo(disk[i].log, n),
               NEW n2 \in 0 .. disk[j].commitIndex, machine[j] = CommandsUpTo(disk[j].log, n2),
               n <= n2
        PROVE  \A k \in 1 .. Len(machine[i]) : machine[i][k] = machine[j][k]
    <3>1. PICK lg, lg2 : lg = disk[i].log /\ lg2 = disk[j].log
      OBVIOUS
    <3>2. /\ lg \in Seq(Core!Entry) /\ lg2 \in Seq(Core!Entry)
          /\ n \in 0 .. Len(lg) /\ n2 \in 0 .. Len(lg2)
      BY <2>1, <3>1
    <3>3. \A k \in 1 .. n : lg[k] = lg2[k]
      <4>1. \A k \in 1 .. n : k \in 1 .. Dur!Smaller(disk[i].commitIndex, disk[j].commitIndex)
        BY <2>1, <2>2 DEF Dur!Smaller
      <4> QED
        BY <3>1, <4>1 DEF Dur!StateMachineSafety
    <3>4. \A k \in 1 .. Len(CommandsUpTo(lg, n)) :
            CommandsUpTo(lg, n)[k] = CommandsUpTo(lg2, n2)[k]
      BY <2>2, <3>2, <3>3, PrefixesAgree
    <3> QED
      BY <2>2, <3>1, <3>4
  <2>3. SUFFICES ASSUME NEW i \in Server, NEW j \in Server,
                        NEW k \in 1 .. Core!Smaller(Len(machine[i]), Len(machine[j]))
                 PROVE  machine[i][k] = machine[j][k]
    BY DEF MachinesAgree
  <2>4. k \in 1 .. Len(machine[i]) /\ k \in 1 .. Len(machine[j])
    BY <2>1 DEF Core!Smaller
  <2>5. PICK n \in 0 .. disk[i].commitIndex : machine[i] = CommandsUpTo(disk[i].log, n)
    BY <2>1
  <2>6. PICK n2 \in 0 .. disk[j].commitIndex : machine[j] = CommandsUpTo(disk[j].log, n2)
    BY <2>1
  <2>7. n <= n2 \/ n2 <= n
    BY <2>1
  <2> QED
    BY <2>2, <2>4, <2>5, <2>6, <2>7
<1> QED
  BY <1>1, PipelineIsInOrder, MachinesAreCommitted, DisksAreRaft, DurStateMachinesAreSafe, PTL
=============================================================================
