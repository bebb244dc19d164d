------------------------------- MODULE Storage -------------------------------
(***************************************************************************)
(* The two storages of a node: the volatile MemoryRaftStorage              *)
(* (packages/raft-storage-memory/src/index.ts), which is its own handle,   *)
(* and the durable one of the test cluster and the visualizer              *)
(* (packages/raft-testing/src/restartable-storage.ts), whose state         *)
(* outlives the handles that processes open on it one after the other.     *)
(*                                                                         *)
(* Every call checks that its handle is open, waits one turn of the        *)
(* microtask queue, and then has its effect at once; only the volatile     *)
(* installSnapshot has its effect in two turns.  The owner of a handle     *)
(* makes one call at a time, but may still make calls while, and after,    *)
(* stop closes the handle (node.ts: a message handled after the queue was  *)
(* awaited).  What a call writes is chosen when it is written.             *)
(***************************************************************************)
EXTENDS Integers, Sequences, FiniteSetsExt, Functions

CONSTANTS Candidate,   \* who a vote may be for
          Nil,
          Batches,     \* what callers may ask to persist
          MaxTerm,     \* bound: terms of the snapshots that are installed
          MaxIndex,    \* bound: indexes of snapshots and compactions
          MaxHandles   \* bound: processes that open the durable storage in turn

VARIABLES kind,     \* "volatile" or "durable"
          stored,   \* what the storage holds
          failure,  \* failNext was called, and no batch has met the failure yet
          tasks,    \* the microtasks that are queued
          life,     \* of every handle: how far it has got
          outcome,  \* of every handle: what became of its owner's last call
          view      \* history: what the owner of the newest handle knows of the
                    \* storage from its own calls, Nil if it does not know

vars == <<kind, stored, failure, tasks, life, outcome, view>>

Handle == 1 .. MaxHandles
Index == 1 .. MaxIndex
Term == 1 .. MaxTerm

HardState == [currentTerm : Nat, votedFor : Candidate \cup {Nil}, commitIndex : Nat]
Snapshot == [lastIncludedIndex : Nat, lastIncludedTerm : Nat]
NoSnapshot == [lastIncludedIndex |-> 0, lastIncludedTerm |-> 0]

\* A PersistBatch, with Nil for a field that is not there.  Its fields are free of
\* each other: any snapshot may come with any entries, or alone.
PersistBatch == [hardState : HardState \cup {Nil},
                 truncateFrom : Nat \cup {Nil},
                 entries : Seq([index : Nat, term : Nat]),
                 snapshot : Snapshot \cup {Nil},
                 appliedIndex : Nat \cup {Nil}]

ASSUME NilAssumption == Nil \notin Candidate \cup Nat
ASSUME StorageBounds == {MaxTerm, MaxIndex} \subseteq Nat /\ MaxHandles \in Nat \ {0}
ASSUME BatchesAssumption == Batches \subseteq PersistBatch

\* What is stored.  entries is a function from the indexes it holds, which have no
\* gap between them, to their terms.
IsStored(s) ==
    /\ s = [hardState |-> s.hardState, entries |-> s.entries,
            snapshot |-> s.snapshot, appliedIndex |-> s.appliedIndex]
    /\ s.hardState \in HardState /\ s.snapshot \in Snapshot /\ s.appliedIndex \in Nat
    /\ s.entries \in [DOMAIN s.entries -> Nat]
    /\ DOMAIN s.entries \subseteq Nat
    /\ \A i, j \in DOMAIN s.entries : i .. j \subseteq DOMAIN s.entries

Blank == [hardState |-> [currentTerm |-> 0, votedFor |-> Nil, commitIndex |-> 0],
          entries |-> <<>>, snapshot |-> NoSnapshot, appliedIndex |-> 0]

-----------------------------------------------------------------------------
(* A batch                                                                 *)

\* The last index of a log that follows a snapshot.
LastOf(entries, snapshot) ==
    IF DOMAIN entries = {} THEN snapshot.lastIncludedIndex ELSE Max(DOMAIN entries)

KeptEntries(s, batch) ==
    IF batch.truncateFrom = Nil
      THEN s.entries
      ELSE Restrict(s.entries, {i \in DOMAIN s.entries : i < batch.truncateFrom})

KeptLast(s, batch) == LastOf(KeptEntries(s, batch), s.snapshot)

NextEntries(s, batch) ==
    LET kept == KeptEntries(s, batch)
        last == KeptLast(s, batch)
    IN  [i \in DOMAIN kept \cup (last + 1 .. last + Len(batch.entries)) |->
           IF i \in DOMAIN kept THEN kept[i] ELSE batch.entries[i - last].term]

\* What a field of a batch leaves when it is there, and when it is not.
Given(new, old) == IF new = Nil THEN old ELSE new

NextHardState(s, batch) == Given(batch.hardState, s.hardState)
NextSnapshot(s, batch) == Given(batch.snapshot, s.snapshot)
NextApplied(s, batch) == Given(batch.appliedIndex, s.appliedIndex)

Written(s, batch) == [hardState |-> NextHardState(s, batch),
                      entries |-> NextEntries(s, batch),
                      snapshot |-> NextSnapshot(s, batch),
                      appliedIndex |-> NextApplied(s, batch)]

\* Mutation: the last committed entry may be truncated.
KeepsAllButLast(s, batch) ==
    batch.truncateFrom # Nil => batch.truncateFrom >= s.hardState.commitIndex

KeepsCommitted(s, batch) ==
    batch.truncateFrom # Nil => batch.truncateFrom > s.hardState.commitIndex

IsContiguous(s, batch) ==
    \A k \in DOMAIN batch.entries : batch.entries[k].index = KeptLast(s, batch) + k

HardStateAdvances(s, batch) ==
    /\ NextHardState(s, batch).currentTerm >= s.hardState.currentTerm
    /\ NextHardState(s, batch).commitIndex >= s.hardState.commitIndex

AppliedAdvances(s, batch) ==
    /\ NextApplied(s, batch) >= s.appliedIndex
    /\ NextApplied(s, batch) <= NextHardState(s, batch).commitIndex

VotesOnce(s, batch) ==
    NextHardState(s, batch).currentTerm = s.hardState.currentTerm
      /\ s.hardState.votedFor # Nil
        => NextHardState(s, batch).votedFor = s.hardState.votedFor

CommitIsInLog(s, batch) ==
    NextHardState(s, batch).commitIndex <=
      LastOf(NextEntries(s, batch), NextSnapshot(s, batch))

\* The durable storage checks everything before it changes anything.
DurableAccepts(s, batch) ==
    /\ KeepsCommitted(s, batch)
    /\ IsContiguous(s, batch)
    /\ HardStateAdvances(s, batch)
    /\ VotesOnce(s, batch)
    /\ CommitIsInLog(s, batch)
    /\ AppliedAdvances(s, batch)

\* The volatile storage has assigned the hard state when it looks at the applied
\* index, and does not look at votes nor at the end of the log.
TakesHardState(s, batch) ==
    /\ KeepsCommitted(s, batch)
    /\ IsContiguous(s, batch)
    /\ batch.hardState # Nil => HardStateAdvances(s, batch)

VolatileAccepts(s, batch) ==
    /\ TakesHardState(s, batch)
    /\ batch.appliedIndex # Nil => AppliedAdvances(s, batch)

Accepts(s, batch) ==
    IF kind = "durable" THEN DurableAccepts(s, batch) ELSE VolatileAccepts(s, batch)

\* Mutation: what is next is assigned before it is checked.
AssignsFirst(s, batch) == [s EXCEPT !.hardState = NextHardState(s, batch)]

\* What a batch that is refused leaves behind.
AfterRefusal(s, batch) ==
    IF kind = "volatile" /\ TakesHardState(s, batch)
      THEN [s EXCEPT !.hardState = NextHardState(s, batch)]
      ELSE s

-----------------------------------------------------------------------------
(* Snapshots                                                               *)

\* Mutation: the commit index is left where it is.
CoveredOnly(s, index) ==
    [s EXCEPT !.entries = Restrict(@, {i \in DOMAIN @ : i > index}),
              !.appliedIndex = Max({@, index})]

\* What a snapshot that includes index makes unnecessary, and what it implies.
Covered(s, index) ==
    [s EXCEPT !.entries = Restrict(@, {i \in DOMAIN @ : i > index}),
              !.hardState.commitIndex = Max({@, index}),
              !.appliedIndex = Max({@, index})]

Installed(s, snapshot) == Covered([s EXCEPT !.snapshot = snapshot], snapshot.lastIncludedIndex)

\* Mutation: it does not look, as the volatile storage.
InstallsAny(s, snapshot) == TRUE

\* Only the durable storage looks at the snapshot it has.
MayInstall(s, snapshot) == snapshot.lastIncludedIndex >= s.snapshot.lastIncludedIndex

Compacted(s, through) == [s EXCEPT !.entries = Restrict(@, {i \in DOMAIN @ : i > through})]

MayCompact(s, through) ==
    s.snapshot # NoSnapshot /\ through <= s.snapshot.lastIncludedIndex

\* What the constructor of RaftCore asserts of a state it is given.
CanStart(s) ==
    LET boundary == s.snapshot.lastIncludedIndex
        last == LastOf(s.entries, s.snapshot)
    IN  /\ DOMAIN s.entries = boundary + 1 .. last
        /\ s.hardState.commitIndex \in boundary .. last
        /\ s.appliedIndex <= s.hardState.commitIndex

-----------------------------------------------------------------------------
(* What callers write                                                      *)

SomeSnapshot == [lastIncludedIndex : Index, lastIncludedTerm : Term]

\* What persist is asked to write.  No caller in the repository writes a hard state
\* and an applied index at once, though a batch may; such a call has its own name.
HasBoth(batch) == batch.hardState # Nil /\ batch.appliedIndex # Nil
BatchesWithBoth == {batch \in Batches : HasBoth(batch)}
BatchesWithoutBoth == {batch \in Batches : ~HasBoth(batch)}

Batch(op) == IF op = "persistBoth" THEN BatchesWithBoth ELSE BatchesWithoutBoth

Writes == {"persist", "persistBoth"}
Calls == {"load", "install", "compact"} \cup Writes

-----------------------------------------------------------------------------
(* Calls                                                                   *)

\* The handle that was opened last.
Newest == Max({h \in Handle : life[h] # "unopened"})

Task == [op : Calls \cup {"cover", "close", "stopped"}, handle : Handle, index : Nat]
Microtask(op, h) == [op |-> op, handle |-> h, index |-> 0]

\* Mutation: a call does not look whether its handle is closed.
NeverClosed(h) == TRUE

IsOpen(h) == life[h] \in {"open", "closing"}

\* The owner of a handle makes a call.
Call(h, op) ==
    /\ life[h] # "unopened" /\ outcome[h] # "pending"
    /\ IF IsOpen(h)
         THEN /\ tasks' = Append(tasks, Microtask(op, h))
              /\ outcome' = [outcome EXCEPT ![h] = "pending"]
         ELSE /\ outcome' = [outcome EXCEPT ![h] = "refused"]
              /\ UNCHANGED tasks
    /\ UNCHANGED <<kind, stored, failure, life, view>>

\* stop closes the handle; it looks at nothing before it waits.
Close(h) ==
    /\ life[h] = "open"
    /\ tasks' = Append(tasks, Microtask("close", h))
    /\ life' = [life EXCEPT ![h] = "closing"]
    /\ UNCHANGED <<kind, stored, failure, outcome, view>>

\* The next process opens the storage when stop of the last has returned.
Open(h) ==
    /\ kind = "durable"
    /\ life[h] = "unopened" /\ h > 1 /\ life[h - 1] = "stopped"
    /\ life' = [life EXCEPT ![h] = "open"]
    /\ view' = Nil
    /\ UNCHANGED <<kind, stored, failure, tasks, outcome>>

FailNext ==
    /\ ~failure
    /\ failure' = TRUE
    /\ UNCHANGED <<kind, stored, tasks, life, outcome, view>>

-----------------------------------------------------------------------------
(* Microtasks                                                              *)

IsNext(op, h) == tasks # <<>> /\ Head(tasks).op = op /\ Head(tasks).handle = h

\* The call of h ends; what its owner knows is known, if h is the newest.
Settle(h, result, known) ==
    /\ outcome' = [outcome EXCEPT ![h] = result]
    /\ view' = IF h = Newest THEN known ELSE view

\* What the owner knows after a call that turned what it knew into value.
Known(value) == IF view = Nil THEN Nil ELSE value

RunLoad(h) ==
    /\ IsNext("load", h)
    /\ tasks' = Tail(tasks)
    /\ Settle(h, "done", stored)
    /\ UNCHANGED <<kind, stored, failure, life>>

\* persist: an injected failure comes before every check.
RunPersist(h) ==
    \E op \in Writes : \E batch \in Batch(op) :
      /\ IsNext(op, h)
      /\ tasks' = Tail(tasks)
      /\ failure' = FALSE
      /\ IF ~failure /\ Accepts(stored, batch)
           THEN stored' = Written(stored, batch) /\ Settle(h, "done", Known(Written(view, batch)))
           ELSE /\ stored' = IF failure THEN stored ELSE AfterRefusal(stored, batch)
                /\ Settle(h, "refused", Nil)
      /\ UNCHANGED <<kind, life>>

\* The durable storage installs a snapshot at once.
RunInstall(h) ==
    \E snapshot \in SomeSnapshot :
      /\ kind = "durable"
      /\ IsNext("install", h)
      /\ tasks' = Tail(tasks)
      /\ IF MayInstall(stored, snapshot)
           THEN /\ stored' = Installed(stored, snapshot)
                /\ Settle(h, "done", Known(Installed(view, snapshot)))
           ELSE Settle(h, "refused", Nil) /\ UNCHANGED stored
      /\ UNCHANGED <<kind, failure, life>>

\* The volatile storage persists it like any batch, and goes on when it is resumed.
RunPersistSnapshot(h) ==
    \E snapshot \in SomeSnapshot :
      /\ kind = "volatile"
      /\ IsNext("install", h)
      /\ failure' = FALSE
      /\ IF failure
           THEN tasks' = Tail(tasks) /\ Settle(h, "refused", Nil) /\ UNCHANGED stored
           ELSE /\ stored' = [stored EXCEPT !.snapshot = snapshot]
                /\ tasks' = Append(Tail(tasks), [op |-> "cover", handle |-> h,
                                                 index |-> snapshot.lastIncludedIndex])
                /\ view' = Known([view EXCEPT !.snapshot = snapshot])
                /\ UNCHANGED outcome
      /\ UNCHANGED <<kind, life>>

RunCover(h) ==
    /\ IsNext("cover", h)
    /\ tasks' = Tail(tasks)
    /\ stored' = Covered(stored, Head(tasks).index)
    /\ Settle(h, "done", Known(Covered(view, Head(tasks).index)))
    /\ UNCHANGED <<kind, failure, life>>

RunCompact(h) ==
    \E through \in Index :
      /\ IsNext("compact", h)
      /\ tasks' = Tail(tasks)
      /\ IF MayCompact(stored, through)
           THEN /\ stored' = Compacted(stored, through)
                /\ Settle(h, "done", Known(Compacted(view, through)))
           ELSE Settle(h, "refused", Nil) /\ UNCHANGED stored
      /\ UNCHANGED <<kind, failure, life>>

\* close has its effect, and the awaiting stop is resumed after what is queued.
RunClose(h) ==
    /\ IsNext("close", h)
    /\ life' = [life EXCEPT ![h] = "closed"]
    /\ tasks' = Append(Tail(tasks), Microtask("stopped", h))
    /\ UNCHANGED <<kind, stored, failure, outcome, view>>

RunStopped(h) ==
    /\ IsNext("stopped", h)
    /\ life' = [life EXCEPT ![h] = "stopped"]
    /\ tasks' = Tail(tasks)
    /\ UNCHANGED <<kind, stored, failure, outcome, view>>

-----------------------------------------------------------------------------
(* Specification                                                           *)

Init ==
    /\ kind \in {"volatile", "durable"}
    /\ stored = Blank
    /\ failure = FALSE
    /\ tasks = <<>>
    /\ life = [h \in Handle |-> IF h = 1 THEN "open" ELSE "unopened"]
    /\ outcome = [h \in Handle |-> "done"]
    /\ view = Nil

Run(h) ==
    \/ RunLoad(h)
    \/ RunPersist(h)
    \/ RunInstall(h)
    \/ RunPersistSnapshot(h)
    \/ RunCover(h)
    \/ RunCompact(h)
    \/ RunClose(h)
    \/ RunStopped(h)

Next ==
    \/ FailNext
    \/ \E h \in Handle : Open(h) \/ Close(h) \/ Run(h) \/ \E op \in Calls : Call(h, op)

Spec == Init /\ [][Next]_vars

-----------------------------------------------------------------------------
(* Properties                                                              *)

\* Every variable keeps its type; what is stored of the log has no gaps, and what
\* is applied is committed.
TypeOK ==
    /\ kind \in {"volatile", "durable"}
    /\ IsStored(stored)
    /\ stored.appliedIndex <= stored.hardState.commitIndex
    /\ failure \in BOOLEAN
    /\ tasks \in Seq(Task)
    /\ life \in [Handle -> {"unopened", "open", "closing", "closed", "stopped"}]
    /\ outcome \in [Handle -> {"pending", "done", "refused"}]
    /\ view = Nil \/ IsStored(view)

\* docs/testing-strategy.md, "persistence failure atomicity": a call that is
\* refused has changed nothing, whatever was wrong with it.  The exception is the
\* volatile storage and a batch with both a hard state and an applied index.
RefusedChangesNothing ==
    [][\A h \in Handle :
         /\ outcome[h] = "pending" /\ outcome'[h] = "refused"
         /\ ~(kind = "volatile" /\ IsNext("persistBoth", h))
         => stored' = stored]_vars

\* The next to run is a persist.
PersistIsNext == \E op \in Writes, h \in Handle : IsNext(op, h)

\* No sequence of calls, whatever they write, takes back a term, a commit index or
\* an applied index, or takes an entry that is committed out of the log before a
\* snapshot includes it; the durable storage does not take back a vote either.
\* Its snapshot is taken back only by persist, which stores the snapshot of its
\* batch without the look at the present one that installSnapshot takes.
NothingGoesBack ==
    [][LET old == stored new == stored' IN
         /\ new.hardState.currentTerm >= old.hardState.currentTerm
         /\ new.hardState.commitIndex >= old.hardState.commitIndex
         /\ new.appliedIndex >= old.appliedIndex
         /\ \A i \in DOMAIN old.entries : i <= old.hardState.commitIndex =>
              \/ i \in DOMAIN new.entries /\ new.entries[i] = old.entries[i]
              \/ i <= new.snapshot.lastIncludedIndex
         /\ kind = "durable" =>
              /\ \/ new.hardState.currentTerm > old.hardState.currentTerm
                 \/ old.hardState.votedFor \in {Nil, new.hardState.votedFor}
              /\ \/ new.snapshot.lastIncludedIndex >= old.snapshot.lastIncludedIndex
                 \/ PersistIsNext]_vars

\* A node can start from what is stored, once the entries that its snapshot includes
\* are compacted away; between a snapshot and its compaction RaftCore rejects them.
IsStartable(s) == CanStart(Compacted(s, s.snapshot.lastIncludedIndex))

\* Once a node can start from what the durable storage holds, one still can after
\* every call, whatever it writes and whether it is accepted or refused, in whatever
\* order calls on closing and reopened handles run.  What breaks it is persist with
\* a snapshot that is older than the present one or goes beyond the commit index of
\* its batch: persist compares it with neither, and RaftCore rejects what it leaves.
StaysStartable ==
    [][kind = "durable" /\ IsStartable(stored) =>
         \/ IsStartable(stored')
         \/ /\ PersistIsNext
            /\ stored'.snapshot.lastIncludedIndex \notin
                 stored.snapshot.lastIncludedIndex .. stored'.hardState.commitIndex]_vars

\* What a process loaded, with what it was told is written, is what the storage
\* holds: nothing that an earlier process left behind, a call on its way when its
\* handle was closed or one made later, is written under the next one.
OwnerKnowsStorage ==
    outcome[Newest] # "pending" /\ view # Nil => view = stored
=============================================================================
