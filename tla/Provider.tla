------------------------------ MODULE Provider ------------------------------
(***************************************************************************)
(* The Hermes plugin: sync_turn, on_session_event and on_pre_compress of a *)
(* primary agent, each a list of runs of the hermes-memory binary.  A run  *)
(* is a child process that ends in its own time, that the plugin kills     *)
(* after its timeout, and that outlives a host that dies.                  *)
(*                                                                         *)
(* The host is a conversation with one session: it appends turns, and it   *)
(* compacts the conversation after on_pre_compress.  The store behind the  *)
(* child is SnapshotStore, whose operations are taken as they are.         *)
(***************************************************************************)
EXTENDS Integers, Sequences, FiniteSets

CONSTANTS
  Users, Assistants, \* messages of either role that are not blank
  Blank,        \* a message without content
  Summaries,    \* what the host puts in place of the messages it compacts, never twice the same
  Events,       \* record ids of session events
  Session, NoSession,
  Listed,       \* whether the host passes the message list to sync_turn: a set of answers
  MaxMessages,  \* bound: length of the conversation
  MaxCalls,     \* bound: calls of the host
  MaxCrashes    \* bound: deaths of the host

ASSUME BoundsAssumption ==
  MaxMessages \in Nat /\ MaxCalls \in Nat /\ MaxCrashes \in Nat
ASSUME MessagesAssumption ==
  /\ Blank \notin Users \union Assistants \union Summaries
  /\ Summaries \intersect (Users \union Assistants) = {}
ASSUME SessionAssumption == Session # NoSession

VARIABLES
  messages,     \* the host's conversation
  call,         \* the provider call under way, with the runs it has still to do
  child,        \* the process of the first of them
  orphans,      \* runs whose host died before them, each with the number of its call
  calls, crashes, \* how many there were
  written,      \* the summaries of past compactions
  spoken,       \* history: per message, how often it was said
  delivered,    \* history: per message, how often it was said in turns that returned
  records, state, counters, request, promised

store == <<records, state, counters, request, promised>>
host == <<messages, calls, crashes, written, spoken, delivered>>
vars == <<host, call, child, orphans, store>>

Contents == Users \union Assistants
Messages == Contents \union Summaries \union {Blank}
Transcripts == UNION {[1..n -> Messages] : n \in 0..MaxMessages}
CheckpointId(transcript) == [checkpoint |-> transcript]
Ids == Events \union {CheckpointId(t) : t \in Transcripts}

Store == INSTANCE SnapshotStore WITH
  Keys <- {Session}, Prints <- Contents \union Summaries, NoKey <- NoSession,
  Foreign <- Ids, Batches <- {{id} : id \in Ids}, MaxItems <- MaxMessages,
  MaxCount <- MaxMessages * MaxCalls

\* The id of an event is a digest, and never that of a message.
ASSUME EventsAssumption == Events \intersect Store!SnapshotIds = {}

Idle == [purpose |-> "none", outcome |-> "idle", todo |-> <<>>, said |-> <<>>]

Init ==
  /\ messages = <<>>
  /\ call = Idle
  /\ child = "none"
  /\ orphans = {}
  /\ calls = 0 /\ crashes = 0 /\ written = {}
  /\ spoken = [p \in Contents |-> 0]
  /\ delivered = [p \in Contents |-> 0]
  /\ Store!Init

-----------------------------------------------------------------------------
(* The provider's methods *)

\* Messages whose content is blank are not sent.  Variant: they are.
Unfiltered(source) == source
Visible(source) ==
  LET visible[n \in 0..Len(source)] ==
        IF n = 0 THEN <<>>
        ELSE IF source[n] = Blank THEN visible[n - 1]
        ELSE Append(visible[n - 1], source[n])
  IN visible[Len(source)]

\* The run of sync_turn; there is none when nothing is left to send.
SnapshotRun(source) ==
  IF Visible(source) = <<>> THEN <<>> ELSE <<[command |-> "snapshot", items |-> Visible(source)]>>
RecordRun(id) == [command |-> "ingest", id |-> id]

\* The runs of on_pre_compress: the transcript before the marker that says it is durable.
\* Variant: the marker first.
MarkerFirst(source) == <<RecordRun(CheckpointId(source))>> \o SnapshotRun(source)
CheckpointRuns(source) == SnapshotRun(source) \o <<RecordRun(CheckpointId(source))>>

Outcome(todo) == IF todo = <<>> THEN "returned" ELSE "pending"

Begin(purpose, todo, said) ==
  /\ call.outcome = "idle" /\ calls < MaxCalls
  /\ calls' = calls + 1
  /\ call' = [purpose |-> purpose, outcome |-> Outcome(todo), todo |-> todo, said |-> said]
  /\ UNCHANGED <<child, orphans, crashes, written, delivered, store>>

Counted(count, said) == [p \in Contents |-> count[p] + Store!Copies(said, p)]

\* sync_turn snapshots the list it is given, or else the two messages of the turn.
SyncTurn(said, listed) ==
  /\ Len(messages) + Len(said) <= MaxMessages
  /\ messages' = messages \o said
  /\ spoken' = Counted(spoken, said)
  /\ Begin("turn", SnapshotRun(IF listed THEN messages' ELSE said), said)

\* on_session_event: the id is a digest of the event, so a repeated event is the same record.
OnSessionEvent(e) ==
  /\ Begin("event", <<RecordRun(e)>>, <<>>)
  /\ UNCHANGED <<messages, spoken>>

OnPreCompress ==
  /\ messages # <<>>
  /\ Begin("compress", CheckpointRuns(messages), <<>>)
  /\ UNCHANGED <<messages, spoken>>

-----------------------------------------------------------------------------
(* _run: subprocess.run with a timeout *)

\* The plugin raises: a missing binary, a payload over the limit, a failed or late run.
\* Variant: the error is swallowed and the next run goes ahead.
Advanced == [call EXCEPT !.todo = Tail(@), !.outcome = Outcome(Tail(call.todo))]
Raised == [call EXCEPT !.todo = <<>>, !.outcome = "raised"]

\* What becomes of a child that is late: it is killed, and waited for.
\* Variant: it is left to itself.
Orphaned == [run |-> Head(call.todo), call |-> calls]
LeftAlone == IF child = "running" THEN orphans \union {Orphaned} ELSE orphans
AfterKill == orphans

Pending == call.outcome = "pending"

Spawn ==
  /\ Pending /\ child = "none"
  /\ child' = "running"
  /\ UNCHANGED <<host, call, orphans, store>>

Refuse ==
  /\ Pending /\ child = "none"
  /\ call' = Raised
  /\ UNCHANGED <<host, child, orphans, store>>

RunReturns ==
  /\ child \in {"succeeded", "failed"}
  /\ call' = IF child = "failed" THEN Raised ELSE Advanced
  /\ child' = "none"
  /\ UNCHANGED <<host, orphans, store>>

\* Variant: no timeout is given.
NeverLate == FALSE
MayBeLate == child \in {"running", "committed"}

Timeout ==
  /\ MayBeLate
  /\ call' = Raised
  /\ child' = "none"
  /\ orphans' = AfterKill
  /\ UNCHANGED <<host, store>>

-----------------------------------------------------------------------------
(* The child process: main of hermes-memory *)

\* One transaction.
Commit(run) ==
  \/ run.command = "snapshot" /\ Store!IngestSnapshot(Session, run.items)
  \/ run.command = "ingest" /\ Store!Ingest({run.id})

\* Input that does not validate, a store that does not open, a transaction that is busy.
ChildFails ==
  /\ child = "running" /\ child' = "failed"
  /\ UNCHANGED <<host, call, orphans, store>>

ChildCommits ==
  /\ child = "running" /\ child' = "committed"
  /\ Commit(Head(call.todo))
  /\ UNCHANGED <<host, call, orphans>>

\* The projection follows the commit, and a run whose projection fails has failed.
ChildProjects ==
  /\ child = "committed" /\ child' \in {"succeeded", "failed"}
  /\ UNCHANGED <<host, call, orphans, store>>

OrphanCommits(orphan) ==
  /\ Commit(orphan.run)
  /\ orphans' = orphans \ {orphan}
  /\ UNCHANGED <<host, call, child>>

OrphanDies(orphan) ==
  /\ orphans' = orphans \ {orphan}
  /\ UNCHANGED <<host, call, child, store>>

-----------------------------------------------------------------------------
(* The host *)

\* The host goes on after a turn or an event, whether it was stored or not.
GoOn ==
  /\ call.outcome \in {"returned", "raised"}
  /\ delivered' = IF call.outcome = "raised" THEN delivered
                  ELSE Counted(delivered, call.said)
  /\ call' = Idle
  /\ UNCHANGED <<messages, calls, crashes, written, spoken, child, orphans, store>>

\* It compacts with the returned context, and without one when the call raised: a summary
\* replaces all messages but the last and perhaps the first.
Compact ==
  /\ call.purpose = "compress" /\ call.outcome \in {"returned", "raised"}
  /\ \E head \in 0..1, tail \in 2..Len(messages) + 1, summary \in Summaries \ written :
       /\ head + 1 < tail
       /\ messages' = SubSeq(messages, 1, head) \o <<summary>> \o SubSeq(messages, tail, Len(messages))
       /\ written' = written \union {summary}
  /\ call' = Idle
  /\ UNCHANGED <<calls, crashes, spoken, delivered, child, orphans, store>>

\* The host dies and comes back with its conversation.  A child that has read its input
\* lives on.
Crash ==
  /\ Pending /\ crashes < MaxCrashes
  /\ orphans' = IF child = "running" THEN orphans \union {Orphaned} ELSE orphans
  /\ call' = Idle /\ child' = "none"
  /\ crashes' = crashes + 1
  /\ UNCHANGED <<messages, calls, written, spoken, delivered, store>>

Said == (Users \union {Blank}) \X (Assistants \union {Blank})

Provide == \/ Spawn \/ Refuse \/ RunReturns \/ Timeout
Process == \/ ChildFails \/ ChildCommits \/ ChildProjects
           \/ \E orphan \in orphans : OrphanCommits(orphan) \/ OrphanDies(orphan)
Host ==
  \/ \E said \in Said, listed \in Listed : SyncTurn(said, listed)
  \/ \E e \in Events : OnSessionEvent(e)
  \/ OnPreCompress
  \/ GoOn \/ Compact \/ Crash

Next == Provide \/ Process \/ Host

Spec == Init /\ [][Next]_vars

\* The plugin takes its steps and its timeouts expire; a child may hang for ever.
Fairness == WF_vars(Spawn) /\ WF_vars(RunReturns) /\ WF_vars(Timeout)
FairSpec == Spec /\ Fairness

-----------------------------------------------------------------------------
(* Properties *)

Runs == [command : {"snapshot"}, items : Seq(Contents \union Summaries)]
          \union [command : {"ingest"}, id : Ids]

TypeOK ==
  /\ messages \in Seq(Messages) /\ Len(messages) <= MaxMessages
  /\ call \in [purpose : {"none", "turn", "event", "compress"},
               outcome : {"idle", "pending", "returned", "raised"},
               todo : Seq(Runs), said : Seq(Messages)]
  /\ Pending <=> call.todo # <<>>
  /\ child \in {"none", "running", "committed", "succeeded", "failed"}
  /\ child # "none" => Pending
  /\ orphans \subseteq [run : Runs, call : Nat]
  /\ calls \in Nat /\ crashes \in Nat
  /\ spoken \in [Contents -> Nat] /\ delivered \in [Contents -> Nat]

\* As many records of every message as the transcript has copies.
Stored(transcript) ==
  \A p \in Contents \union Summaries :
    \A o \in 0 .. Store!Copies(transcript, p) - 1 : Store!RecordId(Session, p, o) \in records

\* A checkpoint record is never there without the transcript it vouches for, however the
\* runs fail, time out or outlive their host.
CheckpointBacked ==
  \A id \in records : id \in Ids \ Events => Stored(id.checkpoint)

\* The host is given the context to compact with only when the conversation it is about to
\* give up is stored and its checkpoint written.
ContextMeansDurable ==
  call.purpose = "compress" /\ call.outcome = "returned" =>
    Stored(messages) /\ CheckpointId(messages) \in records

\* A turn whose sync_turn returned has records of its own, equal to earlier ones as its
\* messages may be.
TurnsKept == \A p \in Contents : delivered[p] <= counters[Session][p]

\* Failed, late and repeated runs never store a message twice while the host neither dies
\* nor compacts.
RetriesAddNothing ==
  crashes = 0 /\ written = {} =>
    \A p \in Contents : counters[Session][p] <= Store!Copies(messages, p)

\* No message is stored more often than it was said, while the host does not die.
StoredOnce ==
  crashes = 0 => \A p \in Contents : counters[Session][p] <= spoken[p]

-----------------------------------------------------------------------------
(* The inductive invariant *)

\* What a call has still to do, and that its marker is written behind its transcript.
Planned ==
  /\ call.purpose = "none" <=> call.outcome = "idle"
  /\ call.purpose # "turn" => call.said = <<>>
  /\ call.purpose = "turn" /\ Pending =>
       \E items \in Store!Snapshots : call.todo = <<[command |-> "snapshot", items |-> items]>>
  /\ call.purpose = "event" /\ Pending => \E e \in Events : call.todo = <<RecordRun(e)>>
  /\ call.purpose = "compress" /\ Pending =>
       call.todo \in {CheckpointRuns(messages), <<RecordRun(CheckpointId(messages))>>}

\* The runs that orphans may still commit.
RunsLeft == {orphan.run : orphan \in orphans}

Done == child \in {"committed", "succeeded"}
Backed ==
  /\ call.purpose = "compress" /\ Pending =>
       /\ Done \/ Head(call.todo).command = "ingest" => Stored(messages)
       /\ Done /\ Head(call.todo).command = "ingest" => CheckpointId(messages) \in records
  /\ \A run \in RunsLeft :
       /\ run.command = "snapshot" => run.items \in Store!Snapshots
       /\ run.command = "ingest" /\ run.id \notin Events => Stored(run.id.checkpoint)

\* The run under way is not in the store.
Uncommitted == Pending /\ child \in {"none", "running"}

\* The snapshots the next one may be aligned with.
Sent == {[i \in 1..Len(state[Session]) |-> state[Session][i].print]}
          \union {run.items : run \in {r \in RunsLeft : r.command = "snapshot"}}

Mentions(items, m) == \E i \in 1..Len(items) : items[i] = m

\* No message that follows the transcript can be taken for one of the items: these are no
\* more, or lack a summary of the transcript.
Older(items, transcript) ==
  \/ Len(items) <= Len(Visible(transcript))
  \/ \E m \in Summaries : Mentions(transcript, m) /\ ~Mentions(items, m)

\* The conversation without the turn that is not yet stored.
Known ==
  IF call.purpose = "turn" /\ Uncommitted
  THEN SubSeq(messages, 1, Len(messages) - Len(call.said))
  ELSE messages

\* A host that passes its messages: every turn is behind all that was sent before, and is
\* counted once it is stored.
TurnsAhead ==
  Listed \subseteq {TRUE} =>
    /\ call.purpose = "turn" /\ Pending =>
         /\ call.todo = SnapshotRun(messages)
         /\ messages = SubSeq(messages, 1, Len(messages) - Len(call.said)) \o call.said
    /\ \A m \in Summaries : Mentions(messages, m) => m \in written
    /\ \A items \in Sent :
         /\ Older(items, Known)
         /\ \A m \in Summaries : Mentions(items, m) => m \in written
    /\ call.purpose = "turn" /\ (Done \/ call.outcome = "returned") =>
         \A p \in Contents : delivered[p] + Store!Copies(call.said, p) <= counters[Session][p]

\* While it neither dies nor compacts, what was sent is the beginning of its messages.
ReplaysAlign ==
  Listed \subseteq {TRUE} /\ crashes = 0 /\ written = {} =>
    /\ orphans = {}
    /\ Len(state[Session]) <= Len(Visible(messages))
    /\ \A i \in 1..Len(state[Session]) : state[Session][i].print = Visible(messages)[i]
    /\ \A p \in Contents :
         counters[Session][p] =
           Cardinality({i \in 1..Len(state[Session]) : state[Session][i].print = p})

IInv ==
  /\ TypeOK /\ Store!IInv /\ Planned /\ Backed /\ CheckpointBacked /\ ContextMeansDurable
  /\ TurnsAhead /\ ReplaysAlign
  /\ Listed \subseteq {TRUE} => TurnsKept

-----------------------------------------------------------------------------
(* Liveness *)

\* Every call comes back to the host, even when a child hangs.
CallsReturn == Pending ~> ~Pending
=============================================================================
