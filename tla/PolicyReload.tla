----------------------------- MODULE PolicyReload -----------------------------
(***************************************************************************)
(* The policy set: an append-only log of revisions in the catalog's store  *)
(* (src/auth/policy_store.rs), and on every replica the compiled set it    *)
(* enforces, which a management request (src/management/policies.rs) and   *)
(* the replica's own poller (src/auth/reloadable.rs) both replace.         *)
(*                                                                         *)
(* A revision is its number in the log.  Compiling and deciding are pure   *)
(* functions of the text: a text is a member of Policy, Compiles says which*)
(* replicas can compile it and Managers whom it permits to change policy.  *)
(***************************************************************************)
EXTENDS Naturals, Sequences

CONSTANTS
  Replica,
  Author,        \* the principals that administer policy
  Policy,        \* policy texts
  None,
  Blank,         \* the texts that hold no rule at all
  Compiles,      \* [Replica -> the texts its build's schema accepts]
  Managers,      \* [Policy -> the authors it permits to manage policy]
  SeedOf,        \* [Replica -> the text of its policy file, or the defaults]
  Writable,      \* the replicas management requests reach
  MaxChanges,    \* bound: changes an author submits
  MaxCrashes     \* bound: replica crashes

ASSUME PolicyAssumption ==
  /\ Author \cap Replica = {}
  /\ None \notin Policy \cup Author
  /\ Blank \subseteq Policy
  /\ Compiles \in [Replica -> SUBSET Policy]
  /\ Managers \in [Policy -> SUBSET Author]
  /\ SeedOf \in [Replica -> Policy]
  /\ Writable \subseteq Replica
  /\ MaxChanges \in Nat /\ MaxCrashes \in Nat

VARIABLES
  log,        \* the revisions, oldest first: text and author; the author of a
              \* seed ("system:bootstrap" on every replica) is the replica it is of
  up,         \* each replica is "down", "seeding" or "up"
  current,    \* the set each replica enforces (ReloadableAuthorizer.current)
  sequence,   \* the revision it takes that set for (ReloadableAuthorizer.sequence)
  task,       \* what each author's request, and each replica's poller, is at
  audited,    \* revisions the audit trail says were installed
  confirmed,  \* revisions whose author was told they are
  submitted,  \* changes each author has submitted
  crashes     \* crashes so far

vars == <<log, up, current, sequence, task, audited, confirmed, submitted, crashes>>

\* The poller of a replica goes by the replica's name.
Task == Author \cup Replica

Revision == [source : Policy, by : Task]

\* "append": checked, to be stored.  "audit": stored, to be audited.  "check":
\* read by a poller, to be compared.  "set" and "count": the two halves of swap.
Step == {"idle", "append", "audit", "check", "set", "count"}

TaskRecord ==
  [step : Step, at : Replica \cup {None}, source : Policy \cup {None}, revision : Nat]

NoTask(t) == [step |-> "idle", at |-> IF t \in Replica THEN t ELSE None,
              source |-> None, revision |-> 0]

Newest == Len(log)

Init ==
  /\ log = <<>>
  /\ up = [r \in Replica |-> "down"]
  /\ current = [r \in Replica |-> None]
  /\ sequence = [r \in Replica |-> 0]
  /\ task = [t \in Task |-> NoTask(t)]
  /\ audited = {} /\ confirmed = {}
  /\ submitted = [a \in Author |-> 0]
  /\ crashes = 0

-----------------------------------------------------------------------------
(* Starting and stopping (App::load_policy_admin)                           *)

\* A replica cannot start on a set it cannot compile, or that permits nobody anything.
Startable(r, p) == p \in Compiles[r] \ Blank

\* ReloadableAuthorizer::new with revision n, and a poller for it.
ComeUp(r, n, p) ==
  /\ up' = [up EXCEPT ![r] = "up"]
  /\ current' = [current EXCEPT ![r] = p]
  /\ sequence' = [sequence EXCEPT ![r] = n]

Differs(r) ==   \* an edited file wins
  IF log = <<>> THEN TRUE ELSE log[Newest].source # SeedOf[r]

\* A policy file, or the defaults, is for a store that holds nothing.
Unseeded(r) == log = <<>>

\* What a replica loads from a store that has revisions: the file has no say.
Stored(r) == log[Newest].source

StartStored(r) ==
  /\ up[r] = "down"
  /\ ~Unseeded(r)
  /\ Startable(r, Stored(r))
  /\ ComeUp(r, Newest, Stored(r))
  /\ UNCHANGED <<log, task, audited, confirmed, submitted, crashes>>

\* The store is empty when the replica looks, and its own text compiles.
StartEmpty(r) ==
  /\ up[r] = "down"
  /\ Unseeded(r)
  /\ SeedOf[r] \in Compiles[r]
  /\ up' = [up EXCEPT ![r] = "seeding"]
  /\ UNCHANGED <<log, current, sequence, task, audited, confirmed, submitted, crashes>>

\* It appends the seed, whatever the store holds by then.  Whether the seed has
\* any rule in it is asked only afterwards.
SeedStore(r) ==
  /\ up[r] = "seeding"
  /\ log' = Append(log, [source |-> SeedOf[r], by |-> r])
  /\ IF SeedOf[r] \in Blank
     THEN up' = [up EXCEPT ![r] = "down"] /\ UNCHANGED <<current, sequence>>
     ELSE ComeUp(r, Newest + 1, SeedOf[r])
  /\ UNCHANGED <<task, audited, confirmed, submitted, crashes>>

\* The process dies, with its poller and the requests it was serving.
Crash(r) ==
  /\ up[r] # "down"
  /\ crashes < MaxCrashes
  /\ crashes' = crashes + 1
  /\ up' = [up EXCEPT ![r] = "down"]
  /\ current' = [current EXCEPT ![r] = None]
  /\ sequence' = [sequence EXCEPT ![r] = 0]
  /\ task' = [t \in Task |-> IF task[t].at = r THEN NoTask(t) ELSE task[t]]
  /\ UNCHANGED <<log, audited, confirmed, submitted>>

-----------------------------------------------------------------------------
(* Changing policy (update_policies, rollback_policies, apply)              *)

InstallFirst == "set"   \* without recording it

AfterChecks == "append"

AnyCandidate(a, p) == TRUE   \* no question whom it locks out

\* The author must still be permitted to manage policy under the new set.
KeepsItsAuthor(a, p) == a \in Managers[p]

\* The replica's present set permits the author; the candidate compiles and
\* would permit this very request again.
Submit(a, r, p) ==
  /\ r \in Writable
  /\ up[r] = "up"
  /\ task[a].step = "idle"
  /\ submitted[a] < MaxChanges
  /\ a \in Managers[current[r]]
  /\ p \in Compiles[r]
  /\ KeepsItsAuthor(a, p)
  /\ task' = [task EXCEPT ![a] =
       [step |-> AfterChecks, at |-> r, source |-> p, revision |-> 0]]
  /\ submitted' = [submitted EXCEPT ![a] = @ + 1]
  /\ UNCHANGED <<log, up, current, sequence, audited, confirmed, crashes>>

Update(a, r) == \E p \in Policy : Submit(a, r, p)

\* The text of an old revision, submitted as a new one.
Rollback(a, r) == \E n \in 1..Newest : Submit(a, r, log[n].source)

Answer(t) == task' = [task EXCEPT ![t] = NoTask(t)]

\* PolicyStore::append: the number is drawn and the row inserted in one statement
\* (postgres.rs:1814) or one write transaction (redb.rs:1861), so no two share it.
AppendRevision(a) ==
  /\ task[a].step = "append"
  /\ log' = Append(log, [source |-> task[a].source, by |-> a])
  /\ task' = [task EXCEPT ![a] = [@ EXCEPT !.step = "audit", !.revision = Newest + 1]]
  /\ UNCHANGED <<up, current, sequence, audited, confirmed, submitted, crashes>>

\* The store answers an error: too many writers, or the connection is lost
\* before or after the row is committed.
AppendError(a) ==
  /\ task[a].step = "append"
  /\ \/ UNCHANGED log
     \/ log' = Append(log, [source |-> task[a].source, by |-> a])
  /\ Answer(a)
  /\ UNCHANGED <<up, current, sequence, audited, confirmed, submitted, crashes>>

Audit(a) ==
  /\ task[a].step = "audit"
  /\ audited' = audited \cup {task[a].revision}
  /\ task' = [task EXCEPT ![a].step = "set"]
  /\ UNCHANGED <<log, up, current, sequence, confirmed, submitted, crashes>>

\* The audit trail is unavailable: the request fails before anything is installed.
AuditError(a) ==
  /\ task[a].step = "audit"
  /\ Answer(a)
  /\ UNCHANGED <<log, up, current, sequence, audited, confirmed, submitted, crashes>>

-----------------------------------------------------------------------------
(* Polling (spawn_policy_poller)                                            *)

\* A tick: the newest revision is read.
PollRead(r) ==
  /\ up[r] = "up"
  /\ task[r].step = "idle"
  /\ task' = [task EXCEPT ![r] = [@ EXCEPT
       !.step = "check", !.revision = Newest, !.source = log[Newest].source]]
  /\ UNCHANGED <<log, up, current, sequence, audited, confirmed, submitted, crashes>>

NewerByTwo(r) == task[r].revision > sequence[r] + 1   \* off by one

Newer(r) == task[r].revision > sequence[r]

\* It is installed if it is newer than what is loaded by now, and compiles.
PollCheck(r) ==
  /\ task[r].step = "check"
  /\ IF Newer(r) /\ task[r].source \in Compiles[r]
     THEN task' = [task EXCEPT ![r].step = "set"]
     ELSE task' = [task EXCEPT ![r] = NoTask(r)]
  /\ UNCHANGED <<log, up, current, sequence, audited, confirmed, submitted, crashes>>

-----------------------------------------------------------------------------
(* Installing (ReloadableAuthorizer::swap): two locks, one after the other  *)

SwapSet(t) ==
  /\ task[t].step = "set"
  /\ current' = [current EXCEPT ![task[t].at] = task[t].source]
  /\ task' = [task EXCEPT ![t].step = "count"]
  /\ UNCHANGED <<log, up, sequence, audited, confirmed, submitted, crashes>>

SwapSequence(t) ==
  /\ task[t].step = "count"
  /\ sequence' = [sequence EXCEPT ![task[t].at] = task[t].revision]
  /\ confirmed' = IF t \in Author THEN confirmed \cup {task[t].revision} ELSE confirmed
  /\ Answer(t)
  /\ UNCHANGED <<log, up, current, audited, submitted, crashes>>

-----------------------------------------------------------------------------
Poller(r) == PollRead(r) \/ PollCheck(r)

Start(r) == StartStored(r) \/ StartEmpty(r) \/ SeedStore(r)

Next ==
  \/ \E r \in Replica : Start(r) \/ Crash(r) \/ Poller(r)
  \/ \E a \in Author, r \in Replica : Update(a, r) \/ Rollback(a, r)
  \/ \E a \in Author : AppendRevision(a) \/ AppendError(a) \/ Audit(a) \/ AuditError(a)
  \/ \E t \in Task : SwapSet(t) \/ SwapSequence(t)

Spec == Init /\ [][Next]_vars

\* The timer ticks and reaches the store again and again, and a swap that has
\* begun takes its two locks.
FairSpec ==
  /\ Spec
  /\ \A r \in Replica : WF_vars(Poller(r))
  /\ \A t \in Task : WF_vars(SwapSet(t)) /\ WF_vars(SwapSequence(t))

-----------------------------------------------------------------------------
\* Type correctness, with what a task carries at each step: a poller serves its
\* own replica, which is up, and what is about to be installed is a revision.
TypeOK ==
  /\ log \in Seq(Revision)
  /\ up \in [Replica -> {"down", "seeding", "up"}]
  /\ current \in [Replica -> Policy \cup {None}]
  /\ sequence \in [Replica -> 0..Newest]
  /\ task \in [Task -> TaskRecord]
  /\ audited \cup confirmed \subseteq 1..Newest
  /\ submitted \in [Author -> Nat]
  /\ crashes \in Nat
  /\ \A r \in Replica : task[r].at = r
  /\ \A t \in Task : task[t].step # "idle" =>
       task[t].at \in Replica /\ up[task[t].at] = "up" /\ task[t].source \in Policy

\* Safety.  What a replica enforces is always a revision of the log, so that the
\* version on an audit record can be looked up, even if the replica dies right
\* after the swap (policies.rs:321-324: nothing is installed until it is written).
EnforcedIsRecorded ==
  \A r \in Replica : up[r] = "up" => \E n \in 1..Newest : log[n].source = current[r]

\* Safety.  On every replica somebody can still change policy, whatever was
\* submitted, rolled back or polled: "the most privileged operation in the system"
\* does not make itself unreachable (policies.rs:341-350).
Administrable == \A r \in Replica : up[r] = "up" => Managers[current[r]] # {}

\* Safety.  A policy file seeds an empty store and is then no longer authoritative
\* (app.rs:1170-1173): whatever crashes, restarts and changes there are, and however
\* many replicas start at once, a replica's file gets into the log once at most, so
\* no restart of a replica that has seeded discards a change.  It is less than the
\* comment says: of replicas that start together one can still put its file above
\* a change the other has confirmed (app.rs:1222 appends without asking again).
FileSeedsOnce ==
  \A m, n \in 1..Newest :
    log[m].by \in Replica /\ log[n].by = log[m].by => m = n

\* The replica enforces the newest revision, unless its build cannot compile it.
UpToDate(r) ==
  up[r] = "up" /\ log[Newest].source \in Compiles[r] => current[r] = log[Newest].source

\* Liveness.  A replica that takes no policy writes ends up with the last revision
\* written through the others, restarts and lost answers included
\* (reloadable.rs:120-126).
FollowersConverge == \A r \in Replica \ Writable : <>[]UpToDate(r)
=============================================================================
