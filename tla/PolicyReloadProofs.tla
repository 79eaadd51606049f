-------------------------- MODULE PolicyReloadProofs --------------------------
(***************************************************************************)
(* What holds of the policy log and its replicas for any number of         *)
(* replicas, authors, texts, changes and crashes.                          *)
(***************************************************************************)
EXTENDS PolicyReload, SequenceTheorems, TLAPS

\* What a task carries past the append is a revision of the log, text and number.
Carries(t) ==
  task[t].step \in {"audit", "check", "set", "count"} =>
    /\ task[t].revision \in 1..Newest
    /\ task[t].source = log[task[t].revision].source

\* A request that has yet to store its text has an author the text permits.
Checked(a) == task[a].step = "append" => a \in Managers[task[a].source]

Recorded(r) ==
  up[r] = "up" => Newest > 0 /\ \E n \in 1..Newest : log[n].source = current[r]

\* The inductive invariant: types, and that nothing travels but revisions.
PolicyInv ==
  /\ TypeOK
  /\ \A t \in Task : Carries(t)
  /\ \A a \in Author : Checked(a)
  /\ \A r \in Replica : Recorded(r)

-----------------------------------------------------------------------------
LEMMA InitPolicyInv == Init => PolicyInv
<1> SUFFICES ASSUME Init PROVE PolicyInv
  OBVIOUS
<1>1. \A t \in Task : /\ NoTask(t) \in TaskRecord
                      /\ NoTask(t).step = "idle"
                      /\ t \in Replica => NoTask(t).at = t
  BY DEF NoTask, TaskRecord, Step
<1>2. Newest = 0 /\ log \in Seq(Revision)
  BY EmptySeq DEF Init, Newest
<1>3. TypeOK
  <2>1. task \in [Task -> TaskRecord] /\ \A t \in Task : task[t] = NoTask(t)
    BY <1>1 DEF Init
  <2>2. \A r \in Replica : r \in Task /\ task[r].at = r
    BY <1>1, <2>1 DEF Task
  <2>3. sequence \in [Replica -> 0..Newest] /\ audited \cup confirmed \subseteq 1..Newest
    BY <1>2 DEF Init
  <2> QED BY <1>1, <1>2, <2>1, <2>2, <2>3 DEF Init, TypeOK
<1> QED BY <1>1, <1>3 DEF Init, PolicyInv, Carries, Checked, Recorded, Task

\* The log only grows, so what was recorded stays recorded.
LEMMA AppendFacts ==
  ASSUME TypeOK, NEW e \in Revision, log' = Append(log, e)
  PROVE  /\ log' \in Seq(Revision)
         /\ Newest' = Newest + 1 /\ Newest \in Nat
         /\ log'[Newest + 1] = e
         /\ \A n \in 1..Newest : log'[n] = log[n]
  BY DEF TypeOK, Newest

\* One request, or one poller, changes its own record and nothing else.
LEMMA TaskStep ==
  ASSUME PolicyInv, NEW t \in Task, NEW k \in TaskRecord,
         task' = [task EXCEPT ![t] = k],
         t \in Replica => k.at = t,
         k.step # "idle" => k.at \in Replica /\ up[k.at] = "up" /\ k.source \in Policy,
         k.step \in {"audit", "check", "set", "count"} =>
           k.revision \in 1..Newest /\ k.source = log[k.revision].source,
         t \in Author /\ k.step = "append" => t \in Managers[k.source],
         UNCHANGED <<log, up>>
  PROVE  /\ task' \in [Task -> TaskRecord]
         /\ \A r \in Replica : task'[r].at = r
         /\ \A s \in Task : task'[s].step # "idle" =>
              task'[s].at \in Replica /\ up'[task'[s].at] = "up" /\ task'[s].source \in Policy
         /\ \A s \in Task : Carries(s)'
         /\ \A a \in Author : Checked(a)'
  BY PolicyAssumption DEF PolicyInv, TypeOK, Carries, Checked, Task, Newest

\* A task the append does not touch still carries a revision.
LEMMA CarriesOn ==
  ASSUME Newest \in Nat, Newest' = Newest + 1, \A n \in 1..Newest : log'[n] = log[n],
         NEW t \in Task, task'[t] = task[t], Carries(t)
  PROVE  Carries(t)'
  BY DEF Carries

\* A replica the append does not touch still enforces a revision; so does one
\* that comes up with the new one.
LEMMA RecordedOn ==
  ASSUME Newest \in Nat, Newest' = Newest + 1, \A n \in 1..Newest : log'[n] = log[n],
         NEW e \in Revision, log'[Newest + 1] = e,
         NEW r \in Replica, Recorded(r),
         up'[r] = "up" => \/ up[r] = "up" /\ current'[r] = current[r]
                          \/ current'[r] = e.source
  PROVE  Recorded(r)'
<1>1. CASE up'[r] = "up" /\ up[r] = "up" /\ current'[r] = current[r]
  <2>1. PICK n \in 1..Newest : log[n].source = current[r]
    BY <1>1 DEF Recorded
  <2>2. n \in 1..Newest' /\ log'[n].source = current'[r]
    BY <1>1, <2>1
  <2> QED BY <2>2 DEF Recorded
<1>2. CASE up'[r] = "up" /\ current'[r] = e.source
  <2>1. Newest + 1 \in 1..Newest' /\ log'[Newest + 1].source = current'[r]
    BY <1>2
  <2> QED BY <2>1 DEF Recorded
<1> QED BY <1>1, <1>2 DEF Recorded

-----------------------------------------------------------------------------
LEMMA NextPolicyInv == PolicyInv /\ [Next]_vars => PolicyInv'
<1> SUFFICES ASSUME PolicyInv, [Next]_vars PROVE PolicyInv'
  OBVIOUS
<1> USE PolicyAssumption
<1>0. /\ Newest \in Nat /\ log \in Seq(Revision)
      /\ \A n \in 1..Newest : log[n].source \in Policy
  <2>1. Newest \in Nat /\ log \in Seq(Revision)
    BY DEF PolicyInv, TypeOK, Newest
  <2>2. ASSUME NEW n \in 1..Newest PROVE log[n].source \in Policy
    <3>1. log[n] \in Revision
      BY <2>1, ElementOfSeq DEF Newest
    <3> QED BY <3>1 DEF Revision
  <2> QED BY <2>1, <2>2
<1>1. ASSUME NEW r \in Replica, StartStored(r) PROVE PolicyInv'
  <2>1. Newest > 0 /\ Stored(r) \in Policy
    <3>1. Newest # 0
      BY <1>0, <1>1, EmptySeq DEF StartStored, Unseeded, Newest
    <3> QED BY <1>0, <3>1 DEF Stored
  <2>2. TypeOK'
    BY <1>0, <1>1, <2>1 DEF StartStored, ComeUp, PolicyInv, TypeOK, Newest
  <2>3. \A t \in Task : Carries(t)'
    BY <1>1 DEF StartStored, PolicyInv, Carries, Newest
  <2>4. \A a \in Author : Checked(a)'
    BY <1>1 DEF StartStored, PolicyInv, Checked
  <2>5. \A s \in Replica : Recorded(s)'
    <3>1. ASSUME NEW s \in Replica, s # r PROVE Recorded(s)'
      BY <1>1, <3>1 DEF StartStored, ComeUp, PolicyInv, TypeOK, Recorded, Newest
    <3>2. Newest' = Newest /\ log' = log /\ current'[r] = log[Newest].source
      BY <1>1 DEF StartStored, ComeUp, PolicyInv, TypeOK, Stored, Newest
    <3>3. Recorded(r)'
      BY <1>0, <2>1, <3>2 DEF Recorded
    <3> QED BY <3>1, <3>3
  <2> QED BY <2>2, <2>3, <2>4, <2>5 DEF PolicyInv
<1>2. ASSUME NEW r \in Replica, StartEmpty(r) PROVE PolicyInv'
  BY <1>2 DEF StartEmpty, PolicyInv, TypeOK, Carries, Checked, Recorded, Newest
<1>3. ASSUME NEW r \in Replica, SeedStore(r) PROVE PolicyInv'
  <2> DEFINE e == [source |-> SeedOf[r], by |-> r]
  <2>1. e \in Revision /\ SeedOf[r] \in Policy
    BY DEF Revision, Task
  <2>2. log' = Append(log, e)
    BY <1>3 DEF SeedStore
  <2> HIDE DEF e
  <2>3. /\ log' \in Seq(Revision) /\ Newest' = Newest + 1
        /\ log'[Newest + 1] = e
        /\ \A n \in 1..Newest : log'[n] = log[n]
    BY <2>1, <2>2, AppendFacts DEF PolicyInv
  <2>8. /\ up' \in [Replica -> {"down", "seeding", "up"}]
        /\ \A s \in Replica : up[s] = "up" => up'[s] = "up"
        /\ current' \in [Replica -> Policy \cup {None}]
        /\ sequence' \in [Replica -> 0..Newest + 1]
        /\ UNCHANGED <<task, audited, confirmed, submitted, crashes>>
        /\ \A s \in Replica : up'[s] = "up" =>
             \/ up[s] = "up" /\ current'[s] = current[s]
             \/ current'[s] = SeedOf[r]
    <3>1. /\ UNCHANGED <<task, audited, confirmed, submitted, crashes>>
          /\ up[r] = "seeding"
          /\ \/ up' = [up EXCEPT ![r] = "down"] /\ UNCHANGED <<current, sequence>>
             \/ ComeUp(r, Newest + 1, SeedOf[r])
      BY <1>3 DEF SeedStore
    <3>2. /\ up \in [Replica -> {"down", "seeding", "up"}]
          /\ current \in [Replica -> Policy \cup {None}]
          /\ sequence \in [Replica -> 0..Newest + 1]
      BY <1>0 DEF PolicyInv, TypeOK
    <3>3. Newest + 1 \in 0..Newest + 1
      BY <1>0
    <3> QED BY <2>1, <3>1, <3>2, <3>3 DEF ComeUp
  <2>9. e.source = SeedOf[r]
    BY DEF e
  <2>4. TypeOK'
    BY <1>0, <2>3, <2>8 DEF PolicyInv, TypeOK
  <2>5. \A t \in Task : Carries(t)'
    BY <1>0, <2>3, <2>8, CarriesOn DEF PolicyInv
  <2>6. \A a \in Author : Checked(a)'
    BY <1>3 DEF SeedStore, PolicyInv, Checked
  <2>7. \A s \in Replica : Recorded(s)'
    BY <1>0, <2>1, <2>3, <2>8, <2>9, RecordedOn DEF PolicyInv
  <2> QED BY <2>4, <2>5, <2>6, <2>7 DEF PolicyInv
<1>4. ASSUME NEW r \in Replica, Crash(r) PROVE PolicyInv'
  <2>1. TypeOK'
    BY <1>4 DEF Crash, PolicyInv, TypeOK, NoTask, TaskRecord, Step, Task, Newest
  <2>2. \A t \in Task : Carries(t)'
    BY <1>4 DEF Crash, PolicyInv, TypeOK, Carries, NoTask, Newest
  <2>3. \A a \in Author : Checked(a)'
    BY <1>4 DEF Crash, PolicyInv, TypeOK, Checked, NoTask, Task
  <2>4. \A s \in Replica : Recorded(s)'
    BY <1>4 DEF Crash, PolicyInv, TypeOK, Recorded, Newest
  <2> QED BY <2>1, <2>2, <2>3, <2>4 DEF PolicyInv
<1>5. ASSUME NEW a \in Author, NEW r \in Replica, NEW p \in Policy, Submit(a, r, p) PROVE PolicyInv'
  <2> DEFINE k == [step |-> AfterChecks, at |-> r, source |-> p, revision |-> 0]
  <2>1. k \in TaskRecord /\ a \in Task /\ a \notin Replica
    BY DEF TaskRecord, Step, AfterChecks, Task
  <2>2. task' = [task EXCEPT ![a] = k] /\ UNCHANGED <<log, up>> /\ up[r] = "up" /\ a \in Managers[p]
    BY <1>5 DEF Submit, KeepsItsAuthor
  <2>3. k.step = "append" /\ k.at = r /\ k.source = p
    BY DEF AfterChecks
  <2> HIDE DEF k
  <2>4. /\ task' \in [Task -> TaskRecord]
        /\ \A s \in Replica : task'[s].at = s
        /\ \A s \in Task : task'[s].step # "idle" =>
             task'[s].at \in Replica /\ up'[task'[s].at] = "up" /\ task'[s].source \in Policy
        /\ \A s \in Task : Carries(s)'
        /\ \A b \in Author : Checked(b)'
    BY <2>1, <2>2, <2>3, TaskStep
  <2>5. TypeOK' /\ \A s \in Replica : Recorded(s)'
    BY <1>5, <2>4 DEF Submit, PolicyInv, TypeOK, Recorded, Newest
  <2> QED BY <2>4, <2>5 DEF PolicyInv
<1>6. ASSUME NEW t \in Task, Answer(t), UNCHANGED <<log, up, current>>,
             UNCHANGED submitted, UNCHANGED crashes,
             sequence' \in [Replica -> 0..Newest],
             audited' \cup confirmed' \subseteq 1..Newest
      PROVE PolicyInv'
  <2>1. NoTask(t) \in TaskRecord /\ NoTask(t).step = "idle" /\ (t \in Replica => NoTask(t).at = t)
    BY DEF NoTask, TaskRecord, Step
  <2>2. /\ task' \in [Task -> TaskRecord]
        /\ \A s \in Replica : task'[s].at = s
        /\ \A s \in Task : task'[s].step # "idle" =>
             task'[s].at \in Replica /\ up'[task'[s].at] = "up" /\ task'[s].source \in Policy
        /\ \A s \in Task : Carries(s)'
        /\ \A b \in Author : Checked(b)'
    BY <1>6, <2>1, TaskStep DEF Answer
  <2>3. TypeOK' /\ \A s \in Replica : Recorded(s)'
    BY <1>6, <2>2 DEF PolicyInv, TypeOK, Recorded, Newest
  <2> QED BY <2>2, <2>3 DEF PolicyInv
<1>7. ASSUME NEW a \in Author, AppendRevision(a) PROVE PolicyInv'
  <2> DEFINE e == [source |-> task[a].source, by |-> a]
  <2>0. a \in Task /\ a \notin Replica /\ task[a] \in TaskRecord
    BY DEF Task, PolicyInv, TypeOK
  <2>1. e \in Revision
    BY <1>7, <2>0 DEF AppendRevision, PolicyInv, TypeOK, Revision
  <2>2. log' = Append(log, e)
    BY <1>7 DEF AppendRevision
  <2> HIDE DEF e
  <2>3. /\ log' \in Seq(Revision) /\ Newest' = Newest + 1
        /\ log'[Newest + 1] = e
        /\ \A n \in 1..Newest : log'[n] = log[n]
    BY <2>1, <2>2, AppendFacts DEF PolicyInv
  <2>4. /\ task' = [task EXCEPT ![a] = [@ EXCEPT !.step = "audit", !.revision = Newest + 1]]
        /\ UNCHANGED <<up, current, sequence, audited, confirmed, submitted, crashes>>
        /\ task[a].step = "append" /\ e.source = task[a].source
    BY <1>7 DEF AppendRevision, e
  <2>9. /\ task'[a] \in TaskRecord /\ task'[a].step = "audit" /\ task'[a].revision = Newest + 1
        /\ task'[a].source = task[a].source /\ task'[a].at = task[a].at
        /\ \A t \in Task : t # a => task'[t] = task[t]
    <3>1. task[a] \in TaskRecord /\ task \in [Task -> TaskRecord] /\ Newest + 1 \in Nat
      BY <1>0, <2>0 DEF PolicyInv, TypeOK
    <3>2. task'[a] = [task[a] EXCEPT !.step = "audit", !.revision = Newest + 1]
      BY <2>0, <2>4, <3>1
    <3>3. \A t \in Task : t # a => task'[t] = task[t]
      BY <2>4, <3>1
    <3> QED BY <3>1, <3>2, <3>3 DEF TaskRecord, Step
  <2>10. task' \in [Task -> TaskRecord]
    BY <2>0, <2>4, <2>9 DEF PolicyInv, TypeOK
  <2>11. /\ \A s \in Replica : task'[s].at = s
         /\ \A t \in Task : task'[t].step # "idle" =>
              task'[t].at \in Replica /\ up'[task'[t].at] = "up" /\ task'[t].source \in Policy
    BY <2>0, <2>4, <2>9 DEF PolicyInv, TypeOK, Task
  <2>5. TypeOK'
    BY <1>0, <2>3, <2>4, <2>10, <2>11 DEF PolicyInv, TypeOK
  <2>12. Carries(a)'
    BY <1>0, <2>3, <2>4, <2>9 DEF Carries
  <2>6. \A t \in Task : Carries(t)'
    BY <1>0, <2>3, <2>9, <2>12, CarriesOn DEF PolicyInv
  <2>7. \A b \in Author : Checked(b)'
    BY <2>0, <2>4 DEF PolicyInv, TypeOK, TaskRecord, Checked, Task
  <2>8. \A s \in Replica : Recorded(s)'
    BY <1>0, <2>1, <2>3, <2>4, RecordedOn DEF PolicyInv
  <2> QED BY <2>5, <2>6, <2>7, <2>8 DEF PolicyInv
<1>8. ASSUME NEW a \in Author, AppendError(a) PROVE PolicyInv'
  <2>0. a \in Task
    BY DEF Task
  <2>1. CASE UNCHANGED log
    BY <1>6, <1>8, <2>0, <2>1 DEF AppendError, PolicyInv, TypeOK, Newest
  <2>2. CASE log' = Append(log, [source |-> task[a].source, by |-> a])
    <3> DEFINE e == [source |-> task[a].source, by |-> a]
    <3>1. e \in Revision
      BY <1>8, <2>0 DEF AppendError, PolicyInv, TypeOK, Revision
    <3> HIDE DEF e
    <3>2. /\ log' \in Seq(Revision) /\ Newest' = Newest + 1
          /\ \A n \in 1..Newest : log'[n] = log[n]
      BY <2>2, <3>1, AppendFacts DEF PolicyInv, e
    <3>3. task' = [task EXCEPT ![a] = NoTask(a)]
      BY <1>8 DEF AppendError, Answer
    <3>4. TypeOK'
      BY <1>0, <1>8, <2>0, <3>2, <3>3
         DEF AppendError, PolicyInv, TypeOK, NoTask, TaskRecord, Step, Task
    <3>5. \A t \in Task : Carries(t)'
      BY <1>0, <2>0, <3>2, <3>3 DEF PolicyInv, TypeOK, Carries, NoTask
    <3>6. \A b \in Author : Checked(b)'
      BY <2>0, <3>3 DEF PolicyInv, TypeOK, Checked, NoTask, Task
    <3>7. \A s \in Replica : Recorded(s)'
      BY <1>0, <1>8, <3>2 DEF AppendError, PolicyInv, Recorded
    <3> QED BY <3>4, <3>5, <3>6, <3>7 DEF PolicyInv
  <2> QED BY <1>8, <2>1, <2>2 DEF AppendError
<1>9. ASSUME NEW t \in Task, task[t].step # "idle", task[t].step # "append",
             NEW st \in {"set", "count"}, task' = [task EXCEPT ![t].step = st],
             UNCHANGED <<log, up>>
      PROVE /\ task' \in [Task -> TaskRecord]
            /\ \A s \in Replica : task'[s].at = s
            /\ \A s \in Task : task'[s].step # "idle" =>
                 task'[s].at \in Replica /\ up'[task'[s].at] = "up" /\ task'[s].source \in Policy
            /\ \A s \in Task : Carries(s)'
            /\ \A b \in Author : Checked(b)'
  <2> DEFINE k == [task[t] EXCEPT !.step = st]
  <2>1. task[t] \in TaskRecord /\ task' = [task EXCEPT ![t] = k] /\ task[t].at \in Replica
        /\ up[task[t].at] = "up" /\ task[t].source \in Policy /\ (t \in Replica => task[t].at = t)
    BY <1>9 DEF PolicyInv, TypeOK
  <2>2. k \in TaskRecord /\ k.at = task[t].at /\ k.source = task[t].source
        /\ k.revision = task[t].revision /\ k.step = st
    BY <2>1 DEF TaskRecord, Step
  <2>3. task[t].step \in {"audit", "check", "set", "count"}
    BY <1>9, <2>1 DEF TaskRecord, Step
  <2>4. task[t].revision \in 1..Newest /\ task[t].source = log[task[t].revision].source
    BY <2>3 DEF PolicyInv, Carries
  <2>5. /\ t \in Replica => k.at = t
        /\ k.step # "idle" => k.at \in Replica /\ up[k.at] = "up" /\ k.source \in Policy
    BY <2>1, <2>2
  <2>6. k.step \in {"audit", "check", "set", "count"} =>
          k.revision \in 1..Newest /\ k.source = log[k.revision].source
    BY <2>2, <2>4
  <2>7. k.step # "append"
    BY <2>2
  <2>8. k \in TaskRecord /\ task' = [task EXCEPT ![t] = k] /\ UNCHANGED <<log, up>>
    BY <1>9, <2>1, <2>2
  <2> HIDE DEF k
  <2> QED BY <2>5, <2>6, <2>7, <2>8, TaskStep
<1>10. ASSUME NEW a \in Author, Audit(a) PROVE PolicyInv'
  <2>1. a \in Task /\ task[a].revision \in 1..Newest
    BY <1>10 DEF Audit, PolicyInv, Carries, Task
  <2>2. /\ task' \in [Task -> TaskRecord]
        /\ \A s \in Replica : task'[s].at = s
        /\ \A s \in Task : task'[s].step # "idle" =>
             task'[s].at \in Replica /\ up'[task'[s].at] = "up" /\ task'[s].source \in Policy
        /\ \A s \in Task : Carries(s)'
        /\ \A b \in Author : Checked(b)'
    BY <1>9, <1>10, <2>1 DEF Audit
  <2>3. TypeOK' /\ \A s \in Replica : Recorded(s)'
    BY <1>10, <2>1, <2>2 DEF Audit, PolicyInv, TypeOK, Recorded, Newest
  <2> QED BY <2>2, <2>3 DEF PolicyInv
<1>11. ASSUME NEW a \in Author, AuditError(a) PROVE PolicyInv'
  BY <1>6, <1>11 DEF AuditError, PolicyInv, TypeOK, Task
<1>12. ASSUME NEW r \in Replica, PollRead(r) PROVE PolicyInv'
  <2> DEFINE k == [task[r] EXCEPT !.step = "check", !.revision = Newest, !.source = log[Newest].source]
  <2>1. r \in Task /\ r \notin Author /\ task[r] \in TaskRecord /\ task[r].at = r
    BY DEF Task, PolicyInv, TypeOK
  <2>2. Newest > 0
    BY <1>12 DEF PollRead, PolicyInv, Recorded
  <2>3. log[Newest].source \in Policy
    BY <1>0, <2>2
  <2>4. k \in TaskRecord /\ k.at = r /\ k.step = "check" /\ k.revision = Newest
        /\ k.source = log[Newest].source
    BY <1>0, <2>1, <2>3 DEF TaskRecord, Step
  <2>5. task' = [task EXCEPT ![r] = k]
    BY <1>12 DEF PollRead
  <2> HIDE DEF k
  <2>6. /\ task' \in [Task -> TaskRecord]
        /\ \A s \in Replica : task'[s].at = s
        /\ \A s \in Task : task'[s].step # "idle" =>
             task'[s].at \in Replica /\ up'[task'[s].at] = "up" /\ task'[s].source \in Policy
        /\ \A s \in Task : Carries(s)'
        /\ \A b \in Author : Checked(b)'
    <3>1. UNCHANGED <<log, up>> /\ up[r] = "up"
      BY <1>12 DEF PollRead
    <3>2. k.at \in Replica /\ up[k.at] = "up" /\ k.source \in Policy /\ k.revision \in 1..Newest
          /\ k.source = log[k.revision].source
      BY <1>0, <2>1, <2>2, <2>3, <2>4, <3>1
    <3> QED BY <2>1, <2>4, <2>5, <3>1, <3>2, TaskStep
  <2>7. TypeOK' /\ \A s \in Replica : Recorded(s)'
    BY <1>12, <2>6 DEF PollRead, PolicyInv, TypeOK, Recorded, Newest
  <2> QED BY <2>6, <2>7 DEF PolicyInv
<1>13. ASSUME NEW r \in Replica, PollCheck(r) PROVE PolicyInv'
  <2>0. r \in Task
    BY DEF Task
  <2>1. CASE task' = [task EXCEPT ![r].step = "set"]
    <3>1. /\ task' \in [Task -> TaskRecord]
          /\ \A s \in Replica : task'[s].at = s
          /\ \A s \in Task : task'[s].step # "idle" =>
               task'[s].at \in Replica /\ up'[task'[s].at] = "up" /\ task'[s].source \in Policy
          /\ \A s \in Task : Carries(s)'
          /\ \A b \in Author : Checked(b)'
      BY <1>9, <1>13, <2>0, <2>1 DEF PollCheck
    <3>2. TypeOK' /\ \A s \in Replica : Recorded(s)'
      BY <1>13, <3>1 DEF PollCheck, PolicyInv, TypeOK, Recorded, Newest
    <3> QED BY <3>1, <3>2 DEF PolicyInv
  <2>2. CASE Answer(r)
    BY <1>6, <1>13, <2>0, <2>2 DEF PollCheck, PolicyInv, TypeOK
  <2> QED BY <1>13, <2>1, <2>2 DEF PollCheck, Answer
<1>14. ASSUME NEW t \in Task, SwapSet(t) PROVE PolicyInv'
  <2>1. /\ task' \in [Task -> TaskRecord]
        /\ \A s \in Replica : task'[s].at = s
        /\ \A s \in Task : task'[s].step # "idle" =>
             task'[s].at \in Replica /\ up'[task'[s].at] = "up" /\ task'[s].source \in Policy
        /\ \A s \in Task : Carries(s)'
        /\ \A b \in Author : Checked(b)'
    BY <1>9, <1>14 DEF SwapSet
  <2>2. task[t].at \in Replica /\ task[t].source \in Policy /\ task[t].revision \in 1..Newest
        /\ task[t].source = log[task[t].revision].source
    BY <1>14 DEF SwapSet, PolicyInv, TypeOK, Carries
  <2>3. TypeOK'
    BY <1>14, <2>1, <2>2 DEF SwapSet, PolicyInv, TypeOK, Newest
  <2>4. \A s \in Replica : Recorded(s)'
    BY <1>0, <1>14, <2>2 DEF SwapSet, PolicyInv, TypeOK, Recorded, Newest
  <2> QED BY <2>1, <2>3, <2>4 DEF PolicyInv
<1>15. ASSUME NEW t \in Task, SwapSequence(t) PROVE PolicyInv'
  <2>1. task[t].at \in Replica /\ task[t].revision \in 1..Newest
    BY <1>15 DEF SwapSequence, PolicyInv, TypeOK, Carries
  <2>2. sequence' \in [Replica -> 0..Newest] /\ audited' \cup confirmed' \subseteq 1..Newest
    BY <1>0, <1>15, <2>1 DEF SwapSequence, PolicyInv, TypeOK
  <2> QED BY <1>6, <1>15, <2>2 DEF SwapSequence
<1>16. CASE UNCHANGED vars
  BY <1>16 DEF vars, PolicyInv, TypeOK, Carries, Checked, Recorded, Newest
<1>17. ASSUME NEW a \in Author, NEW r \in Replica, Rollback(a, r) PROVE PolicyInv'
  <2>1. PICK n \in 1..Newest : Submit(a, r, log[n].source)
    BY <1>17 DEF Rollback
  <2>2. log[n].source \in Policy
    BY <1>0, <2>1
  <2> QED BY <1>5, <2>1, <2>2
<1> QED
  BY <1>1, <1>2, <1>3, <1>4, <1>5, <1>7, <1>8, <1>10, <1>11, <1>12, <1>13, <1>14, <1>15, <1>16, <1>17
     DEF Next, Start, Poller, Update

-----------------------------------------------------------------------------
\* Whatever the crashes and the interleavings of authors and pollers, a replica
\* enforces only what the log holds (app.rs load_policy_admin, policies.rs apply,
\* reloadable.rs spawn_policy_poller).
THEOREM EnforcedIsRecordedHolds == Spec => []EnforcedIsRecorded
<1>1. PolicyInv => EnforcedIsRecorded
  BY DEF PolicyInv, Recorded, EnforcedIsRecorded
<1> QED BY <1>1, InitPolicyInv, NextPolicyInv, PTL DEF Spec

\* A replica that has yet to append its seed has none in the log.
SeedsToCome == \A r \in Replica : up[r] = "seeding" => \A n \in 1..Newest : log[n].by # r

LEMMA SeedsOn ==
  ASSUME PolicyInv, FileSeedsOnce, SeedsToCome, NEW e \in Revision,
         log' = Append(log, e),
         \A r \in Replica : up'[r] = "seeding" => up[r] = "seeding" /\ e.by # r,
         e.by \in Replica => up[e.by] = "seeding"
  PROVE  FileSeedsOnce' /\ SeedsToCome'
<1>1. /\ Newest \in Nat /\ Newest' = Newest + 1
      /\ \A n \in 1..Newest : log'[n] = log[n]
      /\ log'[Newest + 1] = e
  BY AppendFacts DEF PolicyInv
<1>2. ASSUME NEW n \in 1..Newest' PROVE n \in 1..Newest \/ n = Newest + 1
  BY <1>1
<1>3. ASSUME NEW n \in 1..Newest, e.by \in Replica PROVE log'[n].by # e.by
  BY <1>1, <1>3 DEF SeedsToCome
<1>4. ASSUME NEW m \in 1..Newest', NEW n \in 1..Newest',
             log'[m].by \in Replica, log'[n].by = log'[m].by
      PROVE m = n
  <2>1. CASE m \in 1..Newest /\ n \in 1..Newest
    BY <1>1, <1>4, <2>1 DEF FileSeedsOnce
  <2>2. CASE m = Newest + 1 \/ n = Newest + 1
    BY <1>1, <1>2, <1>3, <1>4, <2>2
  <2> QED BY <1>2, <2>1, <2>2
<1>5. ASSUME NEW r \in Replica, up'[r] = "seeding", NEW n \in 1..Newest'
      PROVE log'[n].by # r
  BY <1>1, <1>2, <1>5 DEF SeedsToCome
<1> QED BY <1>4, <1>5 DEF FileSeedsOnce, SeedsToCome

\* A file seeds an empty store, and a replica that has seeded finds it so no more
\* (app.rs load_policy_admin).
THEOREM FileSeedsOnceHolds == Spec => []FileSeedsOnce
<1>1. Init => FileSeedsOnce /\ SeedsToCome
  BY DEF Init, FileSeedsOnce, SeedsToCome, Newest
<1>2. PolicyInv /\ FileSeedsOnce /\ SeedsToCome /\ [Next]_vars => FileSeedsOnce' /\ SeedsToCome'
  <2> SUFFICES ASSUME PolicyInv, FileSeedsOnce, SeedsToCome, [Next]_vars
               PROVE  FileSeedsOnce' /\ SeedsToCome'
    OBVIOUS
  <2> USE PolicyAssumption
  <2>1. ASSUME UNCHANGED log, \A s \in Replica : up'[s] = "seeding" => up[s] = "seeding"
        PROVE  FileSeedsOnce' /\ SeedsToCome'
    BY <2>1 DEF FileSeedsOnce, SeedsToCome, Newest
  <2>2. ASSUME NEW r \in Replica, StartEmpty(r) PROVE FileSeedsOnce' /\ SeedsToCome'
    <3>1. log = <<>> /\ log' = log
      BY <2>2 DEF StartEmpty, Unseeded
    <3>2. 1..Newest' = {}
      BY <3>1 DEF Newest
    <3> QED BY <3>2 DEF FileSeedsOnce, SeedsToCome
  <2>3. ASSUME NEW r \in Replica, SeedStore(r) PROVE FileSeedsOnce' /\ SeedsToCome'
    <3> DEFINE e == [source |-> SeedOf[r], by |-> r]
    <3>1. e \in Revision /\ log' = Append(log, e) /\ e.by = r /\ up[r] = "seeding"
      BY <2>3 DEF SeedStore, Revision, Task
    <3>2. \A s \in Replica : up'[s] = "seeding" => up[s] = "seeding" /\ s # r
      BY <2>3 DEF SeedStore, ComeUp, PolicyInv, TypeOK
    <3> HIDE DEF e
    <3> QED BY <3>1, <3>2, SeedsOn
  <2>4. ASSUME NEW a \in Author, task[a].step = "append", up' = up,
               log' = Append(log, [source |-> task[a].source, by |-> a])
        PROVE FileSeedsOnce' /\ SeedsToCome'
    <3> DEFINE e == [source |-> task[a].source, by |-> a]
    <3>1. e \in Revision /\ log' = Append(log, e) /\ e.by = a /\ a \notin Replica
      BY <2>4 DEF PolicyInv, TypeOK, Revision, Task
    <3> HIDE DEF e
    <3> QED BY <2>4, <3>1, SeedsOn
  <2>5. ASSUME NEW r \in Replica, StartStored(r) \/ Crash(r)
        PROVE FileSeedsOnce' /\ SeedsToCome'
    <3>1. UNCHANGED log /\ \A s \in Replica : up'[s] = "seeding" => up[s] = "seeding"
      BY <2>5 DEF StartStored, ComeUp, Crash, PolicyInv, TypeOK
    <3> QED BY <2>1, <3>1
  <2>6. ASSUME NEW r \in Replica, Poller(r) PROVE UNCHANGED <<log, up>>
    BY <2>6 DEF Poller, PollRead, PollCheck
  <2>7. ASSUME NEW a \in Author, NEW r \in Replica, Update(a, r) \/ Rollback(a, r)
        PROVE UNCHANGED <<log, up>>
    BY <2>7 DEF Update, Rollback, Submit
  <2>8. ASSUME NEW a \in Author, AppendRevision(a) \/ AppendError(a) \/ Audit(a) \/ AuditError(a)
        PROVE FileSeedsOnce' /\ SeedsToCome'
    BY <2>1, <2>4, <2>8 DEF AppendRevision, AppendError, Audit, AuditError
  <2>9. ASSUME NEW t \in Task, SwapSet(t) \/ SwapSequence(t) PROVE UNCHANGED <<log, up>>
    BY <2>9 DEF SwapSet, SwapSequence
  <2>10. CASE UNCHANGED vars
    BY <2>1, <2>10 DEF vars
  <2> QED BY <2>1, <2>2, <2>3, <2>5, <2>6, <2>7, <2>8, <2>9, <2>10 DEF Next, Start
<1> QED BY <1>1, <1>2, InitPolicyInv, NextPolicyInv, PTL DEF Spec

\* Every revision permits somebody to manage policy.
LogGoverned == \A n \in 1..Newest : Managers[log[n].source] # {}

LEMMA GovernedOn ==
  ASSUME PolicyInv, LogGoverned, NEW e \in Revision, log' = Append(log, e),
         Managers[e.source] # {}
  PROVE  LogGoverned'
<1>1. /\ Newest \in Nat /\ Newest' = Newest + 1
      /\ \A n \in 1..Newest : log'[n] = log[n]
      /\ log'[Newest + 1] = e
  BY AppendFacts DEF PolicyInv
<1>2. ASSUME NEW n \in 1..Newest' PROVE Managers[log'[n].source] # {}
  <2>1. CASE n \in 1..Newest
    BY <1>1, <2>1 DEF LogGoverned
  <2>2. CASE n = Newest + 1
    BY <1>1, <2>2
  <2>3. n \in 1..Newest \/ n = Newest + 1
    BY <1>1
  <2> QED BY <2>1, <2>2, <2>3
<1> QED BY <1>2 DEF LogGoverned

\* If every seed lets somebody manage policy, somebody always can, on every
\* replica: each author is asked for by the set that replaces theirs
\* (policies.rs:341-366), and a rollback or a poll brings back only such a set.
THEOREM AdministrableHolds ==
  ASSUME \A r \in Replica : Managers[SeedOf[r]] # {}
  PROVE  Spec => []Administrable
<1>1. Init => LogGoverned
  BY DEF Init, LogGoverned, Newest
<1>2. PolicyInv /\ LogGoverned /\ [Next]_vars => LogGoverned'
  <2> SUFFICES ASSUME PolicyInv, LogGoverned, [Next]_vars PROVE LogGoverned'
    OBVIOUS
  <2>1. ASSUME UNCHANGED log PROVE LogGoverned'
    BY <2>1 DEF LogGoverned, Newest
  <2>2. ASSUME NEW r \in Replica, SeedStore(r) PROVE LogGoverned'
    <3> DEFINE e == [source |-> SeedOf[r], by |-> r]
    <3>1. e \in Revision /\ Managers[e.source] # {} /\ log' = Append(log, e)
      BY <2>2, PolicyAssumption DEF SeedStore, Revision, Task
    <3> HIDE DEF e
    <3> QED BY <3>1, GovernedOn
  <2>3. ASSUME NEW a \in Author, task[a].step = "append",
               log' = Append(log, [source |-> task[a].source, by |-> a])
        PROVE LogGoverned'
    <3> DEFINE e == [source |-> task[a].source, by |-> a]
    <3>1. task[a].source \in Policy /\ a \in Managers[task[a].source]
      BY <2>3 DEF PolicyInv, TypeOK, Checked, Task
    <3>2. e \in Revision /\ Managers[e.source] # {} /\ log' = Append(log, e)
      BY <2>3, <3>1 DEF Revision, Task
    <3> HIDE DEF e
    <3> QED BY <3>2, GovernedOn
  <2>4. ASSUME NEW a \in Author, AppendRevision(a) \/ AppendError(a) \/ Audit(a) \/ AuditError(a)
        PROVE LogGoverned'
    BY <2>1, <2>3, <2>4 DEF AppendRevision, AppendError, Audit, AuditError
  <2>5. ASSUME NEW r \in Replica, Start(r) \/ Crash(r) \/ Poller(r) PROVE LogGoverned'
    BY <2>1, <2>2, <2>5 DEF Start, StartStored, StartEmpty, Crash, Poller, PollRead, PollCheck
  <2>6. ASSUME NEW a \in Author, NEW r \in Replica, Update(a, r) \/ Rollback(a, r) PROVE UNCHANGED log
    BY <2>6 DEF Update, Rollback, Submit
  <2>7. ASSUME NEW t \in Task, SwapSet(t) \/ SwapSequence(t) PROVE UNCHANGED log
    BY <2>7 DEF SwapSet, SwapSequence
  <2>8. CASE UNCHANGED vars
    BY <2>1, <2>8 DEF vars
  <2> QED BY <2>1, <2>4, <2>5, <2>6, <2>7, <2>8 DEF Next
<1>3. PolicyInv /\ LogGoverned => Administrable
  BY DEF PolicyInv, Recorded, LogGoverned, Administrable
<1> QED BY <1>1, <1>2, <1>3, InitPolicyInv, NextPolicyInv, PTL DEF Spec
=============================================================================
