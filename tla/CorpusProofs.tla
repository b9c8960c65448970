----------------------------- MODULE CorpusProofs -----------------------------
(***************************************************************************)
(* Theorems about online corpus jobs and their watchers, for any number of *)
(* run calls, jobs, keys, registrations and disturbances.                  *)
(***************************************************************************)
EXTENDS CorpusWatchers, FiniteSetTheorems, SequenceTheorems, TLAPS

TheJobs == JobRecords(AllSources, AllKeys)

(* The registrations of a process, and how many of them a tick polls.      *)
LEMMA PollsBound ==
  ASSUME registrations \in Configs
  PROVE  /\ Polls(registrations) \in Nat
         /\ Polls(registrations) <= Len(registrations)
         /\ Len(registrations) \in Nat
         /\ \A n \in 1..Len(registrations) :
              /\ registrations[n] \in Registrations
              /\ registrations[n].source \in AllSources
              /\ KeyOf(registrations[n]) \in AllKeys
              /\ KeyOf(registrations[n]) # NoKey
              /\ Cursor(registrations[n]) \in Cursors
<1>1. registrations \in Seq(Registrations)
  BY WatcherAssumption
<1>2. /\ Len(registrations) \in Nat
      /\ \A n \in 1..Len(registrations) : registrations[n] \in Registrations
  BY <1>1
<1>3. Polls(registrations) \in Nat /\ Polls(registrations) <= Len(registrations)
  BY <1>2, WatcherAssumption DEF Polls
<1> QED
  BY <1>2, <1>3, WatcherAssumption DEF AllSources, AllKeys, Cursors

(* What a transition does to the list of jobs.                             *)
LEMMA MoveEffect ==
  ASSUME CorpusTypeOK, NEW j \in Job, NEW next \in States, Move(j, next)
  PROVE  /\ jobs' \in Seq(TheJobs) /\ Len(jobs') = Len(jobs)
         /\ Job' = Job
         /\ Permits(jobs[j].state, next)
         /\ \A i \in Job : jobs'[i] = IF i = j THEN Moved(jobs[j], next) ELSE jobs[i]
         /\ abandoned' = abandoned \ {j}
<1>1. jobs \in Seq(TheJobs) /\ j \in 1..Len(jobs)
  BY DEF CorpusTypeOK, JobsTypeOK, TheJobs, Job
<1>2. jobs[j] \in TheJobs
  BY <1>1
<1>3. Moved(jobs[j], next) \in TheJobs
  <2> DEFINE job == jobs[j]
             a == IF next = "running" THEN job.attempts + 1 ELSE job.attempts
             r == IF next = "queued" THEN job.retries + 1 ELSE job.retries
  <2>1. job \in TheJobs
    BY <1>2
  <2>2. a \in Nat /\ r \in Nat
    BY <2>1 DEF TheJobs, JobRecords
  <2>3. Moved(job, next) = [job EXCEPT !.state = next, !.attempts = a, !.retries = r]
    BY DEF Moved
  <2> HIDE DEF job, a, r
  <2>4. [job EXCEPT !.state = next, !.attempts = a, !.retries = r] \in TheJobs
    BY <2>1, <2>2 DEF TheJobs, JobRecords
  <2> QED
    BY <2>3, <2>4 DEF job
<1>4. jobs' = [jobs EXCEPT ![j] = Moved(jobs[j], next)]
  BY DEF Move
<1>5. jobs' \in Seq(TheJobs) /\ Len(jobs') = Len(jobs)
  BY <1>1, <1>3, <1>4, ExceptSeq
<1>6. \A i \in 1..Len(jobs) : jobs'[i] = IF i = j THEN Moved(jobs[j], next) ELSE jobs[i]
  BY <1>1, <1>3, <1>4, ExceptSeq
<1>7. DOMAIN jobs = 1..Len(jobs) /\ DOMAIN jobs' = 1..Len(jobs')
  BY <1>1, <1>5
<1> QED
  BY <1>5, <1>6, <1>7 DEF Move, Job

(* What a new job does to the list, and to the knowledge graph.            *)
LEMMA EnqueueEffect ==
  ASSUME CorpusTypeOK, NEW s \in AllSources, NEW k \in AllKeys, Enqueue(s, k)
  PROVE  /\ jobs' \in Seq(TheJobs) /\ Len(jobs') = Len(jobs) + 1
         /\ kg' \in Seq(Evidence) /\ Len(kg') = Len(jobs')
         /\ Job' = Job \cup {Len(jobs) + 1} /\ Len(jobs) + 1 \notin Job
         /\ \A i \in Job : jobs'[i] = jobs[i] /\ kg'[i] = kg[i]
         /\ jobs'[Len(jobs) + 1] = NewJob(s, k)
         /\ kg'[Len(jobs) + 1] = NoEvidence
<1>1. jobs \in Seq(TheJobs) /\ kg \in Seq(Evidence) /\ Len(kg) = Len(jobs)
  BY DEF CorpusTypeOK, JobsTypeOK, TheJobs
<1>2. NewJob(s, k) \in TheJobs
  BY DEF NewJob, TheJobs, JobRecords, States, Terminal
<1>3. NoEvidence \in Evidence
  <2>1. << >> \in Seq(BOOLEAN)
    OBVIOUS
  <2> QED
    BY <2>1 DEF NoEvidence, Evidence
<1>4. jobs' = Append(jobs, NewJob(s, k)) /\ kg' = Append(kg, NoEvidence)
  BY DEF Enqueue
<1>5. /\ jobs' \in Seq(TheJobs) /\ Len(jobs') = Len(jobs) + 1
      /\ \A i \in 1..Len(jobs) : jobs'[i] = jobs[i]
      /\ jobs'[Len(jobs) + 1] = NewJob(s, k)
  BY <1>1, <1>2, <1>4, AppendProperties
<1>6. /\ kg' \in Seq(Evidence) /\ Len(kg') = Len(kg) + 1
      /\ \A i \in 1..Len(kg) : kg'[i] = kg[i]
      /\ kg'[Len(kg) + 1] = NoEvidence
  BY <1>1, <1>3, <1>4, AppendProperties
<1>7. DOMAIN jobs = 1..Len(jobs) /\ DOMAIN jobs' = 1..Len(jobs') /\ Len(jobs) \in Nat
  BY <1>1, <1>5
<1> QED
  BY <1>1, <1>5, <1>6, <1>7 DEF Job

(* What new evidence about a job does to the knowledge graph.              *)
LEMMA EvidenceEffect ==
  ASSUME CorpusTypeOK, NEW j \in Job, NEW e \in Evidence,
         kg' = [kg EXCEPT ![j] = e]
  PROVE  /\ kg' \in Seq(Evidence) /\ Len(kg') = Len(kg)
         /\ \A i \in Job : kg'[i] = IF i = j THEN e ELSE kg[i]
<1>1. kg \in Seq(Evidence) /\ Len(kg) = Len(jobs) /\ Job = 1..Len(jobs)
  <2>1. jobs \in Seq(TheJobs)
    BY DEF CorpusTypeOK, JobsTypeOK, TheJobs
  <2> QED
    BY <2>1 DEF CorpusTypeOK, JobsTypeOK, Job
<1> QED
  BY <1>1, ExceptSeq

(* The parts of the type invariant, opened.                                *)
LEMMA TypeFacts ==
  ASSUME CorpusTypeOK
  PROVE  /\ jobs \in Seq(TheJobs) /\ Len(jobs) \in Nat /\ Job = 1..Len(jobs)
         /\ kg \in Seq(Evidence) /\ Len(kg) = Len(jobs)
         /\ \A j \in Job : jobs[j] \in TheJobs /\ kg[j] \in Evidence
         /\ \A j \in Job : jobs[j].state \in States /\ Len(kg[j].reviews) \in Nat
         /\ \A c \in RunCalls : calls[c] \in CallRecords
<1>1. jobs \in Seq(TheJobs) /\ kg \in Seq(Evidence) /\ Len(kg) = Len(jobs)
      /\ calls \in [RunCalls -> CallRecords]
  BY DEF CorpusTypeOK, JobsTypeOK, TheJobs
<1>2. Len(jobs) \in Nat /\ Job = 1..Len(jobs)
  BY <1>1 DEF Job
<1>3. \A j \in Job : jobs[j] \in TheJobs /\ kg[j] \in Evidence
  BY <1>1, <1>2
<1>4. \A e \in Evidence : e.reviews \in Seq(BOOLEAN) /\ Len(e.reviews) \in Nat
  BY DEF Evidence
<1>5. \A t \in TheJobs : t.state \in States
  BY DEF TheJobs, JobRecords
<1> QED
  BY <1>1, <1>2, <1>3, <1>4, <1>5

(* What a step of a run call does to the calls: it moves on in its own     *)
(* record, or becomes idle.                                                *)
LEMMA CallEffect ==
  ASSUME CorpusTypeOK, NEW c \in RunCalls
  PROVE  /\ \A p \in Phases : Goto(c, p) =>
              /\ calls' \in [RunCalls -> CallRecords]
              /\ calls'[c].phase = p /\ calls'[c].job = calls[c].job
              /\ calls'[c].review = calls[c].review
              /\ calls'[c].mayRetry = calls[c].mayRetry
              /\ \A d \in RunCalls \ {c} : calls'[d] = calls[d]
         /\ \A p \in Phases, r \in Nat :
              calls' = [calls EXCEPT ![c].phase = p, ![c].review = r] =>
              /\ calls' \in [RunCalls -> CallRecords]
              /\ calls'[c].phase = p /\ calls'[c].job = calls[c].job
              /\ calls'[c].review = r
              /\ calls'[c].mayRetry = calls[c].mayRetry
              /\ \A d \in RunCalls \ {c} : calls'[d] = calls[d]
         /\ Return(c) =>
              /\ calls' \in [RunCalls -> CallRecords]
              /\ calls'[c].phase = "idle"
              /\ \A d \in RunCalls \ {c} : calls'[d] = calls[d]
<1>1. calls \in [RunCalls -> CallRecords] /\ calls[c] \in CallRecords
  BY DEF CorpusTypeOK, JobsTypeOK
<1>2. Idle \in CallRecords /\ Idle.phase = "idle"
  BY DEF Idle, CallRecords, Phases
<1>3. ASSUME NEW p \in Phases, Goto(c, p)
      PROVE  /\ calls' \in [RunCalls -> CallRecords]
             /\ calls'[c].phase = p /\ calls'[c].job = calls[c].job
             /\ calls'[c].review = calls[c].review
             /\ calls'[c].mayRetry = calls[c].mayRetry
             /\ \A d \in RunCalls \ {c} : calls'[d] = calls[d]
  BY <1>1, <1>3 DEF Goto, CallRecords
<1>4. ASSUME NEW p \in Phases, NEW r \in Nat,
             calls' = [calls EXCEPT ![c].phase = p, ![c].review = r]
      PROVE  /\ calls' \in [RunCalls -> CallRecords]
             /\ calls'[c].phase = p /\ calls'[c].job = calls[c].job
             /\ calls'[c].review = r
             /\ calls'[c].mayRetry = calls[c].mayRetry
             /\ \A d \in RunCalls \ {c} : calls'[d] = calls[d]
  BY <1>1, <1>4 DEF CallRecords
<1>5. ASSUME Return(c)
      PROVE  /\ calls' \in [RunCalls -> CallRecords]
             /\ calls'[c].phase = "idle"
             /\ \A d \in RunCalls \ {c} : calls'[d] = calls[d]
  BY <1>1, <1>2, <1>5 DEF Return
<1> QED
  BY <1>3, <1>4, <1>5

(* The two halves of the type invariant.                                   *)
JobsTypes == JobsTypeOK(AllSources, AllKeys)
WatchersTypes ==
  /\ registrations \in Configs
  /\ cursors \subseteq Cursors /\ seen \subseteq Cursors
  /\ at \in 0..Polls(registrations)
  /\ step \in {"check", "enqueue", "save"}
  /\ at = 0 => step = "check"
  /\ lost \subseteq AllKeys

(* A new job keeps the types.                                              *)
LEMMA CreateTypes ==
  ASSUME CorpusTypeOK, NEW s \in AllSources, NEW k \in AllKeys, Enqueue(s, k),
         disturbances' \in 0..MaxDisturbances
  PROVE  JobsTypes'
<1>1. /\ jobs' \in Seq(TheJobs) /\ Len(jobs') = Len(jobs) + 1
      /\ kg' \in Seq(Evidence) /\ Len(kg') = Len(jobs')
      /\ Job' = Job \cup {Len(jobs) + 1}
      /\ \A i \in Job : jobs'[i] = jobs[i] /\ kg'[i] = kg[i]
      /\ jobs'[Len(jobs) + 1] = NewJob(s, k)
      /\ kg'[Len(jobs) + 1] = NoEvidence
  BY EnqueueEffect
<1>2. \A j \in Job' : jobs'[j].review \in 0..Len(kg'[j].reviews)
  <2>1. NewJob(s, k).review = 0 /\ NoEvidence.reviews = << >>
    BY DEF NewJob, NoEvidence
  <2>2. \A j \in Job : jobs[j].review \in 0..Len(kg[j].reviews)
    BY DEF CorpusTypeOK, JobsTypeOK
  <2> QED
    BY <1>1, <2>1, <2>2
<1>3. calls' = calls /\ abandoned' = abandoned
  BY DEF Enqueue
<1>4. /\ calls' \in [RunCalls -> CallRecords]
      /\ \A c \in RunCalls : calls'[c].phase # "idle" =>
           /\ calls'[c].job \in Job'
           /\ calls'[c].phase \in {"resolve", "record", "await"} =>
                calls'[c].review \in 1..Len(kg'[calls'[c].job].reviews)
      /\ abandoned' \subseteq Job'
  BY <1>1, <1>3 DEF CorpusTypeOK, JobsTypeOK
<1> QED
  BY <1>1, <1>2, <1>4 DEF JobsTypes, JobsTypeOK, TheJobs

(* A transition keeps the types, if the calls keep theirs.                 *)
LEMMA MoveTypes ==
  ASSUME CorpusTypeOK, NEW j \in Job, NEW next \in States, Move(j, next),
         UNCHANGED <<kg, disturbances>>
  PROVE  /\ jobs' \in Seq(TheJobs) /\ Len(kg') = Len(jobs') /\ kg' \in Seq(Evidence)
         /\ Job' = Job
         /\ \A i \in Job' : jobs'[i].review \in 0..Len(kg'[i].reviews)
         /\ \A i \in Job : jobs'[i].review = jobs[i].review
         /\ abandoned' \subseteq Job'
         /\ disturbances' \in 0..MaxDisturbances
<1>1. /\ jobs' \in Seq(TheJobs) /\ Len(jobs') = Len(jobs) /\ Job' = Job
      /\ \A i \in Job : jobs'[i] = IF i = j THEN Moved(jobs[j], next) ELSE jobs[i]
      /\ abandoned' = abandoned \ {j}
  BY MoveEffect
<1>2. Moved(jobs[j], next).review = jobs[j].review
  BY TypeFacts DEF Moved, TheJobs, JobRecords
<1>3. \A i \in Job : jobs'[i].review = jobs[i].review
  BY <1>1, <1>2
<1>4. /\ \A i \in Job : jobs[i].review \in 0..Len(kg[i].reviews)
      /\ abandoned \subseteq Job /\ disturbances \in 0..MaxDisturbances
      /\ kg \in Seq(Evidence) /\ Len(kg) = Len(jobs)
  BY DEF CorpusTypeOK, JobsTypeOK
<1> QED
  BY <1>1, <1>3, <1>4

(* The calls keep their types in a step of one of them that changes no     *)
(* evidence.                                                               *)
LEMMA CallsTypes ==
  ASSUME CorpusTypeOK, NEW c \in RunCalls, calls[c].phase # "idle",
         Job' = Job, kg' = kg,
         \/ Return(c)
         \/ \E p \in Phases :
              /\ Goto(c, p)
              /\ p \in {"resolve", "record", "await"} =>
                   calls[c].phase \in {"resolve", "record", "await"}
  PROVE  /\ calls' \in [RunCalls -> CallRecords]
         /\ \A d \in RunCalls : calls'[d].phase # "idle" =>
              /\ calls'[d].job \in Job'
              /\ calls'[d].phase \in {"resolve", "record", "await"} =>
                   calls'[d].review \in 1..Len(kg'[calls'[d].job].reviews)
<1>1. \A d \in RunCalls : calls[d].phase # "idle" =>
        /\ calls[d].job \in Job
        /\ calls[d].phase \in {"resolve", "record", "await"} =>
             calls[d].review \in 1..Len(kg[calls[d].job].reviews)
  BY DEF CorpusTypeOK, JobsTypeOK
<1>2. CASE Return(c)
  <2>1. /\ calls' \in [RunCalls -> CallRecords] /\ calls'[c].phase = "idle"
        /\ \A d \in RunCalls \ {c} : calls'[d] = calls[d]
    BY <1>2, CallEffect
  <2> QED
    BY <1>1, <2>1
<1>3. ASSUME NEW p \in Phases, Goto(c, p),
             p \in {"resolve", "record", "await"} =>
               calls[c].phase \in {"resolve", "record", "await"}
      PROVE  /\ calls' \in [RunCalls -> CallRecords]
             /\ \A d \in RunCalls : calls'[d].phase # "idle" =>
                  /\ calls'[d].job \in Job'
                  /\ calls'[d].phase \in {"resolve", "record", "await"} =>
                       calls'[d].review \in 1..Len(kg'[calls'[d].job].reviews)
  <2>1. /\ calls' \in [RunCalls -> CallRecords]
        /\ calls'[c].phase = p /\ calls'[c].job = calls[c].job
        /\ calls'[c].review = calls[c].review
        /\ \A d \in RunCalls \ {c} : calls'[d] = calls[d]
    BY <1>3, CallEffect
  <2> QED
    BY <1>1, <1>3, <2>1
<1> QED
  BY <1>2, <1>3

(* The steps of a run on one job's evidence.                               *)
LEMMA EvidenceChange ==
  ASSUME NEW v \in Evidence
  PROVE  /\ v.reviews \in Seq(BOOLEAN) /\ Len(v.reviews) \in Nat
         /\ DOMAIN v.reviews = 1..Len(v.reviews)
         /\ [v EXCEPT !.staged = TRUE] \in Evidence
         /\ [v EXCEPT !.staged = TRUE].reviews = v.reviews
         /\ [v EXCEPT !.suggested = TRUE] \in Evidence
         /\ [v EXCEPT !.suggested = TRUE].reviews = v.reviews
         /\ \A b \in BOOLEAN :
              /\ [v EXCEPT !.reviews = Append(@, b)] \in Evidence
              /\ [v EXCEPT !.reviews = Append(@, b)].reviews = Append(v.reviews, b)
              /\ Len(Append(v.reviews, b)) = Len(v.reviews) + 1
<1>1. v.reviews \in Seq(BOOLEAN) /\ v.staged \in BOOLEAN /\ v.suggested \in BOOLEAN
  BY DEF Evidence
<1>2. Len(v.reviews) \in Nat /\ DOMAIN v.reviews = 1..Len(v.reviews)
  BY <1>1
<1>3. /\ [v EXCEPT !.staged = TRUE] \in Evidence
      /\ [v EXCEPT !.staged = TRUE].reviews = v.reviews
  BY DEF Evidence
<1>4. /\ [v EXCEPT !.suggested = TRUE] \in Evidence
      /\ [v EXCEPT !.suggested = TRUE].reviews = v.reviews
  BY DEF Evidence
<1>5. ASSUME NEW b \in BOOLEAN
      PROVE  /\ [v EXCEPT !.reviews = Append(@, b)] \in Evidence
             /\ [v EXCEPT !.reviews = Append(@, b)].reviews = Append(v.reviews, b)
             /\ Len(Append(v.reviews, b)) = Len(v.reviews) + 1
  <2> DEFINE q == Append(v.reviews, b)
  <2>1. q \in Seq(BOOLEAN) /\ Len(q) = Len(v.reviews) + 1
    BY <1>1, AppendProperties
  <2> HIDE DEF q
  <2>2. [v EXCEPT !.reviews = q] \in Evidence /\ [v EXCEPT !.reviews = q].reviews = q
    BY <2>1 DEF Evidence
  <2> QED
    BY <2>1, <2>2 DEF q
<1> QED
  BY <1>1, <1>2, <1>3, <1>4, <1>5

(* New evidence keeps the types, if it drops no review: the run call that  *)
(* brings it may name any review there is by then.                         *)
LEMMA EvidenceTypes ==
  ASSUME CorpusTypeOK, NEW c \in RunCalls, calls[c].phase # "idle",
         NEW e \in Evidence, kg' = [kg EXCEPT ![calls[c].job] = e],
         Len(kg[calls[c].job].reviews) <= Len(e.reviews),
         UNCHANGED <<jobs, abandoned, disturbances>>,
         \/ \E p \in Phases :
              /\ Goto(c, p)
              /\ p \in {"resolve", "record", "await"} =>
                   calls[c].phase \in {"resolve", "record", "await"}
         \/ \E p \in Phases, r \in Nat :
              /\ calls' = [calls EXCEPT ![c].phase = p, ![c].review = r]
              /\ p \in {"resolve", "record", "await"} => r \in 1..Len(e.reviews)
  PROVE  JobsTypes'
<1> DEFINE j == calls[c].job
<1>1. j \in Job /\ Job' = Job
  BY DEF CorpusTypeOK, JobsTypeOK, Job
<1>2. /\ kg' \in Seq(Evidence) /\ Len(kg') = Len(kg)
      /\ \A i \in Job : kg'[i] = IF i = j THEN e ELSE kg[i]
  BY <1>1, EvidenceEffect
<1>3. \A i \in Job : /\ Len(kg[i].reviews) \in Nat /\ Len(kg'[i].reviews) \in Nat
                     /\ Len(kg[i].reviews) <= Len(kg'[i].reviews)
  <2>1. Len(e.reviews) \in Nat
    BY DEF Evidence
  <2> QED
    BY <1>1, <1>2, <2>1, TypeFacts
<1>4. \A i \in Job' : jobs'[i].review \in 0..Len(kg'[i].reviews)
  <2>1. \A i \in Job : jobs[i].review \in 0..Len(kg[i].reviews)
    BY DEF CorpusTypeOK, JobsTypeOK
  <2> QED
    BY <1>1, <1>3, <2>1
<1>5. \A d \in RunCalls : calls[d].phase # "idle" =>
        /\ calls[d].job \in Job'
        /\ calls[d].phase \in {"resolve", "record", "await"} =>
             calls[d].review \in 1..Len(kg'[calls[d].job].reviews)
  <2>1. \A d \in RunCalls : calls[d].phase # "idle" =>
          /\ calls[d].job \in Job
          /\ calls[d].phase \in {"resolve", "record", "await"} =>
               calls[d].review \in 1..Len(kg[calls[d].job].reviews)
    BY DEF CorpusTypeOK, JobsTypeOK
  <2> QED
    BY <1>1, <1>3, <2>1
<1> DEFINE CallMoves ==
        \E p \in Phases, r \in Nat :
        /\ calls' \in [RunCalls -> CallRecords]
        /\ calls'[c].phase = p /\ calls'[c].job = j /\ calls'[c].review = r
        /\ p \in {"resolve", "record", "await"} => r \in 1..Len(kg'[j].reviews)
        /\ \A d \in RunCalls \ {c} : calls'[d] = calls[d]
<1>6. CallMoves
  <2>1. calls[c].review \in Nat
    BY TypeFacts DEF CallRecords
  <2>2. ASSUME NEW p \in Phases, Goto(c, p),
               p \in {"resolve", "record", "await"} =>
                 calls[c].phase \in {"resolve", "record", "await"}
        PROVE  CallMoves
    <3>1. /\ calls' \in [RunCalls -> CallRecords]
          /\ calls'[c].phase = p /\ calls'[c].job = j
          /\ calls'[c].review = calls[c].review
          /\ \A d \in RunCalls \ {c} : calls'[d] = calls[d]
      BY <2>2, CallEffect
    <3> QED
      BY <1>5, <2>1, <2>2, <3>1
  <2>3. ASSUME NEW p \in Phases, NEW r \in Nat,
               calls' = [calls EXCEPT ![c].phase = p, ![c].review = r],
               p \in {"resolve", "record", "await"} => r \in 1..Len(e.reviews)
        PROVE  CallMoves
    <3>1. /\ calls' \in [RunCalls -> CallRecords]
          /\ calls'[c].phase = p /\ calls'[c].job = j /\ calls'[c].review = r
          /\ \A d \in RunCalls \ {c} : calls'[d] = calls[d]
      <4>1. calls \in [RunCalls -> CallRecords] /\ calls[c] \in CallRecords
        BY DEF CorpusTypeOK, JobsTypeOK
      <4>2. calls' = [calls EXCEPT ![c] = [@ EXCEPT !.phase = p, !.review = r]]
        BY <2>3
      <4> HIDE DEF j
      <4> QED
        BY <4>1, <4>2 DEF CallRecords, j
    <3> QED
      BY <1>1, <1>2, <2>3, <3>1
  <2> QED
    BY <2>2, <2>3
<1>7. /\ calls' \in [RunCalls -> CallRecords]
      /\ \A d \in RunCalls : calls'[d].phase # "idle" =>
           /\ calls'[d].job \in Job'
           /\ calls'[d].phase \in {"resolve", "record", "await"} =>
                calls'[d].review \in 1..Len(kg'[calls'[d].job].reviews)
  BY <1>1, <1>5, <1>6
<1>8. /\ jobs' \in Seq(TheJobs) /\ Len(kg') = Len(jobs')
      /\ abandoned' \subseteq Job' /\ disturbances' \in 0..MaxDisturbances
  BY <1>1, <1>2 DEF CorpusTypeOK, JobsTypeOK, TheJobs
<1> QED
  BY <1>2, <1>4, <1>7, <1>8 DEF JobsTypes, JobsTypeOK, TheJobs

(* A step of a run call moves its job or ends the call.                    *)
LEMMA MovedTypes ==
  ASSUME CorpusTypeOK, NEW c \in RunCalls, calls[c].phase # "idle",
         NEW next \in States, Move(calls[c].job, next), UNCHANGED <<kg, disturbances>>,
         \/ Return(c)
         \/ \E p \in Phases \ {"resolve", "record", "await"} : Goto(c, p)
  PROVE  JobsTypes'
<1>1. calls[c].job \in Job
  BY DEF CorpusTypeOK, JobsTypeOK
<1>2. /\ jobs' \in Seq(TheJobs) /\ Len(kg') = Len(jobs') /\ kg' \in Seq(Evidence)
      /\ Job' = Job
      /\ \A i \in Job' : jobs'[i].review \in 0..Len(kg'[i].reviews)
      /\ abandoned' \subseteq Job'
      /\ disturbances' \in 0..MaxDisturbances
  BY <1>1, MoveTypes
<1>3. /\ calls' \in [RunCalls -> CallRecords]
      /\ \A d \in RunCalls : calls'[d].phase # "idle" =>
           /\ calls'[d].job \in Job'
           /\ calls'[d].phase \in {"resolve", "record", "await"} =>
                calls'[d].review \in 1..Len(kg'[calls'[d].job].reviews)
  BY <1>2, CallsTypes
<1> QED
  BY <1>2, <1>3 DEF JobsTypes, JobsTypeOK, TheJobs

(* Every step of the job handlers keeps the types.                         *)
LEMMA JobsKeepTypes ==
  ASSUME CorpusTypeOK, JobsNext
  PROVE  JobsTypes'
<1> USE CorpusAssumption
<1>a. /\ \A c \in RunCalls : calls[c].phase # "idle" => calls[c].job \in Job
      /\ disturbances \in 0..MaxDisturbances /\ abandoned \subseteq Job
  BY DEF CorpusTypeOK, JobsTypeOK
<1>1. ASSUME NEW s \in Sources, NEW k \in Keys \cup {NoKey}, Create(s, k)
      PROVE  JobsTypes'
  <2>1. s \in AllSources /\ k \in AllKeys
    BY DEF AllSources, AllKeys
  <2>2. Enqueue(s, k) /\ disturbances' = disturbances
    BY <1>1 DEF Create, Enqueue
  <2> QED
    BY <1>a, <2>1, <2>2, CreateTypes
<1>2. ASSUME NEW j \in Job, Cancel(j)
      PROVE  JobsTypes'
  <2>1. Move(j, "cancelled") /\ UNCHANGED <<kg, calls, disturbances>>
    BY <1>2 DEF Cancel
  <2>2. "cancelled" \in States
    BY DEF States, Terminal
  <2>3. /\ jobs' \in Seq(TheJobs) /\ Len(kg') = Len(jobs') /\ kg' \in Seq(Evidence)
        /\ Job' = Job
        /\ \A i \in Job' : jobs'[i].review \in 0..Len(kg'[i].reviews)
        /\ abandoned' \subseteq Job'
        /\ disturbances' \in 0..MaxDisturbances
    BY <2>1, <2>2, MoveTypes
  <2> QED
    BY <2>1, <2>3 DEF JobsTypes, JobsTypeOK, TheJobs, CorpusTypeOK
<1>3. ASSUME NEW c \in RunCalls, NEW j \in Job, RunReads(c, j)
      PROVE  JobsTypes'
  <2>1. /\ j \in Nat /\ UNCHANGED <<jobs, kg, abandoned>> /\ Job' = Job
    BY <1>3, TypeFacts DEF RunReads, Job
  <2>2. \E p \in {"start", "stage"} :
          calls' = [calls EXCEPT ![c] =
            [phase |-> p, job |-> j, mayRetry |-> MayRetry(jobs[j]), review |-> 0]]
    BY <1>3 DEF RunReads
  <2>3. MayRetry(jobs[j]) \in BOOLEAN
    BY DEF MayRetry
  <2>4. calls \in [RunCalls -> CallRecords]
    BY DEF CorpusTypeOK, JobsTypeOK
  <2>5. /\ calls' \in [RunCalls -> CallRecords]
        /\ calls'[c].phase \in {"start", "stage"} /\ calls'[c].job = j
        /\ \A d \in RunCalls \ {c} : calls'[d] = calls[d]
    <3> DEFINE m == MayRetry(jobs[j])
    <3>1. PICK p \in {"start", "stage"} :
            calls' = [calls EXCEPT ![c] =
              [phase |-> p, job |-> j, mayRetry |-> m, review |-> 0]]
      BY <2>2
    <3>2. m \in BOOLEAN
      BY <2>3
    <3> HIDE DEF m
    <3>3. [phase |-> p, job |-> j, mayRetry |-> m, review |-> 0] \in CallRecords
      BY <2>1, <3>2 DEF CallRecords, Phases
    <3> QED
      BY <2>4, <3>1, <3>3
  <2>6. disturbances' \in 0..MaxDisturbances
    BY <1>3, <1>a DEF RunReads, Disturb
  <2>7. \A d \in RunCalls : calls'[d].phase # "idle" =>
          /\ calls'[d].job \in Job'
          /\ calls'[d].phase \in {"resolve", "record", "await"} =>
               calls'[d].review \in 1..Len(kg'[calls'[d].job].reviews)
    BY <2>1, <2>5 DEF CorpusTypeOK, JobsTypeOK
  <2> QED
    BY <2>1, <2>5, <2>6, <2>7 DEF JobsTypes, JobsTypeOK, CorpusTypeOK
<1>4. ASSUME NEW c \in RunCalls, RunStarts(c)
      PROVE  JobsTypes'
  <2>1. /\ calls[c].phase # "idle" /\ Move(calls[c].job, "running")
        /\ Goto(c, "stage") /\ UNCHANGED <<kg, disturbances>>
    BY <1>4 DEF RunStarts
  <2>2. "running" \in States /\ "stage" \in Phases \ {"resolve", "record", "await"}
    BY DEF States, Phases
  <2> QED
    BY <2>1, <2>2, MovedTypes
<1>5. ASSUME NEW c \in RunCalls, Stage(c)
      PROVE  JobsTypes'
  <2> DEFINE j == calls[c].job
             e == [kg[j] EXCEPT !.staged = TRUE]
  <2>1. /\ calls[c].phase # "idle" /\ j \in Job /\ kg[j] \in Evidence
        /\ UNCHANGED <<jobs, abandoned, disturbances>>
    BY <1>5, <1>a, TypeFacts DEF Stage
  <2>2. kg' = [kg EXCEPT ![j] = e]
    BY <1>5 DEF Stage
  <2>3. /\ e \in Evidence /\ e.reviews = kg[j].reviews /\ Len(e.reviews) \in Nat
        /\ DOMAIN kg[j].reviews = 1..Len(e.reviews)
    BY <2>1, EvidenceChange
  <2>4. \E r \in IF kg[j].reviews = << >> THEN {0} ELSE DOMAIN kg[j].reviews :
          calls' = [calls EXCEPT ![c].phase = IF r = 0 THEN "hold" ELSE "resolve",
                                 ![c].review = r]
    BY <1>5 DEF Stage
  <2>5. \E p \in Phases, r \in Nat :
          /\ calls' = [calls EXCEPT ![c].phase = p, ![c].review = r]
          /\ p \in {"resolve", "record", "await"} => r \in 1..Len(e.reviews)
    <3>1. PICK r \in IF kg[j].reviews = << >> THEN {0} ELSE DOMAIN kg[j].reviews :
            calls' = [calls EXCEPT ![c].phase = IF r = 0 THEN "hold" ELSE "resolve",
                                   ![c].review = r]
      BY <2>4
    <3> DEFINE p == IF r = 0 THEN "hold" ELSE "resolve"
    <3>2. p \in Phases /\ r \in Nat
      BY <2>3 DEF Phases
    <3>3. p \in {"resolve", "record", "await"} => r \in 1..Len(e.reviews)
      BY <2>3
    <3>4. calls' = [calls EXCEPT ![c].phase = p, ![c].review = r]
      BY <3>1
    <3> HIDE DEF p, e
    <3> QED
      BY <3>2, <3>3, <3>4
  <2>6. Len(kg[j].reviews) <= Len(e.reviews)
    BY <2>3
  <2> HIDE DEF e
  <2> QED
    BY <2>1, <2>2, <2>3, <2>5, <2>6, EvidenceTypes
<1>6. ASSUME NEW c \in RunCalls, HoldReview(c)
      PROVE  JobsTypes'
  <2> DEFINE j == calls[c].job
  <2>1. /\ calls[c].phase # "idle" /\ j \in Job /\ kg[j] \in Evidence
        /\ UNCHANGED <<jobs, abandoned, disturbances>>
    BY <1>6, <1>a, TypeFacts DEF HoldReview
  <2>2. PICK passed \in BOOLEAN :
          kg' = [kg EXCEPT ![j].reviews = Append(@, passed)]
    BY <1>6 DEF HoldReview
  <2> DEFINE e == [kg[j] EXCEPT !.reviews = Append(@, passed)]
  <2>3. kg' = [kg EXCEPT ![j] = e]
    BY <2>2
  <2>4. /\ e \in Evidence /\ Len(kg[j].reviews) \in Nat
        /\ Len(e.reviews) = Len(kg[j].reviews) + 1
    <3> DEFINE v == kg[j]
    <3>1. v \in Evidence
      BY <2>1
    <3> HIDE DEF v
    <3>2. /\ [v EXCEPT !.reviews = Append(@, passed)] \in Evidence
          /\ [v EXCEPT !.reviews = Append(@, passed)].reviews = Append(v.reviews, passed)
          /\ Len(Append(v.reviews, passed)) = Len(v.reviews) + 1 /\ Len(v.reviews) \in Nat
      BY <3>1, EvidenceChange
    <3> QED
      BY <3>2 DEF v
  <2>5. calls' = [calls EXCEPT ![c].phase = "resolve",
                               ![c].review = Len(kg[j].reviews) + 1]
    BY <1>6 DEF HoldReview
  <2>6. \E p \in Phases, r \in Nat :
          /\ calls' = [calls EXCEPT ![c].phase = p, ![c].review = r]
          /\ p \in {"resolve", "record", "await"} => r \in 1..Len(e.reviews)
    <3>1. "resolve" \in Phases /\ Len(kg[j].reviews) + 1 \in Nat
      BY <2>4 DEF Phases
    <3>2. Len(kg[j].reviews) + 1 \in 1..Len(e.reviews)
      BY <2>4
    <3> QED
      BY <2>5, <3>1, <3>2
  <2> HIDE DEF e
  <2>7. Len(kg[j].reviews) <= Len(e.reviews)
    <3> DEFINE n == Len(kg[j].reviews)
               m == Len(e.reviews)
    <3>1. n \in Nat /\ m = n + 1
      BY <2>4
    <3> HIDE DEF n, m
    <3>2. n <= m
      BY <3>1
    <3> QED
      BY <3>2 DEF n, m
  <2> QED
    BY <2>1, <2>3, <2>4, <2>6, <2>7, EvidenceTypes
<1>7. ASSUME NEW c \in RunCalls, Resolve(c) \/ ResolveFails(c)
      PROVE  JobsTypes'
  <2> DEFINE j == calls[c].job
  <2>1. /\ calls[c].phase = "resolve" /\ j \in Job /\ kg[j] \in Evidence
        /\ kg \in Seq(Evidence) /\ j \in DOMAIN kg
        /\ UNCHANGED <<jobs, abandoned, disturbances>>
    BY <1>7, <1>a, TypeFacts DEF Resolve, ResolveFails
  <2>2. \E p \in {"record", "rejected", "interrupted"} : Goto(c, p)
    BY <1>7 DEF Resolve, ResolveFails
  <2>3. \E e \in {kg[j], [kg[j] EXCEPT !.suggested = TRUE]} :
          kg' = [kg EXCEPT ![j] = e]
    <3>1. kg = [kg EXCEPT ![j] = kg[j]]
      BY <2>1
    <3> QED
      BY <1>7, <3>1 DEF Resolve, ResolveFails
  <2>4. PICK e \in {kg[j], [kg[j] EXCEPT !.suggested = TRUE]} :
          kg' = [kg EXCEPT ![j] = e]
    BY <2>3
  <2>5. e \in Evidence /\ e.reviews = kg[j].reviews /\ Len(e.reviews) \in Nat
    BY <2>1, <2>4, EvidenceChange
  <2>6. \E p \in Phases :
          /\ Goto(c, p)
          /\ p \in {"resolve", "record", "await"} =>
               calls[c].phase \in {"resolve", "record", "await"}
    BY <2>1, <2>2 DEF Phases
  <2>7. Len(kg[j].reviews) <= Len(e.reviews) /\ calls[c].phase # "idle"
    BY <2>1, <2>5
  <2> QED
    BY <2>1, <2>4, <2>5, <2>6, <2>7, EvidenceTypes
<1>8. ASSUME NEW c \in RunCalls, WorkFails(c) \/ RunConflicts(c) \/ RunDropped(c)
      PROVE  JobsTypes'
  <2>1. calls[c].phase # "idle" /\ UNCHANGED <<jobs, kg, disturbances>> /\ Job' = Job
    BY <1>8 DEF WorkFails, RunConflicts, RunDropped, Job
  <2>2. Return(c) \/ Goto(c, "rejected")
    BY <1>8 DEF WorkFails, RunConflicts, RunDropped
  <2>3. "rejected" \in Phases
    BY DEF Phases
  <2>4. /\ calls' \in [RunCalls -> CallRecords]
        /\ \A d \in RunCalls : calls'[d].phase # "idle" =>
             /\ calls'[d].job \in Job'
             /\ calls'[d].phase \in {"resolve", "record", "await"} =>
                  calls'[d].review \in 1..Len(kg'[calls'[d].job].reviews)
    BY <2>1, <2>2, <2>3, CallsTypes
  <2>5. abandoned' \subseteq Job'
    BY <1>8, <1>a, <2>1
       DEF WorkFails, RunConflicts, RunDropped, LosesRunner
  <2> QED
    BY <2>1, <2>4, <2>5 DEF JobsTypes, JobsTypeOK, CorpusTypeOK
<1>9. ASSUME NEW c \in RunCalls, RunEnds(c)
      PROVE  JobsTypes'
  <2>1. /\ calls[c].phase # "idle" /\ Move(calls[c].job, Target(c))
        /\ Return(c) /\ UNCHANGED <<kg, disturbances>>
    BY <1>9 DEF RunEnds
  <2>2. Target(c) \in States
    BY DEF Target, AfterError, States, Terminal
  <2> QED
    BY <2>1, <2>2, MovedTypes
<1>10. ASSUME NEW c \in RunCalls, RecordLinks(c)
       PROVE  JobsTypes'
  <2> DEFINE j == calls[c].job
             r == calls[c].review
             t == [jobs[j] EXCEPT !.review = r]
  <2>1. /\ calls[c].phase = "record" /\ j \in Job /\ jobs[j] \in TheJobs
        /\ r \in 1..Len(kg[j].reviews) /\ r \in Nat
        /\ jobs' = [jobs EXCEPT ![j] = t] /\ Goto(c, "await")
        /\ UNCHANGED <<kg, abandoned, disturbances>>
    BY <1>10, <1>a, TypeFacts DEF RecordLinks, CorpusTypeOK, JobsTypeOK, CallRecords
  <2>2. t \in TheJobs /\ t.review = r
    <3> HIDE DEF r
    <3> QED
      BY <2>1 DEF TheJobs, JobRecords
  <2> HIDE DEF t
  <2>3. /\ jobs' \in Seq(TheJobs) /\ Len(jobs') = Len(jobs)
        /\ \A i \in Job : jobs'[i] = IF i = j THEN t ELSE jobs[i]
    BY <2>1, <2>2, TypeFacts, ExceptSeq
  <2>4. Job' = Job
    BY <2>3, TypeFacts DEF Job
  <2>5. \A i \in Job' : jobs'[i].review \in 0..Len(kg'[i].reviews)
    BY <2>1, <2>2, <2>3, <2>4, TypeFacts DEF CorpusTypeOK, JobsTypeOK
  <2>6. "await" \in Phases /\ calls[c].phase \in {"resolve", "record", "await"}
    BY <2>1 DEF Phases
  <2>7. /\ calls' \in [RunCalls -> CallRecords]
        /\ \A d \in RunCalls : calls'[d].phase # "idle" =>
             /\ calls'[d].job \in Job'
             /\ calls'[d].phase \in {"resolve", "record", "await"} =>
                  calls'[d].review \in 1..Len(kg'[calls'[d].job].reviews)
    BY <2>1, <2>4, <2>6, CallsTypes
  <2>8. /\ kg' \in Seq(Evidence) /\ Len(kg') = Len(jobs')
        /\ abandoned' \subseteq Job' /\ disturbances' \in 0..MaxDisturbances
    BY <1>a, <2>1, <2>3, <2>4, TypeFacts
  <2> QED
    BY <2>3, <2>5, <2>7, <2>8 DEF JobsTypes, JobsTypeOK, TheJobs
<1> QED
  BY <1>1, <1>2, <1>3, <1>4, <1>5, <1>6, <1>7, <1>8, <1>9, <1>10
     DEF JobsNext, RunStep

(* On to the next registration, or back to the end of the tick.            *)
LEMMA AdvanceTypes ==
  ASSUME WatchersTypes, at # 0, Advance, registrations' = registrations
  PROVE  at' \in 0..Polls(registrations)' /\ step' = "check"
<1>1. Polls(registrations) \in Nat /\ at \in 0..Polls(registrations)
  BY PollsBound DEF WatchersTypes
<1> QED
  BY <1>1 DEF Advance

(* The scheduler's steps and a restart keep both halves of the types.      *)
LEMMA WatchersKeepTypes ==
  ASSUME CorpusTypeOK, SchedulerStep \/ Restart
  PROVE  JobsTypes' /\ WatchersTypes'
<1> USE CorpusAssumption
<1>a. JobsTypes /\ WatchersTypes
  BY DEF CorpusTypeOK, JobsTypes, WatchersTypes
<1>b. /\ Polls(registrations) \in Nat /\ Polls(registrations) <= Len(registrations)
      /\ Len(registrations) \in Nat
      /\ \A n \in 1..Len(registrations) :
           /\ registrations[n].source \in AllSources
           /\ KeyOf(registrations[n]) \in AllKeys
           /\ Cursor(registrations[n]) \in Cursors
  BY <1>a, PollsBound DEF WatchersTypes
<1>c. at # 0 => /\ at \in 1..Len(registrations)
                /\ Here.source \in AllSources /\ KeyOf(Here) \in AllKeys
                /\ Cursor(Here) \in Cursors
  <2>1. at \in 0..Polls(registrations)
    BY <1>a DEF WatchersTypes
  <2>2. at # 0 => at \in 1..Len(registrations)
    BY <1>b, <2>1
  <2> QED
    BY <1>b, <2>2 DEF Here
<1>d. UNCHANGED jobVars => JobsTypes'
  BY <1>a DEF JobsTypes, JobsTypeOK, jobVars, Job
<1>e. Disturb => disturbances' \in 0..MaxDisturbances
  BY <1>a DEF Disturb, JobsTypes, JobsTypeOK
<1>f. disturbances \in 0..MaxDisturbances
  BY <1>a DEF JobsTypes, JobsTypeOK
<1>1. CASE TickStarts
  <2>1. Polls(registrations) # 0
    <3>1. Len(registrations) # 0
      <4>1. registrations \in Seq(Registrations)
        BY <1>a, WatcherAssumption DEF WatchersTypes
      <4> QED
        BY <1>1, <4>1 DEF TickStarts
    <3> QED
      BY <1>b, <3>1, WatcherAssumption DEF Polls
  <2>2. 1 \in 0..Polls(registrations)
    BY <1>b, <2>1
  <2>3. disturbances' \in 0..MaxDisturbances /\ UNCHANGED <<jobs, kg, calls, abandoned>>
    BY <1>1, <1>e, <1>f DEF TickStarts
  <2>4. JobsTypes'
    BY <1>a, <2>3 DEF JobsTypes, JobsTypeOK, Job
  <2>5. seen' \subseteq Cursors /\ UNCHANGED <<registrations, cursors, lost>>
    BY <1>1, <1>a DEF TickStarts, WatchersTypes
  <2>6. at' = 1 /\ step' = "check"
    BY <1>1 DEF TickStarts
  <2> QED
    BY <1>a, <2>2, <2>4, <2>5, <2>6 DEF WatchersTypes
<1>2. CASE Skip
  <2>1. at # 0 /\ Advance /\ registrations' = registrations
    BY <1>2 DEF Skip
  <2>2. at' \in 0..Polls(registrations)' /\ step' = "check"
    BY <1>a, <2>1, AdvanceTypes
  <2> QED
    BY <1>2, <1>a, <1>d, <2>2 DEF Skip, WatchersTypes
<1>3. CASE Count
  <2>1. at # 0 /\ registrations' = registrations
    BY <1>3 DEF Count
  <2>2. /\ at' \in 0..Polls(registrations)' /\ step' \in {"check", "enqueue"}
        /\ at' = 0 => step' = "check"
    <3>1. CASE Advance
      BY <1>a, <2>1, <3>1, AdvanceTypes
    <3>2. CASE step' = "enqueue" /\ UNCHANGED at
      BY <1>a, <2>1, <3>2 DEF WatchersTypes
    <3> QED
      BY <1>3, <3>1, <3>2 DEF Count
  <2> QED
    BY <1>3, <1>a, <1>d, <2>2 DEF Count, WatchersTypes
<1>4. CASE WatcherEnqueues
  <2>1. /\ at # 0 /\ Enqueue(Here.source, KeyOf(Here))
        /\ step' = "save" /\ UNCHANGED <<registrations, cursors, seen, at, lost>>
    BY <1>4 DEF WatcherEnqueues
  <2>2. disturbances' = disturbances
    BY <2>1 DEF Enqueue
  <2>3. JobsTypes'
    BY <1>c, <1>f, <2>1, <2>2, CreateTypes
  <2> QED
    BY <1>a, <2>1, <2>3 DEF WatchersTypes
<1>5. CASE WatcherReuses
  BY <1>5, <1>a, <1>d DEF WatcherReuses, WatchersTypes
<1>6. CASE EnqueueRejected
  <2>1. /\ at # 0 /\ Advance /\ registrations' = registrations
        /\ UNCHANGED <<jobs, kg, calls, abandoned, cursors, seen, lost>>
        /\ disturbances' \in 0..MaxDisturbances
    BY <1>6, <1>e, <1>f DEF EnqueueRejected, Rejected
  <2>2. at' \in 0..Polls(registrations)' /\ step' = "check"
    BY <1>a, <2>1, AdvanceTypes
  <2>3. JobsTypes'
    BY <1>a, <2>1 DEF JobsTypes, JobsTypeOK, Job
  <2> QED
    BY <1>a, <2>1, <2>2, <2>3 DEF WatchersTypes
<1>7. CASE SaveCursors
  <2>1. /\ at # 0 /\ Advance /\ registrations' = registrations
        /\ UNCHANGED <<jobs, kg, calls, abandoned, lost>>
        /\ seen' = seen \cup {Cursor(Here)} /\ cursors' \in {seen', cursors}
        /\ disturbances' \in 0..MaxDisturbances
    BY <1>7, <1>e, <1>f DEF SaveCursors
  <2>2. at' \in 0..Polls(registrations)' /\ step' = "check"
    BY <1>a, <2>1, AdvanceTypes
  <2>3. JobsTypes'
    BY <1>a, <2>1 DEF JobsTypes, JobsTypeOK, Job
  <2>4. seen' \subseteq Cursors /\ cursors' \subseteq Cursors
    BY <1>a, <1>c, <2>1 DEF WatchersTypes
  <2> QED
    BY <1>a, <2>1, <2>2, <2>3, <2>4 DEF WatchersTypes
<1>8. CASE Restart
  <2>1. /\ calls' = [c \in RunCalls |-> Idle] /\ UNCHANGED cursors
        /\ registrations' \in Configs
        /\ seen' = {} /\ at' = 0 /\ step' = "check"
        /\ disturbances' \in 0..MaxDisturbances
    BY <1>8, <1>e DEF Restart, JobsRestart, JobsUnreadable
  <2>2. Idle \in CallRecords /\ Idle.phase = "idle"
    BY DEF Idle, CallRecords, Phases
  <2>3. JobsTypes'
    <3>1. CASE JobsRestart
      <4>1. UNCHANGED <<jobs, kg>> /\ abandoned' \subseteq Job
        BY <3>1 DEF JobsRestart
      <4> QED
        BY <1>a, <2>1, <2>2, <4>1 DEF JobsTypes, JobsTypeOK, Job
    <3>2. CASE JobsUnreadable
      <4>1. jobs' = << >> /\ kg' = << >> /\ abandoned' = {}
        BY <3>2 DEF JobsUnreadable
      <4>2. /\ jobs' \in Seq(TheJobs) /\ kg' \in Seq(Evidence)
            /\ Len(kg') = Len(jobs') /\ Job' = {}
        BY <4>1 DEF Job
      <4> QED
        BY <2>1, <2>2, <4>1, <4>2 DEF JobsTypes, JobsTypeOK, TheJobs
    <3> QED
      BY <1>8, <3>1, <3>2 DEF Restart
  <2>5. lost' \subseteq AllKeys
    <3>1. \A j \in Job : jobs[j].key \in AllKeys
      BY TypeFacts DEF TheJobs, JobRecords
    <3> QED
      BY <1>8, <1>a, <3>1 DEF Restart, WatchersTypes
  <2>4. Polls(registrations)' \in Nat
    <3>1. registrations' \in Seq(Registrations)
      BY <2>1, WatcherAssumption
    <3>2. Len(registrations') \in Nat
      BY <3>1
    <3> QED
      BY <3>2, WatcherAssumption DEF Polls
  <2> QED
    BY <2>1, <2>3, <2>4, <2>5, <1>a DEF WatchersTypes
<1> QED
  BY <1>1, <1>2, <1>3, <1>4, <1>5, <1>6, <1>7, <1>8 DEF SchedulerStep

(* Every step keeps the types.                                             *)
LEMMA CorpusKeepsTypes ==
  ASSUME CorpusTypeOK, [WatchersNext]_allVars
  PROVE  CorpusTypeOK'
<1>1. CASE JobsNext /\ UNCHANGED watcherVars
  <2>1. JobsTypes'
    BY <1>1, JobsKeepTypes
  <2> QED
    BY <1>1, <2>1 DEF CorpusTypeOK, JobsTypes, watcherVars
<1>2. CASE SchedulerStep \/ Restart
  <2>1. JobsTypes' /\ WatchersTypes'
    BY <1>2, WatchersKeepTypes
  <2> QED
    BY <2>1 DEF CorpusTypeOK, JobsTypes, WatchersTypes
<1>3. CASE UNCHANGED allVars
  BY <1>3 DEF allVars, jobVars, watcherVars, CorpusTypeOK, JobsTypeOK, Job
<1> QED
  BY <1>1, <1>2, <1>3 DEF WatchersNext

(* The process starts with no job and with its types.                      *)
LEMMA CorpusStartsTyped == WatchersInit => CorpusTypeOK
<1> SUFFICES ASSUME WatchersInit PROVE CorpusTypeOK
  OBVIOUS
<1> USE CorpusAssumption
<1>1. /\ jobs = << >> /\ kg = << >> /\ calls = [c \in RunCalls |-> Idle]
      /\ abandoned = {} /\ disturbances = 0
  BY DEF WatchersInit, JobsInit
<1>2. Idle \in CallRecords /\ Idle.phase = "idle"
  BY DEF Idle, CallRecords, Phases
<1>3. jobs \in Seq(TheJobs) /\ kg \in Seq(Evidence) /\ Len(kg) = Len(jobs) /\ Job = {}
  BY <1>1 DEF Job
<1>4. JobsTypes
  BY <1>1, <1>2, <1>3 DEF JobsTypes, JobsTypeOK, TheJobs
<1>5. Polls(registrations) \in Nat
  BY PollsBound DEF WatchersInit
<1> QED
  BY <1>4, <1>5 DEF WatchersInit, CorpusTypeOK, JobsTypes

(* The jobs, the calls, the cursors and the tick always have their types.  *)
THEOREM CorpusTypeCorrect == WatchersSpec => []CorpusTypeOK
<1>1. CorpusTypeOK /\ [WatchersNext]_allVars => CorpusTypeOK'
  BY CorpusKeepsTypes
<1> QED
  BY CorpusStartsTyped, <1>1, PTL DEF WatchersSpec

----------------------------------------------------------------------------
(* HTTP callers and the watchers create jobs in the same way.              *)
LEMMA NewJobs ==
  ASSUME CorpusTypeOK,
         \/ \E s \in Sources, k \in Keys \cup {NoKey} : Create(s, k)
         \/ WatcherEnqueues
  PROVE  \E s \in AllSources, k \in AllKeys : Enqueue(s, k)
<1>1. CASE \E s \in Sources, k \in Keys \cup {NoKey} : Create(s, k)
  <2>1. Sources \subseteq AllSources /\ Keys \cup {NoKey} \subseteq AllKeys
    BY DEF AllSources, AllKeys
  <2> QED
    BY <1>1, <2>1 DEF Create
<1>2. CASE WatcherEnqueues
  <2>1. registrations \in Configs /\ at \in 0..Polls(registrations) /\ at # 0
    BY <1>2 DEF CorpusTypeOK, WatcherEnqueues
  <2>2. at \in 1..Len(registrations) /\ Here.source \in AllSources /\ KeyOf(Here) \in AllKeys
    BY <2>1, PollsBound DEF Here
  <2> QED
    BY <1>2, <2>2 DEF WatcherEnqueues
<1> QED
  BY <1>1, <1>2

(* What any step does to the list of jobs: nothing, one new job under a    *)
(* free key, one permitted transition, the links of one job, or the whole  *)
(* list is gone with its file.                                             *)
Links(c) ==
  /\ calls[c].phase = "record"
  /\ jobs' = [jobs EXCEPT ![calls[c].job].review = calls[c].review]

(* A start whose jobs file cannot be loaded.                               *)
FileLost ==
  /\ Restart /\ JobsUnreadable
  /\ lost' = lost \cup {jobs[j].key : j \in Job}

(* Every step does one of these five things.                               *)
LEMMA JobsStep ==
  ASSUME CorpusTypeOK, [WatchersNext]_allVars
  PROVE  \/ jobs' = jobs
         \/ \E s \in AllSources, k \in AllKeys : Enqueue(s, k)
         \/ \E j \in Job, next \in States : Move(j, next)
         \/ \E c \in RunCalls : Links(c)
         \/ FileLost
<1>a. \A c \in RunCalls : calls[c].phase # "idle" => calls[c].job \in Job
  BY DEF CorpusTypeOK, JobsTypeOK
<1>b. "running" \in States /\ "cancelled" \in States
      /\ \A c \in RunCalls : Target(c) \in States
  BY DEF States, Terminal, Target, AfterError
<1>1. CASE JobsNext
  <2>1. CASE \E s \in Sources, k \in Keys \cup {NoKey} : Create(s, k)
    BY <2>1, NewJobs
  <2>2. ASSUME NEW j \in Job, Cancel(j)
        PROVE  Move(j, "cancelled")
    BY <2>2 DEF Cancel
  <2>3. ASSUME NEW c \in RunCalls, NEW j \in Job, RunReads(c, j)
        PROVE  jobs' = jobs
    BY <2>3 DEF RunReads
  <2>4. ASSUME NEW c \in RunCalls, RunStarts(c) \/ RunEnds(c)
        PROVE  calls[c].job \in Job /\ \E next \in States : Move(calls[c].job, next)
    BY <2>4, <1>a, <1>b DEF RunStarts, RunEnds
  <2>5. ASSUME NEW c \in RunCalls, RecordLinks(c)
        PROVE  Links(c)
    BY <2>5 DEF RecordLinks, Links
  <2>6. ASSUME NEW c \in RunCalls,
               \/ Stage(c) \/ HoldReview(c) \/ Resolve(c) \/ WorkFails(c)
               \/ ResolveFails(c) \/ RunConflicts(c) \/ RunDropped(c)
        PROVE  jobs' = jobs
    BY <2>6 DEF Stage, HoldReview, Resolve, WorkFails, ResolveFails, RunConflicts, RunDropped
  <2> QED
    BY <1>1, <1>b, <2>1, <2>2, <2>3, <2>4, <2>5, <2>6 DEF JobsNext, RunStep
<1>2. CASE SchedulerStep \/ Restart
  <2>1. CASE WatcherEnqueues
    BY <2>1, NewJobs
  <2>2. CASE TickStarts \/ Skip \/ Count \/ WatcherReuses
    BY <2>2 DEF TickStarts, Skip, Count, WatcherReuses, jobVars
  <2>3. CASE EnqueueRejected \/ SaveCursors \/ Restart
    BY <2>3 DEF EnqueueRejected, SaveCursors, Restart, JobsRestart, FileLost
  <2> QED
    BY <1>2, <2>1, <2>2, <2>3 DEF SchedulerStep
<1>3. CASE UNCHANGED allVars
  BY <1>3 DEF allVars, jobVars
<1> QED
  BY <1>1, <1>2, <1>3 DEF WatchersNext

(* The links name the review of the run call and change nothing else of    *)
(* the job.                                                                *)
LEMMA LinksEffect ==
  ASSUME CorpusTypeOK, NEW c \in RunCalls, Links(c)
  PROVE  /\ calls[c].job \in Job /\ Job' = Job
         /\ \A i \in Job : jobs'[i] = IF i = calls[c].job
              THEN [jobs[i] EXCEPT !.review = calls[c].review] ELSE jobs[i]
<1> DEFINE j == calls[c].job
           t == [jobs[j] EXCEPT !.review = calls[c].review]
<1>1. j \in Job /\ jobs[j] \in TheJobs /\ calls[c].review \in Nat
  BY TypeFacts DEF Links, CorpusTypeOK, JobsTypeOK, CallRecords
<1>2. jobs' = [jobs EXCEPT ![j] = t]
  BY DEF Links
<1>3. t \in TheJobs
  <2> DEFINE r == calls[c].review
  <2>1. r \in Nat
    BY <1>1
  <2> HIDE DEF r
  <2>2. [jobs[j] EXCEPT !.review = r] \in TheJobs
    BY <1>1, <2>1 DEF TheJobs, JobRecords
  <2> QED
    BY <2>2 DEF r
<1> HIDE DEF t
<1>4. /\ jobs' \in Seq(TheJobs) /\ Len(jobs') = Len(jobs)
      /\ \A i \in Job : jobs'[i] = IF i = j THEN t ELSE jobs[i]
  BY <1>1, <1>2, <1>3, TypeFacts, ExceptSeq
<1>5. Job' = Job
  BY <1>4, TypeFacts DEF Job
<1> QED
  BY <1>1, <1>4, <1>5 DEF t

(* After a start with an unreadable file there is no job and no run call.  *)
LEMMA NoJobs ==
  ASSUME FileLost
  PROVE  Job' = {} /\ \A c \in RunCalls : calls'[c].phase = "idle"
BY DEF FileLost, JobsUnreadable, Job, Idle

(* No step takes a job of a readable list away or changes its key, and a   *)
(* new job's key was free.                                                 *)
LEMMA KeysStay ==
  ASSUME CorpusTypeOK, [WatchersNext]_allVars, ~FileLost
  PROVE  /\ Job \subseteq Job'
         /\ \A i \in Job : jobs'[i].key = jobs[i].key
         /\ \A i \in Job' \ Job : /\ Job' = Job \cup {i}
                                  /\ Holders(jobs'[i].key) = {}
                                  /\ jobs'[i].state = "queued"
                                  /\ jobs'[i].attempts = 0 /\ jobs'[i].retries = 0
                                  /\ jobs'[i].review = 0
<1>1. CASE jobs' = jobs
  BY <1>1 DEF Job
<1>2. CASE \E s \in AllSources, k \in AllKeys : Enqueue(s, k)
  <2>1. PICK s \in AllSources, k \in AllKeys : Enqueue(s, k)
    BY <1>2
  <2>2. /\ Job' = Job \cup {Len(jobs) + 1}
        /\ \A i \in Job : jobs'[i] = jobs[i]
        /\ jobs'[Len(jobs) + 1] = NewJob(s, k)
    BY <2>1, EnqueueEffect
  <2>3. /\ NewJob(s, k).key = k /\ NewJob(s, k).state = "queued"
        /\ NewJob(s, k).attempts = 0 /\ NewJob(s, k).retries = 0
        /\ NewJob(s, k).review = 0 /\ Holders(k) = {}
    BY <2>1 DEF NewJob, Enqueue
  <2> QED
    BY <2>2, <2>3
<1>3. CASE \E j \in Job, next \in States : Move(j, next)
  <2>1. PICK j \in Job, next \in States : Move(j, next)
    BY <1>3
  <2>2. /\ Job' = Job
        /\ \A i \in Job : jobs'[i] = IF i = j THEN Moved(jobs[j], next) ELSE jobs[i]
    BY <2>1, MoveEffect
  <2>3. Moved(jobs[j], next).key = jobs[j].key
    BY TypeFacts DEF Moved, TheJobs, JobRecords
  <2> QED
    BY <2>2, <2>3
<1>4. CASE \E c \in RunCalls : Links(c)
  <2>1. PICK c \in RunCalls : Links(c)
    BY <1>4
  <2>2. /\ calls[c].job \in Job /\ Job' = Job
        /\ \A i \in Job : jobs'[i] = IF i = calls[c].job
             THEN [jobs[i] EXCEPT !.review = calls[c].review] ELSE jobs[i]
    BY <2>1, LinksEffect
  <2>3. \A i \in Job : [jobs[i] EXCEPT !.review = calls[c].review].key = jobs[i].key
    BY TypeFacts DEF TheJobs, JobRecords
  <2> QED
    BY <2>2, <2>3
<1> QED
  BY <1>1, <1>2, <1>3, <1>4, JobsStep

(* No key ever stands for two jobs: an enqueue under a key is refused when *)
(* any job, finished or not, has it.                                       *)
THEOREM CorpusOneJobPerKey == WatchersSpec => []OneJobPerKey
<1>1. WatchersInit => OneJobPerKey
  BY DEF WatchersInit, JobsInit, OneJobPerKey, Job
<1>2. CorpusTypeOK /\ OneJobPerKey /\ [WatchersNext]_allVars => OneJobPerKey'
  <2> SUFFICES ASSUME CorpusTypeOK, OneJobPerKey, [WatchersNext]_allVars,
                      NEW i \in Job', NEW j \in Job', i # j, jobs'[i].key = jobs'[j].key
               PROVE  jobs'[i].key = NoKey
    BY DEF OneJobPerKey
  <2>a. ~FileLost
    BY NoJobs
  <2>1. /\ Job \subseteq Job'
        /\ \A n \in Job : jobs'[n].key = jobs[n].key
        /\ \A n \in Job' \ Job : Job' = Job \cup {n} /\ Holders(jobs'[n].key) = {}
    BY <2>a, KeysStay
  <2>2. CASE i \in Job /\ j \in Job
    BY <2>1, <2>2 DEF OneJobPerKey
  <2>3. CASE i \notin Job \/ j \notin Job
    <3>1. \/ i \in Job /\ Holders(jobs'[j].key) = {}
          \/ j \in Job /\ Holders(jobs'[i].key) = {}
      BY <2>1, <2>3
    <3> QED
      BY <2>1, <3>1 DEF Holders
  <2> QED
    BY <2>2, <2>3
<1> QED
  BY <1>1, <1>2, CorpusTypeCorrect, PTL DEF WatchersSpec

----------------------------------------------------------------------------
(* Attempts and retries of one job.                                        *)
Counted(t) ==
  CASE t.state = "queued" -> t.attempts = t.retries
    [] t.state = "cancelled" -> t.attempts - t.retries \in {0, 1}
    [] OTHER -> t.attempts = t.retries + 1

(* The fields of a job after a transition.                                 *)
LEMMA MovedFields ==
  ASSUME NEW t \in TheJobs, NEW next \in States
  PROVE  /\ t.state \in States /\ t.attempts \in Nat /\ t.retries \in Nat
         /\ Moved(t, next).state = next
         /\ Moved(t, next).attempts = IF next = "running" THEN t.attempts + 1 ELSE t.attempts
         /\ Moved(t, next).retries = IF next = "queued" THEN t.retries + 1 ELSE t.retries
         /\ Moved(t, next).review = t.review
<1> DEFINE a == IF next = "running" THEN t.attempts + 1 ELSE t.attempts
           r == IF next = "queued" THEN t.retries + 1 ELSE t.retries
<1>1. Moved(t, next) = [t EXCEPT !.state = next, !.attempts = a, !.retries = r]
  BY DEF Moved
<1>2. t.state \in States /\ t.attempts \in Nat /\ t.retries \in Nat
  BY DEF TheJobs, JobRecords
<1> HIDE DEF a, r
<1>3. /\ [t EXCEPT !.state = next, !.attempts = a, !.retries = r].state = next
      /\ [t EXCEPT !.state = next, !.attempts = a, !.retries = r].attempts = a
      /\ [t EXCEPT !.state = next, !.attempts = a, !.retries = r].retries = r
      /\ [t EXCEPT !.state = next, !.attempts = a, !.retries = r].review = t.review
  BY DEF TheJobs, JobRecords
<1> QED
  BY <1>1, <1>2, <1>3 DEF a, r

(* A permitted transition keeps the two counters of a job in step.         *)
LEMMA MovedCounts ==
  ASSUME NEW t \in TheJobs, NEW next \in States, Counted(t), Permits(t.state, next)
  PROVE  Counted(Moved(t, next))
<1> DEFINE m == Moved(t, next)
<1>1. /\ t.state \in States /\ t.attempts \in Nat /\ t.retries \in Nat
      /\ m.state = next
      /\ m.attempts = IF next = "running" THEN t.attempts + 1 ELSE t.attempts
      /\ m.retries = IF next = "queued" THEN t.retries + 1 ELSE t.retries
  BY MovedFields
<1> HIDE DEF m
<1>2. CASE t.state = "queued"
  <2>1. next \in {"running", "cancelled"} /\ t.attempts = t.retries
    BY <1>2 DEF Permits, Counted, Terminal
  <2> QED
    BY <1>1, <2>1 DEF Counted, m
<1>3. CASE t.state \in {"running", "awaiting_review"}
  <2>1. next # "running" /\ t.attempts = t.retries + 1
    BY <1>3 DEF Permits, Counted, Terminal
  <2> QED
    BY <1>1, <2>1 DEF Counted, m
<1> QED
  BY <1>2, <1>3 DEF Permits

(* Every attempt but the last has ended in one counted retry, however runs *)
(* overlap: the two counters move with the state, under one lock.          *)
THEOREM CorpusAttemptsAreCounted == WatchersSpec => []AttemptsAreCounted
<1>a. AttemptsAreCounted <=> \A j \in Job : Counted(jobs[j])
  BY DEF AttemptsAreCounted, Counted
<1>1. WatchersInit => AttemptsAreCounted
  BY DEF WatchersInit, JobsInit, AttemptsAreCounted, Job
<1>2. CorpusTypeOK /\ AttemptsAreCounted /\ [WatchersNext]_allVars => AttemptsAreCounted'
  <2> SUFFICES ASSUME CorpusTypeOK, AttemptsAreCounted, [WatchersNext]_allVars
               PROVE  \A j \in Job' : Counted(jobs'[j])
    BY DEF AttemptsAreCounted, Counted
  <2>1. \A j \in Job : jobs[j] \in TheJobs /\ Counted(jobs[j])
    BY <1>a, TypeFacts
  <2>2. CASE jobs' = jobs
    BY <2>1, <2>2 DEF Job
  <2>3. CASE \E s \in AllSources, k \in AllKeys : Enqueue(s, k)
    <3>1. PICK s \in AllSources, k \in AllKeys : Enqueue(s, k)
      BY <2>3
    <3>2. /\ Job' = Job \cup {Len(jobs) + 1}
          /\ \A i \in Job : jobs'[i] = jobs[i]
          /\ jobs'[Len(jobs) + 1] = NewJob(s, k)
      BY <3>1, EnqueueEffect
    <3>3. Counted(NewJob(s, k))
      BY DEF Counted, NewJob
    <3> QED
      BY <2>1, <3>2, <3>3
  <2>4. CASE \E j \in Job, next \in States : Move(j, next)
    <3>1. PICK j \in Job, next \in States : Move(j, next)
      BY <2>4
    <3>2. /\ Job' = Job /\ Permits(jobs[j].state, next)
          /\ \A i \in Job : jobs'[i] = IF i = j THEN Moved(jobs[j], next) ELSE jobs[i]
      BY <3>1, MoveEffect
    <3>3. Counted(Moved(jobs[j], next))
      BY <2>1, <3>2, MovedCounts
    <3> QED
      BY <2>1, <3>2, <3>3
  <2>5. CASE \E c \in RunCalls : Links(c)
    <3>1. PICK c \in RunCalls : Links(c)
      BY <2>5
    <3>2. /\ calls[c].job \in Job /\ Job' = Job
          /\ \A i \in Job : jobs'[i] = IF i = calls[c].job
               THEN [jobs[i] EXCEPT !.review = calls[c].review] ELSE jobs[i]
      BY <3>1, LinksEffect
    <3>3. ASSUME NEW i \in Job
          PROVE  Counted([jobs[i] EXCEPT !.review = calls[c].review])
      <4> DEFINE t == [jobs[i] EXCEPT !.review = calls[c].review]
      <4>1. /\ t.state = jobs[i].state /\ t.attempts = jobs[i].attempts
            /\ t.retries = jobs[i].retries
        BY <2>1 DEF TheJobs, JobRecords
      <4>2. Counted(jobs[i])
        BY <2>1
      <4> HIDE DEF t
      <4>3. Counted(t)
        BY <4>1, <4>2 DEF Counted
      <4> QED
        BY <4>3 DEF t
    <3> QED
      BY <2>1, <3>2, <3>3
  <2>6. CASE FileLost
    BY <2>6, NoJobs
  <2> QED
    BY <2>2, <2>3, <2>4, <2>5, <2>6, JobsStep
<1> QED
  BY <1>1, <1>2, CorpusTypeCorrect, PTL DEF WatchersSpec

----------------------------------------------------------------------------
(* The tick saves a cursor only where it has seen the job of its key.      *)
(* Kept(v): the job of version v is listed, or was lost with its file.     *)
Kept(v) == Listed(v) \/ VersionKey(v) \in lost
HereHasJob == step = "save" => Kept(Here.source.version)

(* A cursor never runs ahead of its job, in the file or in a tick, unless  *)
(* the file of the job could not be loaded; for that the tick must not     *)
(* come to its save without the job.                                       *)
THEOREM CorpusCursorsHaveJobs == WatchersSpec => []CursorsHaveJobs
<1>a. CursorsHaveJobs <=> \A x \in cursors \cup seen : Kept(x[2])
  BY DEF CursorsHaveJobs, Kept
<1>b. \A r : KeyOf(r) = VersionKey(r.source.version) /\ Cursor(r)[2] = r.source.version
  BY DEF KeyOf, VersionKey, Cursor
<1>1. WatchersInit => CursorsHaveJobs /\ HereHasJob
  BY DEF WatchersInit, CursorsHaveJobs, HereHasJob
<1>2. CorpusTypeOK /\ CursorsHaveJobs /\ HereHasJob /\ [WatchersNext]_allVars
        => CursorsHaveJobs' /\ HereHasJob'
  <2> SUFFICES ASSUME CorpusTypeOK, CursorsHaveJobs, HereHasJob, [WatchersNext]_allVars
               PROVE  (\A x \in cursors' \cup seen' : Kept(x[2])') /\ HereHasJob'
    BY DEF CursorsHaveJobs, Kept
  <2>a. lost \subseteq lost'
    BY DEF WatchersNext, SchedulerStep, TickStarts, Skip, Count, WatcherEnqueues,
           WatcherReuses, EnqueueRejected, SaveCursors, Restart, allVars, watcherVars
  <2>b. ASSUME NEW v, Kept(v)
        PROVE  Kept(v)'
    <3>1. CASE VersionKey(v) \in lost
      BY <2>a, <3>1 DEF Kept, VersionKey
    <3>2. CASE Listed(v)
      <4>1. PICK j \in Job : jobs[j].key = VersionKey(v)
        BY <3>2 DEF Listed
      <4>2. FileLost => VersionKey(v) \in lost'
        BY <4>1 DEF FileLost
      <4>3. ~FileLost => j \in Job' /\ jobs'[j].key = VersionKey(v)
        BY <4>1, KeysStay
      <4> QED
        BY <4>2, <4>3 DEF Kept, Listed, VersionKey
    <3> QED
      BY <2>b, <3>1, <3>2 DEF Kept
  <2>1. cursors' \cup seen' \subseteq cursors \cup seen
          => \A x \in cursors' \cup seen' : Kept(x[2])'
    BY <1>a, <2>b
  <2>2. step' # "save" => HereHasJob'
    BY DEF HereHasJob
  <2>c. UNCHANGED <<registrations, at>> => Here' = Here
    BY DEF Here
  <2>3. CASE UNCHANGED watcherVars
    <3>1. UNCHANGED <<cursors, seen, step>> /\ Here' = Here
      BY <2>3, <2>c DEF watcherVars
    <3>2. HereHasJob'
      BY <2>b, <3>1 DEF HereHasJob, Kept, Listed, VersionKey
    <3> QED
      BY <2>1, <3>1, <3>2
  <2>4. CASE TickStarts \/ Skip \/ Count \/ EnqueueRejected \/ Restart
    <3>1. cursors' \cup seen' \subseteq cursors \cup seen
      BY <2>4 DEF TickStarts, Skip, Count, EnqueueRejected, Restart
    <3>2. step' # "save"
      BY <2>4 DEF TickStarts, Skip, Count, EnqueueRejected, Restart, Advance, Rejected
    <3> QED
      BY <2>1, <2>2, <3>1, <3>2
  <2>5. CASE WatcherEnqueues
    <3>1. cursors' \cup seen' \subseteq cursors \cup seen /\ Here' = Here
      BY <2>5, <2>c DEF WatcherEnqueues
    <3>2. registrations \in Configs /\ at \in 0..Polls(registrations) /\ at # 0
      BY <2>5 DEF CorpusTypeOK, WatcherEnqueues
    <3>3. at \in 1..Len(registrations) /\ Here.source \in AllSources /\ KeyOf(Here) \in AllKeys
      BY <3>2, PollsBound DEF Here
    <3>4. /\ Len(jobs) + 1 \in Job'
          /\ jobs'[Len(jobs) + 1] = NewJob(Here.source, KeyOf(Here))
      BY <2>5, <3>3, EnqueueEffect DEF WatcherEnqueues
    <3>5. jobs'[Len(jobs) + 1].key = VersionKey(Here.source.version)
      BY <1>b, <3>4 DEF NewJob
    <3>6. HereHasJob'
      BY <3>1, <3>4, <3>5 DEF HereHasJob, Kept, Listed, VersionKey
    <3> QED
      BY <2>1, <3>1, <3>6
  <2>6. CASE WatcherReuses
    <3>1. cursors' \cup seen' \subseteq cursors \cup seen /\ Here' = Here
      BY <2>6, <2>c DEF WatcherReuses
    <3>2. Kept(Here.source.version)
      BY <1>b, <2>6 DEF WatcherReuses, Accepted, Holders, Kept, Listed
    <3>3. HereHasJob'
      BY <2>b, <3>1, <3>2 DEF HereHasJob, Kept, Listed, VersionKey
    <3> QED
      BY <2>1, <3>1, <3>3
  <2>7. CASE SaveCursors
    <3>1. /\ seen' = seen \cup {Cursor(Here)} /\ cursors' \subseteq cursors \cup seen'
          /\ step = "save" /\ step' = "check"
      BY <2>7 DEF SaveCursors, Advance
    <3>2. Kept(Cursor(Here)[2])
      BY <1>b, <3>1 DEF HereHasJob
    <3>3. \A x \in cursors' \cup seen' : Kept(x[2])
      BY <1>a, <3>1, <3>2
    <3> QED
      BY <2>2, <2>b, <3>1, <3>3
  <2> QED
    BY <2>3, <2>4, <2>5, <2>6, <2>7 DEF WatchersNext, SchedulerStep, allVars, watcherVars
<1> QED
  BY <1>1, <1>2, CorpusTypeCorrect, PTL DEF WatchersSpec

----------------------------------------------------------------------------
(* The work of a run call leaves its job and its state alone.              *)
LEMMA WorkEffect ==
  ASSUME CorpusTypeOK, NEW c \in RunCalls,
         Stage(c) \/ HoldReview(c) \/ Resolve(c) \/ WorkFails(c) \/ ResolveFails(c)
  PROVE  /\ UNCHANGED <<jobs, abandoned, disturbances>> /\ Job' = Job
         /\ calls[c].phase \in {"stage", "hold", "resolve"}
         /\ calls'[c].phase \in Phases \ {"idle", "start", "stage"}
         /\ calls'[c].job = calls[c].job /\ calls'[c].mayRetry = calls[c].mayRetry
         /\ \A d \in RunCalls \ {c} : calls'[d] = calls[d]
<1>1. UNCHANGED <<jobs, abandoned, disturbances>> /\ Job' = Job
  BY DEF Stage, HoldReview, Resolve, WorkFails, ResolveFails, Job
<1>2. calls[c].phase \in {"stage", "hold", "resolve"}
  BY DEF Stage, HoldReview, Resolve, WorkFails, ResolveFails
<1>3. calls \in [RunCalls -> CallRecords] /\ calls[c] \in CallRecords
  BY DEF CorpusTypeOK, JobsTypeOK
<1>4. CASE Resolve(c) \/ WorkFails(c) \/ ResolveFails(c)
  <2>1. \E p \in {"record", "rejected", "interrupted"} : Goto(c, p)
    BY <1>4 DEF Resolve, WorkFails, ResolveFails
  <2>2. {"record", "rejected", "interrupted"} \subseteq Phases \ {"idle", "start", "stage"}
    BY DEF Phases
  <2> QED
    BY <1>1, <1>2, <2>1, <2>2, CallEffect
<1>5. CASE Stage(c) \/ HoldReview(c)
  <2>1. \E p \in {"hold", "resolve"} : \E r :
          calls' = [calls EXCEPT ![c].phase = p, ![c].review = r]
    BY <1>5 DEF Stage, HoldReview
  <2>2. PICK p \in {"hold", "resolve"} : \E r :
          calls' = [calls EXCEPT ![c] = [@ EXCEPT !.phase = p, !.review = r]]
    BY <2>1
  <2>3. PICK r : calls' = [calls EXCEPT ![c] = [@ EXCEPT !.phase = p, !.review = r]]
    BY <2>2
  <2>4. {"hold", "resolve"} \subseteq Phases \ {"idle", "start", "stage"}
    BY DEF Phases
  <2>5. /\ [calls[c] EXCEPT !.phase = p, !.review = r].phase = p
        /\ [calls[c] EXCEPT !.phase = p, !.review = r].job = calls[c].job
        /\ [calls[c] EXCEPT !.phase = p, !.review = r].mayRetry = calls[c].mayRetry
    BY <1>3 DEF CallRecords
  <2> QED
    BY <1>1, <1>2, <1>3, <2>3, <2>4, <2>5
<1> QED
  BY <1>4, <1>5

(* The read that begins a run call.                                        *)
LEMMA ReadEffect ==
  ASSUME CorpusTypeOK, NEW c \in RunCalls, NEW j \in Job, RunReads(c, j)
  PROVE  /\ UNCHANGED <<jobs, kg, abandoned>> /\ Job' = Job
         /\ calls[c].phase = "idle" /\ jobs[j].state \in {"queued", "running"}
         /\ calls'[c].phase = IF jobs[j].state = "queued" THEN "start" ELSE "stage"
         /\ calls'[c].job = j /\ calls'[c].mayRetry = MayRetry(jobs[j])
         /\ \A d \in RunCalls \ {c} : calls'[d] = calls[d]
  BY DEF RunReads, Job, CorpusTypeOK, JobsTypeOK

(* The end of a run moves its job where the run's outcome says.            *)
LEMMA EndEffect ==
  ASSUME CorpusTypeOK, NEW c \in RunCalls, RunEnds(c)
  PROVE  /\ calls[c].phase \in {"await", "rejected", "interrupted"}
         /\ calls[c].job \in Job /\ Move(calls[c].job, Target(c))
         /\ Target(c) \in {"awaiting_review", "queued", "failed"}
         /\ Target(c) \in States
         /\ Target(c) = "awaiting_review" => calls[c].phase = "await"
         /\ Target(c) = "queued" => calls[c].mayRetry
         /\ calls'[c].phase = "idle"
         /\ \A d \in RunCalls \ {c} : calls'[d] = calls[d]
<1>1. calls[c].phase \in {"await", "rejected", "interrupted"}
  BY DEF RunEnds
<1>2. calls[c].job \in Job
  BY <1>1 DEF CorpusTypeOK, JobsTypeOK
<1>3. /\ Target(c) \in {"awaiting_review", "queued", "failed"}
      /\ Target(c) = "awaiting_review" => calls[c].phase = "await"
      /\ Target(c) = "queued" => calls[c].mayRetry
  BY <1>1 DEF Target, AfterError
<1>4. Return(c) /\ Move(calls[c].job, Target(c))
  BY DEF RunEnds
<1> QED
  BY <1>1, <1>2, <1>3, <1>4, CallEffect DEF States, Terminal

(* The start of a run takes a queued job to running.                       *)
LEMMA StartEffect ==
  ASSUME CorpusTypeOK, NEW c \in RunCalls, RunStarts(c)
  PROVE  /\ calls[c].phase = "start" /\ calls[c].job \in Job
         /\ Move(calls[c].job, "running") /\ "running" \in States
         /\ calls'[c].phase = "stage" /\ calls'[c].job = calls[c].job
         /\ calls'[c].mayRetry = calls[c].mayRetry
         /\ \A d \in RunCalls \ {c} : calls'[d] = calls[d]
<1>1. /\ calls[c].phase = "start" /\ Goto(c, "stage")
      /\ Move(calls[c].job, "running")
  BY DEF RunStarts
<1>2. "stage" \in Phases /\ "running" \in States
  BY DEF Phases, States
<1> QED
  BY <1>1, <1>2, CallEffect DEF CorpusTypeOK, JobsTypeOK

(* The links are written with the review of the run call.                  *)
LEMMA RecordEffect ==
  ASSUME CorpusTypeOK, NEW c \in RunCalls, RecordLinks(c)
  PROVE  /\ calls[c].phase = "record" /\ Links(c) /\ UNCHANGED <<kg, abandoned>>
         /\ calls'[c].phase = "await" /\ calls'[c].job = calls[c].job
         /\ calls'[c].review = calls[c].review /\ calls'[c].mayRetry = calls[c].mayRetry
         /\ \A d \in RunCalls \ {c} : calls'[d] = calls[d]
<1>1. /\ calls[c].phase = "record" /\ Links(c) /\ UNCHANGED <<kg, abandoned>>
      /\ Goto(c, "await")
  BY DEF RecordLinks, Links
<1>2. "await" \in Phases
  BY DEF Phases
<1> QED
  BY <1>1, <1>2, CallEffect

(* A conflict, or a call that is cut off, changes no job.                  *)
LEMMA ReturnEffect ==
  ASSUME CorpusTypeOK, NEW c \in RunCalls, RunConflicts(c) \/ RunDropped(c)
  PROVE  /\ UNCHANGED <<jobs, kg>> /\ Job' = Job /\ calls[c].phase # "idle"
         /\ calls'[c].phase = "idle"
         /\ \A d \in RunCalls \ {c} : calls'[d] = calls[d]
<1>1. UNCHANGED <<jobs, kg>> /\ Return(c) /\ calls[c].phase # "idle" /\ Job' = Job
  BY DEF RunConflicts, RunDropped, Job
<1> QED
  BY <1>1, CallEffect

(* No order of overlapping runs, conflicts, cancels, restarts and watchers *)
(* leaves a job running with nobody to finish it, unless a run of it was   *)
(* cut off: what a run would do to a running job is always permitted.      *)
THEOREM CorpusRunningHasARunner == WatchersSpec => []RunningHasARunner
<1>1. WatchersInit => RunningHasARunner
  BY DEF WatchersInit, JobsInit, RunningHasARunner, Job
<1>2. CorpusTypeOK /\ RunningHasARunner /\ [WatchersNext]_allVars => RunningHasARunner'
  <2> SUFFICES ASSUME CorpusTypeOK, RunningHasARunner, [WatchersNext]_allVars,
                      NEW j \in Job', jobs'[j].state = "running"
               PROVE  j \in abandoned' \/ \E c \in RunCalls : Runs(c, j)'
    BY DEF RunningHasARunner
  <2>1. CASE UNCHANGED <<jobs, calls, abandoned>>
    BY <2>1 DEF RunningHasARunner, Runs, Job
  <2>2. CASE \E s \in AllSources, k \in AllKeys : Enqueue(s, k)
    <3>1. PICK s \in AllSources, k \in AllKeys : Enqueue(s, k)
      BY <2>2
    <3>2. /\ Job' = Job \cup {Len(jobs) + 1}
          /\ \A i \in Job : jobs'[i] = jobs[i]
          /\ jobs'[Len(jobs) + 1].state = "queued"
      <4>1. /\ Job' = Job \cup {Len(jobs) + 1}
            /\ \A i \in Job : jobs'[i] = jobs[i]
            /\ jobs'[Len(jobs) + 1] = NewJob(s, k)
        BY <3>1, EnqueueEffect
      <4>2. NewJob(s, k).state = "queued"
        BY DEF NewJob
      <4> QED
        BY <4>1, <4>2
    <3>3. j \in Job /\ jobs[j].state = "running" /\ UNCHANGED <<calls, abandoned>>
      BY <3>1, <3>2 DEF Enqueue
    <3> QED
      BY <3>3 DEF RunningHasARunner, Runs
  <2>a. ASSUME NEW i \in Job, NEW next \in States, Move(i, next)
        PROVE  /\ j \in Job /\ abandoned' = abandoned \ {i}
               /\ j # i => jobs[j].state = "running"
               /\ j = i => next = "running"
    <3>1. /\ Job' = Job /\ abandoned' = abandoned \ {i}
          /\ \A n \in Job : jobs'[n] = IF n = i THEN Moved(jobs[i], next) ELSE jobs[n]
      BY <2>a, MoveEffect
    <3>2. Moved(jobs[i], next).state = next
      BY TypeFacts, MovedFields
    <3> QED
      BY <3>1, <3>2
  <2>3. CASE \E i \in Job : Cancel(i)
    <3>1. PICK i \in Job : Move(i, "cancelled") /\ calls' = calls
      BY <2>3 DEF Cancel
    <3>2. "cancelled" \in States /\ "cancelled" # "running"
      BY DEF States, Terminal
    <3> QED
      BY <2>a, <3>1, <3>2 DEF RunningHasARunner, Runs
  <2>4. ASSUME NEW c \in RunCalls, NEW i \in Job, RunReads(c, i)
        PROVE  j \in abandoned' \/ \E d \in RunCalls : Runs(d, j)'
    <3>1. /\ j \in Job /\ jobs[j].state = "running" /\ abandoned' = abandoned
          /\ calls[c].phase = "idle"
          /\ \A d \in RunCalls \ {c} : calls'[d] = calls[d]
      BY <2>4, ReadEffect
    <3> QED
      BY <3>1 DEF RunningHasARunner, Runs
  <2>5. ASSUME NEW c \in RunCalls, RunStarts(c)
        PROVE  j \in abandoned' \/ \E d \in RunCalls : Runs(d, j)'
    <3>1. /\ calls[c].phase = "start" /\ calls[c].job \in Job
          /\ Move(calls[c].job, "running") /\ "running" \in States
          /\ calls'[c].phase = "stage" /\ calls'[c].job = calls[c].job
          /\ \A d \in RunCalls \ {c} : calls'[d] = calls[d]
      BY <2>5, StartEffect
    <3>2. CASE j = calls[c].job
      BY <3>1, <3>2 DEF Runs
    <3>3. CASE j # calls[c].job
      BY <2>a, <3>1, <3>3 DEF RunningHasARunner, Runs
    <3> QED
      BY <3>2, <3>3
  <2>6. ASSUME NEW c \in RunCalls,
               Stage(c) \/ HoldReview(c) \/ Resolve(c) \/ WorkFails(c) \/ ResolveFails(c)
        PROVE  j \in abandoned' \/ \E d \in RunCalls : Runs(d, j)'
    <3>1. /\ j \in Job /\ jobs[j].state = "running" /\ abandoned' = abandoned
          /\ calls'[c].phase \notin {"idle", "start"} /\ calls'[c].job = calls[c].job
          /\ \A d \in RunCalls \ {c} : calls'[d] = calls[d]
      BY <2>6, WorkEffect
    <3> QED
      BY <3>1 DEF RunningHasARunner, Runs
  <2>7. ASSUME NEW c \in RunCalls, RecordLinks(c)
        PROVE  j \in abandoned' \/ \E d \in RunCalls : Runs(d, j)'
    <3>1. /\ Links(c) /\ abandoned' = abandoned
          /\ calls'[c].phase = "await" /\ calls'[c].job = calls[c].job
          /\ \A d \in RunCalls \ {c} : calls'[d] = calls[d]
      BY <2>7, RecordEffect
    <3>2. /\ Job' = Job
          /\ \A i \in Job : jobs'[i] = IF i = calls[c].job
               THEN [jobs[i] EXCEPT !.review = calls[c].review] ELSE jobs[i]
      BY <3>1, LinksEffect
    <3>3. \A i \in Job : [jobs[i] EXCEPT !.review = calls[c].review].state = jobs[i].state
      BY TypeFacts DEF TheJobs, JobRecords
    <3>4. j \in Job /\ jobs[j].state = "running"
      BY <3>2, <3>3
    <3> QED
      BY <3>1, <3>4 DEF RunningHasARunner, Runs
  <2>8. ASSUME NEW c \in RunCalls, RunEnds(c)
        PROVE  j \in abandoned' \/ \E d \in RunCalls : Runs(d, j)'
    <3>1. /\ calls[c].job \in Job /\ Move(calls[c].job, Target(c))
          /\ Target(c) \in States /\ Target(c) # "running"
          /\ \A d \in RunCalls \ {c} : calls'[d] = calls[d]
      BY <2>8, EndEffect
    <3>2. /\ j # calls[c].job /\ j \in Job /\ jobs[j].state = "running"
          /\ abandoned' = abandoned \ {calls[c].job}
      BY <2>a, <3>1
    <3> QED
      BY <3>1, <3>2 DEF RunningHasARunner, Runs
  <2>9. ASSUME NEW c \in RunCalls, RunConflicts(c)
        PROVE  j \in abandoned' \/ \E d \in RunCalls : Runs(d, j)'
    <3>1. /\ j \in Job /\ jobs[j].state = "running" /\ abandoned' = abandoned
          /\ \A d \in RunCalls \ {c} : calls'[d] = calls[d]
      BY <2>9, ReturnEffect DEF RunConflicts
    <3>2. ~Runs(c, j)
      <4>1. /\ calls[c].phase \in {"start", "await", "rejected", "interrupted"}
            /\ ~Permits(jobs[calls[c].job].state, Target(c))
        BY <2>9 DEF RunConflicts
      <4>2. calls[c].phase # "start" => Permits("running", Target(c))
        BY <4>1 DEF Target, AfterError, Permits, Terminal
      <4> QED
        BY <3>1, <4>1, <4>2 DEF Runs
    <3> QED
      BY <3>1, <3>2 DEF RunningHasARunner, Runs
  <2>10. ASSUME NEW c \in RunCalls, RunDropped(c)
         PROVE  j \in abandoned' \/ \E d \in RunCalls : Runs(d, j)'
    <3>1. /\ j \in Job /\ jobs[j].state = "running"
          /\ abandoned' = abandoned \cup LosesRunner(c)
          /\ \A d \in RunCalls \ {c} : calls'[d] = calls[d]
      BY <2>10, ReturnEffect DEF RunDropped
    <3>2. Runs(c, j) => j \in LosesRunner(c)
      BY <3>1 DEF Runs, LosesRunner
    <3> QED
      BY <3>1, <3>2 DEF RunningHasARunner, Runs
  <2>11. CASE Restart
    BY <2>11 DEF Restart, JobsRestart, JobsUnreadable, Job
  <2>12. CASE SchedulerStep
    <3>1. CASE WatcherEnqueues
      BY <2>2, <3>1, NewJobs
    <3>2. CASE TickStarts \/ Skip \/ Count \/ WatcherReuses \/ EnqueueRejected \/ SaveCursors
      BY <2>1, <3>2 DEF TickStarts, Skip, Count, WatcherReuses, EnqueueRejected,
                        SaveCursors, jobVars
    <3> QED
      BY <2>12, <3>1, <3>2 DEF SchedulerStep
  <2>13. CASE JobsNext
    <3>1. CASE \E s \in Sources, k \in Keys \cup {NoKey} : Create(s, k)
      BY <2>2, <3>1, NewJobs
    <3> QED
      BY <2>3, <2>4, <2>5, <2>6, <2>7, <2>8, <2>9, <2>10, <2>13, <3>1
         DEF JobsNext, RunStep
  <2> QED
    BY <2>1, <2>11, <2>12, <2>13 DEF WatchersNext, allVars, jobVars
<1> QED
  BY <1>1, <1>2, CorpusTypeCorrect, PTL DEF WatchersSpec

----------------------------------------------------------------------------
(* A job awaits a review that has passed: its links, and the run call that *)
(* is about to write or has written them, name such a review of a job that *)
(* is staged and has its suggestions.                                      *)
Good(j, r) ==
  /\ kg[j].staged = TRUE /\ kg[j].suggested = TRUE
  /\ r \in 1..Len(kg[j].reviews) /\ kg[j].reviews[r] = TRUE

JobReal(j) ==
  /\ jobs[j].review # 0 => Good(j, jobs[j].review)
  /\ jobs[j].state = "awaiting_review" => jobs[j].review # 0

CallReal(c) ==
  /\ calls[c].phase \in {"hold", "resolve"} => kg[calls[c].job].staged = TRUE
  /\ calls[c].phase \in {"record", "await"} => Good(calls[c].job, calls[c].review)
  /\ calls[c].phase = "await" => jobs[calls[c].job].review # 0

ReviewsAreReal ==
  /\ \A j \in Job : JobReal(j)
  /\ \A c \in RunCalls : CallReal(c)

(* Evidence is only ever added to.                                         *)
Grows(i) ==
  /\ kg[i].staged = TRUE => kg'[i].staged = TRUE
  /\ kg[i].suggested = TRUE => kg'[i].suggested = TRUE
  /\ Len(kg[i].reviews) <= Len(kg'[i].reviews)
  /\ \A r \in 1..Len(kg[i].reviews) : kg'[i].reviews[r] = kg[i].reviews[r]

(* A review that has passed stays one, since evidence is only added to.    *)
LEMMA GoodStays ==
  ASSUME CorpusTypeOK, CorpusTypeOK', NEW i \in Job, i \in Job', Grows(i), NEW r, Good(i, r)
  PROVE  Good(i, r)'
<1>1. Len(kg[i].reviews) \in Nat /\ Len(kg'[i].reviews) \in Nat
  <2>1. kg[i] \in Evidence /\ kg'[i] \in Evidence
    <3>1. kg' \in Seq(Evidence) /\ jobs' \in Seq(TheJobs) /\ Len(kg') = Len(jobs')
      BY DEF CorpusTypeOK, JobsTypeOK, TheJobs
    <3>2. i \in 1..Len(kg')
      BY <3>1 DEF Job
    <3> QED
      BY <3>1, <3>2, TypeFacts
  <2> QED
    BY <2>1, EvidenceChange
<1> QED
  BY <1>1 DEF Good, Grows

(* What the work of a run call does to the evidence of its job.            *)
LEMMA WorkEvidence ==
  ASSUME CorpusTypeOK, NEW c \in RunCalls,
         Stage(c) \/ HoldReview(c) \/ Resolve(c) \/ WorkFails(c) \/ ResolveFails(c)
  PROVE  /\ calls[c].job \in Job
         /\ \A i \in Job : Grows(i)
         /\ calls'[c].phase \in {"hold", "resolve"} =>
              \/ calls[c].phase \in {"hold", "resolve"}
              \/ kg'[calls[c].job].staged = TRUE
         /\ calls'[c].phase # "await"
         /\ calls'[c].phase = "record" =>
              /\ calls[c].phase = "resolve" /\ calls'[c].review = calls[c].review
              /\ kg[calls[c].job].reviews[calls[c].review] = TRUE
              /\ kg'[calls[c].job].suggested = TRUE
<1> DEFINE j == calls[c].job
<1>1. /\ calls[c].phase \in {"stage", "hold", "resolve"} /\ j \in Job
      /\ calls[c].phase = "resolve" => calls[c].review \in 1..Len(kg[j].reviews)
  BY WorkEffect DEF CorpusTypeOK, JobsTypeOK
<1>2. kg[j] \in Evidence /\ \A i \in Job : Len(kg[i].reviews) \in Nat
  BY <1>1, TypeFacts
<1>3. calls \in [RunCalls -> CallRecords] /\ calls[c] \in CallRecords
  BY DEF CorpusTypeOK, JobsTypeOK
<1>4. ASSUME NEW e \in Evidence, kg' = [kg EXCEPT ![j] = e],
             e.staged = TRUE \/ e.staged = kg[j].staged,
             e.suggested = TRUE \/ e.suggested = kg[j].suggested,
             Len(kg[j].reviews) <= Len(e.reviews),
             \A r \in 1..Len(kg[j].reviews) : e.reviews[r] = kg[j].reviews[r]
      PROVE  kg'[j] = e /\ \A i \in Job : Grows(i)
  <2>1. \A i \in Job : kg'[i] = IF i = j THEN e ELSE kg[i]
    BY <1>1, <1>4, EvidenceEffect
  <2> QED
    BY <1>1, <1>2, <1>4, <2>1 DEF Grows
<1>5. CASE Stage(c)
  <2> DEFINE e == [kg[j] EXCEPT !.staged = TRUE]
  <2>1. /\ e \in Evidence /\ e.reviews = kg[j].reviews /\ e.staged = TRUE
        /\ e.suggested = kg[j].suggested
    BY <1>2, EvidenceChange DEF Evidence
  <2>2. kg' = [kg EXCEPT ![j] = e]
    BY <1>5 DEF Stage
  <2> HIDE DEF e
  <2>3. Len(kg[j].reviews) <= Len(e.reviews)
    BY <1>1, <1>2, <2>1
  <2>4. kg'[j] = e /\ \A i \in Job : Grows(i)
    BY <1>4, <2>1, <2>2, <2>3
  <2>5. \E p \in {"hold", "resolve"} : \E r :
          calls' = [calls EXCEPT ![c] = [@ EXCEPT !.phase = p, !.review = r]]
    BY <1>5 DEF Stage
  <2>6. calls'[c].phase \in {"hold", "resolve"}
    BY <1>3, <2>5 DEF CallRecords
  <2> QED
    BY <1>1, <2>1, <2>4, <2>6
<1>6. CASE HoldReview(c)
  <2>1. PICK passed \in BOOLEAN :
          kg' = [kg EXCEPT ![j].reviews = Append(@, passed)]
    BY <1>6 DEF HoldReview
  <2> DEFINE v == kg[j]
             e == [v EXCEPT !.reviews = Append(@, passed)]
             n == Len(v.reviews)
  <2>2. kg' = [kg EXCEPT ![j] = e]
    BY <2>1
  <2>3. v \in Evidence
    BY <1>2
  <2>4. e.staged = v.staged /\ e.suggested = v.suggested
    <3> HIDE DEF v
    <3> QED
      BY <2>3 DEF Evidence
  <2>5. e \in Evidence /\ e.reviews = Append(v.reviews, passed) /\ v.reviews \in Seq(BOOLEAN)
    <3> HIDE DEF v
    <3> QED
      BY <2>3, EvidenceChange
  <2> HIDE DEF e, v
  <2>6. /\ Len(e.reviews) = n + 1 /\ n \in Nat
        /\ \A r \in 1..n : e.reviews[r] = v.reviews[r]
    BY <2>5, AppendProperties
  <2>7. n <= Len(e.reviews)
    BY <2>6
  <2>8. kg'[j] = e /\ \A i \in Job : Grows(i)
    BY <1>4, <2>2, <2>4, <2>5, <2>6, <2>7 DEF v
  <2>9. calls[c].phase = "hold" /\ calls' = [calls EXCEPT ![c] =
          [@ EXCEPT !.phase = "resolve", !.review = Len(kg[j].reviews) + 1]]
    BY <1>6 DEF HoldReview
  <2>10. calls'[c].phase = "resolve"
    BY <1>3, <2>9 DEF CallRecords
  <2> QED
    BY <1>1, <2>8, <2>9, <2>10
<1>7. CASE Resolve(c)
  <2> DEFINE e == [kg[j] EXCEPT !.suggested = TRUE]
  <2>1. /\ e \in Evidence /\ e.reviews = kg[j].reviews /\ e.suggested = TRUE
        /\ e.staged = kg[j].staged
    BY <1>2, EvidenceChange DEF Evidence
  <2>2. kg' = [kg EXCEPT ![j] = e]
    BY <1>7 DEF Resolve
  <2> HIDE DEF e
  <2>3. Len(kg[j].reviews) <= Len(e.reviews)
    BY <1>1, <1>2, <2>1
  <2>4. kg'[j] = e /\ \A i \in Job : Grows(i)
    BY <1>4, <2>1, <2>2, <2>3
  <2>5. \/ Goto(c, "record") /\ Eligible(c)
        \/ Goto(c, "rejected")
    BY <1>7 DEF Resolve
  <2>6. Eligible(c) => kg[j].reviews[calls[c].review] = TRUE
    <3>1. calls[c].phase = "resolve"
      BY <1>7 DEF Resolve
    <3>2. kg[j].reviews \in Seq(BOOLEAN) /\ calls[c].review \in 1..Len(kg[j].reviews)
      BY <1>1, <1>2, <3>1, EvidenceChange
    <3>3. kg[j].reviews[calls[c].review] \in BOOLEAN
      BY <3>2
    <3> QED
      BY <3>3 DEF Eligible
  <2>7. "record" \in Phases /\ "rejected" \in Phases
    BY DEF Phases
  <2>8. \/ /\ calls'[c].phase = "record" /\ calls'[c].review = calls[c].review
           /\ kg[j].reviews[calls[c].review] = TRUE
        \/ calls'[c].phase = "rejected"
    BY <2>5, <2>6, <2>7, CallEffect
  <2>9. calls[c].phase = "resolve"
    BY <1>7 DEF Resolve
  <2> QED
    BY <1>1, <2>1, <2>4, <2>8, <2>9
<1>8. CASE WorkFails(c) \/ ResolveFails(c)
  <2>1. \E e \in {kg[j], [kg[j] EXCEPT !.suggested = TRUE]} :
          kg' = [kg EXCEPT ![j] = e]
    <3>1. kg = [kg EXCEPT ![j] = kg[j]]
      BY <1>1, TypeFacts
    <3> QED
      BY <1>8, <3>1 DEF WorkFails, ResolveFails
  <2>2. PICK e \in {kg[j], [kg[j] EXCEPT !.suggested = TRUE]} :
          kg' = [kg EXCEPT ![j] = e]
    BY <2>1
  <2>3. /\ e \in Evidence /\ e.reviews = kg[j].reviews /\ e.staged = kg[j].staged
        /\ e.suggested = TRUE \/ e.suggested = kg[j].suggested
    <3> DEFINE v == kg[j]
    <3>1. v \in Evidence /\ e \in {v, [v EXCEPT !.suggested = TRUE]}
      BY <1>2, <2>2
    <3> HIDE DEF v
    <3>2. /\ [v EXCEPT !.suggested = TRUE] \in Evidence
          /\ [v EXCEPT !.suggested = TRUE].reviews = v.reviews
          /\ [v EXCEPT !.suggested = TRUE].staged = v.staged
          /\ [v EXCEPT !.suggested = TRUE].suggested = TRUE
      BY <3>1 DEF Evidence
    <3> QED
      BY <3>1, <3>2 DEF v
  <2>4. Len(kg[j].reviews) <= Len(e.reviews)
    BY <1>1, <1>2, <2>3
  <2>5. \A i \in Job : Grows(i)
    BY <1>4, <2>2, <2>3, <2>4
  <2>6. Goto(c, "rejected") \/ Goto(c, "interrupted")
    BY <1>8 DEF WorkFails, ResolveFails
  <2>7. calls'[c].phase \in {"rejected", "interrupted"}
    <3>1. "rejected" \in Phases /\ "interrupted" \in Phases
      BY DEF Phases
    <3> QED
      BY <2>6, <3>1, CallEffect
  <2> QED
    BY <1>1, <2>5, <2>7
<1> QED
  BY <1>5, <1>6, <1>7, <1>8

(* Every step leaves the evidence of a job alone or adds to it, unless the *)
(* file of the jobs is lost.                                               *)
LEMMA EvidenceGrows ==
  ASSUME CorpusTypeOK, [WatchersNext]_allVars, ~FileLost, NEW i \in Job
  PROVE  Grows(i)
<1>1. Len(kg[i].reviews) \in Nat
  BY TypeFacts
<1>2. CASE kg' = kg
  BY <1>1, <1>2 DEF Grows
<1>3. CASE \E s \in AllSources, k \in AllKeys : Enqueue(s, k)
  <2>1. kg'[i] = kg[i]
    BY <1>3, EnqueueEffect
  <2> QED
    BY <1>1, <2>1 DEF Grows
<1>4. CASE \E c \in RunCalls :
             Stage(c) \/ HoldReview(c) \/ Resolve(c) \/ WorkFails(c) \/ ResolveFails(c)
  BY <1>4, WorkEvidence
<1>5. CASE JobsNext
  <2>1. CASE \E s \in Sources, k \in Keys \cup {NoKey} : Create(s, k)
    BY <1>3, <2>1, NewJobs
  <2>2. ASSUME NEW j \in Job, Cancel(j)
        PROVE  kg' = kg
    BY <2>2 DEF Cancel
  <2>3. ASSUME NEW c \in RunCalls, NEW j \in Job, RunReads(c, j)
        PROVE  kg' = kg
    BY <2>3 DEF RunReads
  <2>4. ASSUME NEW c \in RunCalls,
               \/ RunStarts(c) \/ RecordLinks(c) \/ RunEnds(c) \/ RunConflicts(c)
               \/ RunDropped(c)
        PROVE  kg' = kg
    BY <2>4 DEF RunStarts, RecordLinks, RunEnds, RunConflicts, RunDropped
  <2> QED
    BY <1>2, <1>4, <1>5, <2>1, <2>2, <2>3, <2>4 DEF JobsNext, RunStep
<1>6. CASE WatcherEnqueues
  BY <1>3, <1>6, NewJobs
<1>7. CASE \/ TickStarts \/ Skip \/ Count \/ WatcherReuses \/ EnqueueRejected
           \/ SaveCursors \/ Restart \/ UNCHANGED allVars
  <2>1. kg' = kg
    BY <1>7 DEF TickStarts, Skip, Count, WatcherReuses, EnqueueRejected, SaveCursors,
                Restart, JobsRestart, FileLost, allVars, jobVars
  <2> QED
    BY <1>2, <2>1
<1> QED
  BY <1>5, <1>6, <1>7 DEF WatchersNext, SchedulerStep

(* The reviews stay real in a step that adds nothing to them.              *)
LEMMA RealStays ==
  ASSUME CorpusTypeOK, CorpusTypeOK', ReviewsAreReal,
         Job \subseteq Job', \A i \in Job : Grows(i),
         \A j \in Job : jobs[j].review # 0 => jobs'[j].review # 0,
         \A j \in Job' :
           \/ /\ j \in Job /\ jobs'[j].review = jobs[j].review
              /\ jobs'[j].state = "awaiting_review" =>
                   jobs[j].state = "awaiting_review" \/ jobs[j].review # 0
           \/ jobs'[j].review = 0 /\ jobs'[j].state # "awaiting_review"
           \/ JobReal(j)',
         \A c \in RunCalls :
           \/ calls'[c] = calls[c]
           \/ calls'[c].phase \notin {"hold", "resolve", "record", "await"}
           \/ CallReal(c)'
  PROVE  ReviewsAreReal'
<1>1. ASSUME NEW j \in Job'
      PROVE  JobReal(j)'
  <2>1. CASE /\ j \in Job /\ jobs'[j].review = jobs[j].review
             /\ jobs'[j].state = "awaiting_review" =>
                  jobs[j].state = "awaiting_review" \/ jobs[j].review # 0
    <3>1. JobReal(j) /\ Grows(j)
      BY <2>1 DEF ReviewsAreReal
    <3>2. jobs[j].review # 0 => Good(j, jobs[j].review)'
      <4>1. ASSUME NEW r, Good(j, r)
            PROVE  Good(j, r)'
        BY <2>1, <3>1, <4>1, GoodStays
      <4>2. jobs[j].review # 0 => /\ kg'[j].staged = TRUE /\ kg'[j].suggested = TRUE
                                  /\ jobs[j].review \in 1..Len(kg'[j].reviews)
                                  /\ kg'[j].reviews[jobs[j].review] = TRUE
        BY <3>1, <4>1 DEF JobReal, Good
      <4> QED
        BY <2>1, <4>2 DEF Good
    <3> QED
      BY <2>1, <3>1, <3>2 DEF JobReal, Good
  <2>2. CASE jobs'[j].review = 0 /\ jobs'[j].state # "awaiting_review"
    BY <2>2 DEF JobReal
  <2> QED
    BY <2>1, <2>2
<1>2. ASSUME NEW c \in RunCalls
      PROVE  CallReal(c)'
  <2>1. CASE calls'[c] = calls[c] /\ calls[c].phase \in {"hold", "resolve", "record", "await"}
    <3> DEFINE j == calls[c].job
    <3>1. /\ j \in Job /\ j \in Job' /\ Grows(j) /\ CallReal(c)
          /\ jobs[j].review # 0 => jobs'[j].review # 0
      BY <2>1 DEF ReviewsAreReal, CorpusTypeOK, JobsTypeOK
    <3>2. calls[c].phase \in {"record", "await"} =>
            /\ kg'[j].staged = TRUE /\ kg'[j].suggested = TRUE
            /\ calls[c].review \in 1..Len(kg'[j].reviews)
            /\ kg'[j].reviews[calls[c].review] = TRUE
      <4>1. calls[c].phase \in {"record", "await"} => Good(j, calls[c].review)
        BY <3>1 DEF CallReal
      <4>2. ASSUME NEW i \in Job, i \in Job', Grows(i), NEW r, Good(i, r)
            PROVE  /\ kg'[i].staged = TRUE /\ kg'[i].suggested = TRUE
                   /\ r \in 1..Len(kg'[i].reviews) /\ kg'[i].reviews[r] = TRUE
        BY <4>2, GoodStays DEF Good
      <4> HIDE DEF j
      <4> QED
        BY <3>1, <4>1, <4>2
    <3>3. calls[c].phase \in {"hold", "resolve"} => kg'[j].staged = TRUE
      BY <3>1 DEF CallReal, Grows
    <3>4. calls[c].phase = "await" => jobs'[j].review # 0
      BY <3>1 DEF CallReal
    <3> QED
      BY <2>1, <3>2, <3>3, <3>4 DEF CallReal, Good
  <2>2. CASE calls'[c].phase \notin {"hold", "resolve", "record", "await"}
    BY <2>2 DEF CallReal
  <2> QED
    BY <2>1, <2>2
<1> QED
  BY <1>1, <1>2 DEF ReviewsAreReal

(* A job that awaits review has staged evidence, a suggestion and a review *)
(* that has passed, however several runs of it stage, link and move it.    *)
THEOREM CorpusAwaitsRealReview == WatchersSpec => []AwaitsRealReview
<1>1. WatchersInit => ReviewsAreReal
  BY DEF WatchersInit, JobsInit, ReviewsAreReal, CallReal, Job, Idle
<1>2. CorpusTypeOK /\ ReviewsAreReal /\ [WatchersNext]_allVars => ReviewsAreReal'
  <2>0. CASE FileLost
    BY <2>0, NoJobs DEF ReviewsAreReal, CallReal
  <2> SUFFICES ASSUME CorpusTypeOK, ReviewsAreReal, [WatchersNext]_allVars, ~FileLost
               PROVE  ReviewsAreReal'
    BY <2>0
  <2>a. /\ CorpusTypeOK' /\ Job \subseteq Job' /\ \A i \in Job : Grows(i)
        /\ \A i \in Job' \ Job : jobs'[i].review = 0 /\ jobs'[i].state # "awaiting_review"
    BY CorpusKeepsTypes, KeysStay, EvidenceGrows
  <2>b. ASSUME NEW i \in Job, NEW next \in States, Move(i, next)
        PROVE  /\ Job' = Job
               /\ \A j \in Job : jobs'[j].review = jobs[j].review
               /\ \A j \in Job : jobs'[j].state = IF j = i THEN next ELSE jobs[j].state
    <3>1. /\ Job' = Job
          /\ \A n \in Job : jobs'[n] = IF n = i THEN Moved(jobs[i], next) ELSE jobs[n]
      BY <2>b, MoveEffect
    <3>2. Moved(jobs[i], next).state = next /\ Moved(jobs[i], next).review = jobs[i].review
      BY TypeFacts, MovedFields
    <3> QED
      BY <3>1, <3>2
  <2>1. CASE UNCHANGED <<jobs, calls>>
    BY <2>1, <2>a, RealStays DEF Job
  <2>2. CASE \E s \in AllSources, k \in AllKeys : Enqueue(s, k)
    <3>1. calls' = calls /\ \A i \in Job : jobs'[i] = jobs[i]
      BY <2>2, EnqueueEffect DEF Enqueue
    <3> QED
      BY <2>a, <3>1, RealStays
  <2>3. CASE \E i \in Job : Cancel(i)
    <3>1. PICK i \in Job : Move(i, "cancelled") /\ calls' = calls
      BY <2>3 DEF Cancel
    <3>2. "cancelled" \in States /\ "cancelled" # "awaiting_review"
      BY DEF States, Terminal
    <3> QED
      BY <2>a, <2>b, <3>1, <3>2, RealStays
  <2>4. ASSUME NEW c \in RunCalls, NEW i \in Job, RunReads(c, i)
        PROVE  ReviewsAreReal'
    <3>1. /\ jobs' = jobs /\ calls'[c].phase \in {"start", "stage"}
          /\ \A d \in RunCalls \ {c} : calls'[d] = calls[d]
      BY <2>4, ReadEffect
    <3> QED
      BY <2>a, <3>1, RealStays DEF Job
  <2>5. ASSUME NEW c \in RunCalls, RunStarts(c)
        PROVE  ReviewsAreReal'
    <3>1. /\ calls[c].job \in Job /\ Move(calls[c].job, "running") /\ "running" \in States
          /\ calls'[c].phase = "stage"
          /\ \A d \in RunCalls \ {c} : calls'[d] = calls[d]
      BY <2>5, StartEffect
    <3>2. /\ Job' = Job
          /\ \A j \in Job : jobs'[j].review = jobs[j].review
          /\ \A j \in Job : jobs'[j].state \in {"running", jobs[j].state}
      BY <2>b, <3>1
    <3> QED
      BY <2>a, <3>1, <3>2, RealStays
  <2>6. ASSUME NEW c \in RunCalls,
               Stage(c) \/ HoldReview(c) \/ Resolve(c) \/ WorkFails(c) \/ ResolveFails(c)
        PROVE  ReviewsAreReal'
    <3> DEFINE j == calls[c].job
    <3>1. /\ jobs' = jobs /\ calls'[c].job = j
          /\ \A d \in RunCalls \ {c} : calls'[d] = calls[d]
      BY <2>6, WorkEffect
    <3>2. /\ j \in Job
          /\ calls'[c].phase \in {"hold", "resolve"} =>
               \/ calls[c].phase \in {"hold", "resolve"}
               \/ kg'[j].staged = TRUE
          /\ calls'[c].phase # "await"
          /\ calls'[c].phase = "record" =>
               /\ calls[c].phase = "resolve" /\ calls'[c].review = calls[c].review
               /\ kg[j].reviews[calls[c].review] = TRUE
               /\ kg'[j].suggested = TRUE
      BY <2>6, WorkEvidence
    <3>3. /\ calls[c].phase \in {"hold", "resolve"} => kg'[j].staged = TRUE
          /\ calls[c].phase = "resolve" => calls[c].review \in 1..Len(kg[j].reviews)
      BY <2>a, <3>2 DEF ReviewsAreReal, CallReal, Grows, CorpusTypeOK, JobsTypeOK
    <3>4. Grows(j) /\ Len(kg[j].reviews) \in Nat /\ Len(kg'[j].reviews) \in Nat
      <4>1. CorpusTypeOK' => kg' \in Seq(Evidence) /\ jobs' \in Seq(TheJobs)
                             /\ Len(kg') = Len(jobs')
        BY DEF CorpusTypeOK, JobsTypeOK, TheJobs
      <4>2. j \in Job'
        BY <2>a, <3>2
      <4>3. kg'[j] \in Evidence
        BY <2>a, <4>1, <4>2 DEF Job
      <4> QED
        BY <2>a, <3>2, <4>3, TypeFacts, EvidenceChange
    <3>5. CallReal(c)'
      <4>1. calls'[c].phase = "record" =>
              /\ kg'[j].staged = TRUE /\ kg'[j].suggested = TRUE
              /\ calls'[c].review \in 1..Len(kg'[j].reviews)
              /\ kg'[j].reviews[calls'[c].review] = TRUE
        <5> SUFFICES ASSUME calls'[c].phase = "record"
                     PROVE  /\ kg'[j].staged = TRUE /\ kg'[j].suggested = TRUE
                            /\ calls'[c].review \in 1..Len(kg'[j].reviews)
                            /\ kg'[j].reviews[calls'[c].review] = TRUE
          OBVIOUS
        <5> DEFINE r == calls'[c].review
        <5>1. /\ calls[c].phase = "resolve" /\ r = calls[c].review
              /\ kg[j].reviews[r] = TRUE /\ kg'[j].suggested = TRUE
          BY <3>2
        <5>2. kg'[j].staged = TRUE /\ r \in 1..Len(kg[j].reviews)
          BY <3>3, <5>1
        <5>3. /\ Len(kg[j].reviews) <= Len(kg'[j].reviews)
              /\ \A n \in 1..Len(kg[j].reviews) : kg'[j].reviews[n] = kg[j].reviews[n]
          BY <3>4 DEF Grows
        <5> HIDE DEF j, r
        <5>4. kg'[j].reviews[r] = TRUE /\ r \in 1..Len(kg'[j].reviews)
          BY <3>4, <5>1, <5>2, <5>3
        <5> QED
          BY <5>1, <5>2, <5>4 DEF r
      <4>2. calls'[c].phase \in {"hold", "resolve"} => kg'[j].staged = TRUE
        BY <3>2, <3>3
      <4> QED
        BY <3>1, <3>2, <4>1, <4>2 DEF CallReal, Good
    <3> QED
      BY <2>a, <3>1, <3>5, RealStays DEF Job
  <2>7. ASSUME NEW c \in RunCalls, RecordLinks(c)
        PROVE  ReviewsAreReal'
    <3> DEFINE j == calls[c].job
               r == calls[c].review
    <3>1. /\ calls[c].phase = "record" /\ Links(c) /\ kg' = kg
          /\ calls'[c].phase = "await" /\ calls'[c].job = j /\ calls'[c].review = r
          /\ \A d \in RunCalls \ {c} : calls'[d] = calls[d]
      BY <2>7, RecordEffect
    <3>2. /\ j \in Job /\ Job' = Job
          /\ \A i \in Job : jobs'[i] = IF i = j
               THEN [jobs[i] EXCEPT !.review = r] ELSE jobs[i]
      BY <3>1, LinksEffect
    <3>3. jobs'[j].review = r
      BY <3>2, TypeFacts DEF TheJobs, JobRecords
    <3>4. Good(j, r) /\ r # 0
      BY <3>1 DEF ReviewsAreReal, CallReal, Good
    <3>5. \A i \in Job : i = j => JobReal(i)'
      BY <3>1, <3>3, <3>4 DEF JobReal, Good
    <3>6. CallReal(c)'
      BY <3>1, <3>3, <3>4 DEF CallReal, Good
    <3>7. Job' = Job /\ \A i \in Job : i # j => jobs'[i] = jobs[i]
      BY <3>2
    <3>8. jobs'[j].review # 0
      BY <3>3, <3>4
    <3>9. \A i \in Job : jobs[i].review # 0 => jobs'[i].review # 0
      <4> SUFFICES ASSUME NEW i \in Job, jobs[i].review # 0
                   PROVE  jobs'[i].review # 0
        OBVIOUS
      <4>1. CASE i = j
        BY <3>8, <4>1
      <4>2. CASE i # j
        BY <3>7, <4>2
      <4> QED
        BY <4>1, <4>2
    <3>10. \A i \in Job' :
             \/ i \in Job /\ jobs'[i] = jobs[i]
             \/ JobReal(i)'
      BY <3>5, <3>7
    <3>11. \A d \in RunCalls : calls'[d] = calls[d] \/ CallReal(d)'
      BY <3>1, <3>6
    <3> QED
      BY <2>a, <3>9, <3>10, <3>11, RealStays
  <2>8. ASSUME NEW c \in RunCalls, RunEnds(c)
        PROVE  ReviewsAreReal'
    <3> DEFINE j == calls[c].job
    <3>1. /\ j \in Job /\ Move(j, Target(c)) /\ Target(c) \in States
          /\ Target(c) = "awaiting_review" => calls[c].phase = "await"
          /\ calls'[c].phase = "idle"
          /\ \A d \in RunCalls \ {c} : calls'[d] = calls[d]
      BY <2>8, EndEffect
    <3>2. /\ Job' = Job
          /\ \A i \in Job : jobs'[i].review = jobs[i].review
          /\ \A i \in Job : jobs'[i].state = IF i = j THEN Target(c) ELSE jobs[i].state
      BY <2>b, <3>1
    <3>3. jobs'[j].state = "awaiting_review" => jobs[j].review # 0
      BY <3>1, <3>2 DEF ReviewsAreReal, CallReal
    <3>4. \A i \in Job' : /\ i \in Job /\ jobs'[i].review = jobs[i].review
                          /\ jobs'[i].state = "awaiting_review" =>
                               jobs[i].state = "awaiting_review" \/ jobs[i].review # 0
      BY <3>2, <3>3
    <3> HIDE DEF j
    <3> QED
      BY <2>a, <3>1, <3>2, <3>4, RealStays
  <2>9. ASSUME NEW c \in RunCalls, RunConflicts(c) \/ RunDropped(c)
        PROVE  ReviewsAreReal'
    <3>1. /\ jobs' = jobs /\ calls'[c].phase = "idle"
          /\ \A d \in RunCalls \ {c} : calls'[d] = calls[d]
      BY <2>9, ReturnEffect
    <3> QED
      BY <2>a, <3>1, RealStays DEF Job
  <2>10. CASE Restart
    <3>1. jobs' = jobs /\ \A c \in RunCalls : calls'[c].phase = "idle"
      BY <2>10 DEF Restart, JobsRestart, FileLost, Idle
    <3> QED
      BY <2>a, <3>1, RealStays DEF Job
  <2>11. CASE SchedulerStep
    <3>1. CASE WatcherEnqueues
      BY <2>2, <3>1, NewJobs
    <3>2. CASE TickStarts \/ Skip \/ Count \/ WatcherReuses \/ EnqueueRejected \/ SaveCursors
      BY <2>1, <3>2 DEF TickStarts, Skip, Count, WatcherReuses, EnqueueRejected,
                        SaveCursors, jobVars
    <3> QED
      BY <2>11, <3>1, <3>2 DEF SchedulerStep
  <2>12. CASE JobsNext
    <3>1. CASE \E s \in Sources, k \in Keys \cup {NoKey} : Create(s, k)
      BY <2>2, <3>1, NewJobs
    <3> QED
      BY <2>3, <2>4, <2>5, <2>6, <2>7, <2>8, <2>9, <2>12, <3>1
         DEF JobsNext, RunStep
  <2> QED
    BY <2>1, <2>10, <2>11, <2>12 DEF WatchersNext, allVars, jobVars
<1>3. ReviewsAreReal => AwaitsRealReview
  BY DEF ReviewsAreReal, JobReal, Good, AwaitsRealReview
<1> QED
  BY <1>1, <1>2, <1>3, CorpusTypeCorrect, PTL DEF WatchersSpec

----------------------------------------------------------------------------
(* The attempts a job may still get: one while it is queued, and one for   *)
(* every run call that has decided, on its copy, that it may retry.        *)
Retriers(j) == {c \in RunCalls : /\ calls[c].phase # "idle" /\ calls[c].job = j
                                 /\ calls[c].mayRetry = TRUE}
Waiting(j) == IF jobs[j].state = "queued" THEN 1 ELSE 0
Limit == MAX_RETRY_ATTEMPTS + Cardinality(RunCalls) - 1
Bounded(j) == jobs[j].attempts + Cardinality(Retriers(j)) + Waiting(j) <= Limit

(* What the proof uses of the number of run calls.                         *)
LEMMA LimitFacts ==
  /\ IsFiniteSet(RunCalls) /\ Cardinality(RunCalls) \in Nat \ {0}
  /\ Limit \in Nat /\ Limit >= 1
  /\ \A T \in SUBSET RunCalls : /\ IsFiniteSet(T) /\ Cardinality(T) \in Nat
                               /\ Cardinality(T) <= Cardinality(RunCalls)
                               /\ \A S \in SUBSET T : Cardinality(S) <= Cardinality(T)
                               /\ \A x \in T : Cardinality(T \ {x}) = Cardinality(T) - 1
<1>1. /\ IsFiniteSet(RunCalls) /\ Cardinality(RunCalls) \in Nat
      /\ Cardinality(RunCalls) # 0
  BY CorpusAssumption, FS_CardinalityType, FS_EmptySet
<1>2. ASSUME NEW T \in SUBSET RunCalls
      PROVE  /\ IsFiniteSet(T) /\ Cardinality(T) \in Nat
             /\ Cardinality(T) <= Cardinality(RunCalls)
             /\ \A S \in SUBSET T : Cardinality(S) <= Cardinality(T)
             /\ \A x \in T : Cardinality(T \ {x}) = Cardinality(T) - 1
  <2>1. IsFiniteSet(T) /\ Cardinality(T) <= Cardinality(RunCalls)
    BY <1>1, FS_Subset
  <2>2. Cardinality(T) \in Nat
    BY <2>1, FS_CardinalityType
  <2>3. \A S \in SUBSET T : Cardinality(S) <= Cardinality(T)
    BY <2>1, FS_Subset
  <2>4. \A x \in T : Cardinality(T \ {x}) = Cardinality(T) - 1
    BY <2>1, FS_RemoveElement
  <2> QED
    BY <2>1, <2>2, <2>3, <2>4
<1> QED
  BY <1>1, <1>2, CorpusAssumption DEF Limit

(* The bound holds on where a step gives the job nothing more to come.     *)
LEMMA BoundStays ==
  ASSUME CorpusTypeOK, CorpusTypeOK', NEW j \in Job, j \in Job', Bounded(j),
         Retriers(j)' \subseteq Retriers(j),
         jobs'[j].attempts + Waiting(j)' <= jobs[j].attempts + Waiting(j)
  PROVE  Bounded(j)'
<1>1. jobs[j].attempts \in Nat /\ jobs'[j].attempts \in Nat
  <2>1. jobs[j] \in TheJobs /\ jobs'[j] \in TheJobs
    <3>1. jobs' \in Seq(TheJobs)
      BY DEF CorpusTypeOK, JobsTypeOK, TheJobs
    <3> QED
      BY <3>1, TypeFacts DEF Job
  <2> QED
    BY <2>1 DEF TheJobs, JobRecords
<1>2. Waiting(j) \in {0, 1} /\ Waiting(j)' \in {0, 1}
  BY DEF Waiting
<1>3. Retriers(j) \in SUBSET RunCalls /\ Retriers(j)' \in SUBSET RunCalls
  BY DEF Retriers
<1>4. /\ Cardinality(Retriers(j)) \in Nat /\ Cardinality(Retriers(j)') \in Nat
      /\ Cardinality(Retriers(j)') <= Cardinality(Retriers(j))
  BY <1>3, LimitFacts
<1> DEFINE a == jobs[j].attempts
           b == Cardinality(Retriers(j))
           w == Waiting(j)
           aa == jobs'[j].attempts
           bb == Cardinality(Retriers(j)')
           ww == Waiting(j)'
<1>5. /\ a + b + w <= Limit /\ aa + ww <= a + w /\ bb <= b
      /\ a \in Nat /\ b \in Nat /\ w \in Nat /\ aa \in Nat /\ bb \in Nat /\ ww \in Nat
      /\ Limit \in Nat
  BY <1>1, <1>2, <1>4, LimitFacts DEF Bounded
<1> HIDE DEF a, b, w, aa, bb, ww
<1>6. aa + bb + ww <= Limit
  BY <1>5
<1>7. Limit' = Limit
  BY DEF Limit
<1> QED
  BY <1>6, <1>7 DEF Bounded, aa, bb, ww

(* Only the read that begins a run can add a call that may retry.          *)
LEMMA RetriersShrink ==
  ASSUME \A c \in RunCalls :
           \/ calls'[c].phase = "idle"
           \/ calls'[c] = calls[c]
           \/ /\ calls[c].phase # "idle" /\ calls'[c].job = calls[c].job
              /\ calls'[c].mayRetry = calls[c].mayRetry
  PROVE  \A j : Retriers(j)' \subseteq Retriers(j)
BY DEF Retriers

(* Only a retry adds to what a job may still get without a new run call.   *)
LEMMA MoveBound ==
  ASSUME CorpusTypeOK, NEW j \in Job, NEW next \in States, Move(j, next)
  PROVE  /\ Job' = Job
         /\ \A i \in Job : i # j => jobs'[i] = jobs[i]
         /\ next # "queued" =>
              jobs'[j].attempts + Waiting(j)' <= jobs[j].attempts + Waiting(j)
         /\ next = "queued" => /\ jobs'[j].attempts = jobs[j].attempts
                              /\ Waiting(j) = 0 /\ Waiting(j)' = 1
<1> DEFINE t == jobs[j]
           m == Moved(jobs[j], next)
<1>1. /\ Job' = Job /\ Permits(t.state, next)
      /\ \A i \in Job : i # j => jobs'[i] = jobs[i]
      /\ jobs'[j] = m
  BY MoveEffect
<1>2. /\ t.attempts \in Nat /\ m.state = next
      /\ m.attempts = IF next = "running" THEN t.attempts + 1 ELSE t.attempts
  BY TypeFacts, MovedFields
<1>3. next = "running" => t.state = "queued"
  BY <1>1 DEF Permits, Terminal
<1>4. next = "queued" => t.state = "running"
  BY <1>1 DEF Permits, Terminal
<1>5. /\ Waiting(j) = IF t.state = "queued" THEN 1 ELSE 0
      /\ Waiting(j)' = IF next = "queued" THEN 1 ELSE 0
  BY <1>1, <1>2 DEF Waiting
<1> HIDE DEF t, m
<1>6. /\ next # "queued" => m.attempts + Waiting(j)' <= t.attempts + Waiting(j)
      /\ next = "queued" => /\ m.attempts = t.attempts
                           /\ Waiting(j) = 0 /\ Waiting(j)' = 1
  BY <1>2, <1>3, <1>4, <1>5
<1> QED
  BY <1>1, <1>6 DEF t

(* Overlapping runs exceed the retry limit by at most one attempt each:    *)
(* what a job has had and may still get never exceeds the bound.           *)
THEOREM CorpusAttemptsBounded == WatchersSpec => []AttemptsBounded
<1> DEFINE Inv == \A j \in Job : Bounded(j)
<1>1. WatchersInit => Inv
  BY DEF WatchersInit, JobsInit, Job
<1>2. CorpusTypeOK /\ Inv /\ [WatchersNext]_allVars => Inv'
  <2> SUFFICES ASSUME CorpusTypeOK, Inv, [WatchersNext]_allVars, NEW j \in Job'
               PROVE  Bounded(j)'
    OBVIOUS
  <2>0. ~FileLost
    BY NoJobs
  <2>a. /\ CorpusTypeOK' /\ Job \subseteq Job'
        /\ j \in Job => Bounded(j) /\ jobs[j].attempts \in Nat /\ Waiting(j) \in {0, 1}
    BY <2>0, CorpusKeepsTypes, KeysStay, TypeFacts DEF TheJobs, JobRecords, Waiting
  <2>b. j \in Job /\ jobs'[j] = jobs[j] =>
          jobs'[j].attempts + Waiting(j)' <= jobs[j].attempts + Waiting(j)
    BY <2>a DEF Waiting
  <2>c. ASSUME j \in Job, Retriers(j)' \subseteq Retriers(j), jobs'[j] = jobs[j]
        PROVE  Bounded(j)'
    BY <2>a, <2>b, <2>c, BoundStays
  <2>d. ASSUME NEW i \in Job, NEW next \in States, Move(i, next), next # "queued",
               Retriers(j)' \subseteq Retriers(j)
        PROVE  Bounded(j)'
    <3>1. /\ Job' = Job
          /\ j # i => jobs'[j] = jobs[j]
          /\ j = i => jobs'[j].attempts + Waiting(j)' <= jobs[j].attempts + Waiting(j)
      BY <2>d, MoveBound
    <3> QED
      BY <2>a, <2>b, <2>d, <3>1, BoundStays
  <2>1. CASE UNCHANGED <<jobs, calls>>
    <3>1. j \in Job /\ jobs'[j] = jobs[j] /\ Retriers(j)' \subseteq Retriers(j)
      BY <2>1 DEF Job, Retriers
    <3> QED
      BY <2>c, <3>1
  <2>2. CASE \E s \in AllSources, k \in AllKeys : Enqueue(s, k)
    <3>1. PICK s \in AllSources, k \in AllKeys : Enqueue(s, k)
      BY <2>2
    <3>2. /\ Job' = Job \cup {Len(jobs) + 1} /\ Len(jobs) + 1 \notin Job
          /\ \A i \in Job : jobs'[i] = jobs[i]
          /\ jobs'[Len(jobs) + 1] = NewJob(s, k) /\ calls' = calls
      BY <3>1, EnqueueEffect DEF Enqueue
    <3>3. CASE j \in Job
      <4>1. jobs'[j] = jobs[j] /\ Retriers(j)' \subseteq Retriers(j)
        BY <3>2, <3>3 DEF Retriers
      <4> QED
        BY <2>c, <3>3, <4>1
    <3>4. CASE j \notin Job
      <4>1. jobs'[j].attempts = 0 /\ jobs'[j].state = "queued"
        BY <2>0, <3>4, KeysStay
      <4>2. Retriers(j)' = {}
        BY <3>2, <3>4 DEF Retriers, CorpusTypeOK, JobsTypeOK
      <4>3. Cardinality(Retriers(j)') = 0
        BY <4>2, FS_EmptySet
      <4>4. Waiting(j)' = 1
        BY <4>1 DEF Waiting
      <4> QED
        BY <4>1, <4>3, <4>4, LimitFacts DEF Bounded, Limit
    <3> QED
      BY <3>3, <3>4
  <2>3. CASE \E i \in Job : Cancel(i)
    <3>1. PICK i \in Job : Move(i, "cancelled") /\ calls' = calls
      BY <2>3 DEF Cancel
    <3>2. "cancelled" \in States /\ "cancelled" # "queued"
      BY DEF States, Terminal
    <3>3. Retriers(j)' \subseteq Retriers(j)
      BY <3>1 DEF Retriers
    <3> QED
      BY <2>d, <3>1, <3>2, <3>3
  <2>4. ASSUME NEW c \in RunCalls, NEW i \in Job, RunReads(c, i)
        PROVE  Bounded(j)'
    <3>1. /\ jobs' = jobs /\ Job' = Job /\ calls[c].phase = "idle"
          /\ calls'[c].job = i /\ calls'[c].mayRetry = MayRetry(jobs[i])
          /\ \A d \in RunCalls \ {c} : calls'[d] = calls[d]
      BY <2>4, ReadEffect
    <3>2. CASE j = i /\ calls'[c].mayRetry = TRUE
      <4>1. MayRetry(jobs[j])
        BY <3>1, <3>2
      <4>2. jobs'[j].attempts + 1 < MAX_RETRY_ATTEMPTS /\ jobs'[j].attempts \in Nat
        BY <2>a, <3>1, <4>1 DEF MayRetry
      <4>3. Retriers(j)' \in SUBSET RunCalls
        BY DEF Retriers
      <4>4. /\ Cardinality(Retriers(j)') \in Nat
            /\ Cardinality(Retriers(j)') <= Cardinality(RunCalls)
        BY <4>3, LimitFacts
      <4>5. Waiting(j)' \in {0, 1}
        BY DEF Waiting
      <4> DEFINE a == jobs'[j].attempts
                 b == Cardinality(Retriers(j)')
                 w == Waiting(j)'
                 n == Cardinality(RunCalls)
      <4>6. /\ a + 1 < MAX_RETRY_ATTEMPTS /\ b <= n /\ w \in {0, 1}
            /\ a \in Nat /\ b \in Nat /\ n \in Nat /\ MAX_RETRY_ATTEMPTS \in Nat
        BY <4>2, <4>4, <4>5, LimitFacts, CorpusAssumption
      <4> HIDE DEF a, b, w, n
      <4>7. a + b + w <= MAX_RETRY_ATTEMPTS + n - 1
        BY <4>6
      <4> QED
        BY <4>7 DEF a, b, w, n, Bounded, Limit
    <3>3. CASE ~(j = i /\ calls'[c].mayRetry = TRUE)
      <4>1. Retriers(j)' \subseteq Retriers(j)
        BY <3>1, <3>3 DEF Retriers
      <4> QED
        BY <2>c, <3>1, <4>1
    <3> QED
      BY <3>2, <3>3
  <2>5. ASSUME NEW c \in RunCalls, RunStarts(c)
        PROVE  Bounded(j)'
    <3>1. /\ calls[c].phase # "idle" /\ calls[c].job \in Job
          /\ Move(calls[c].job, "running") /\ "running" \in States
          /\ calls'[c].job = calls[c].job /\ calls'[c].mayRetry = calls[c].mayRetry
          /\ \A d \in RunCalls \ {c} : calls'[d] = calls[d]
      BY <2>5, StartEffect
    <3>2. Retriers(j)' \subseteq Retriers(j)
      BY <3>1, RetriersShrink
    <3> QED
      BY <2>d, <3>1, <3>2
  <2>6. ASSUME NEW c \in RunCalls,
               Stage(c) \/ HoldReview(c) \/ Resolve(c) \/ WorkFails(c) \/ ResolveFails(c)
        PROVE  Bounded(j)'
    <3>1. /\ jobs' = jobs /\ Job' = Job /\ calls[c].phase # "idle"
          /\ calls'[c].job = calls[c].job /\ calls'[c].mayRetry = calls[c].mayRetry
          /\ \A d \in RunCalls \ {c} : calls'[d] = calls[d]
      BY <2>6, WorkEffect
    <3>2. Retriers(j)' \subseteq Retriers(j)
      BY <3>1, RetriersShrink
    <3> QED
      BY <2>c, <3>1, <3>2
  <2>7. ASSUME NEW c \in RunCalls, RecordLinks(c)
        PROVE  Bounded(j)'
    <3>1. /\ Links(c) /\ calls[c].phase # "idle"
          /\ calls'[c].job = calls[c].job /\ calls'[c].mayRetry = calls[c].mayRetry
          /\ \A d \in RunCalls \ {c} : calls'[d] = calls[d]
      BY <2>7, RecordEffect
    <3>2. Retriers(j)' \subseteq Retriers(j)
      BY <3>1, RetriersShrink
    <3>3. /\ Job' = Job
          /\ \A i \in Job : jobs'[i] = IF i = calls[c].job
               THEN [jobs[i] EXCEPT !.review = calls[c].review] ELSE jobs[i]
      BY <3>1, LinksEffect
    <3>4. \A i \in Job : /\ [jobs[i] EXCEPT !.review = calls[c].review].state = jobs[i].state
                         /\ [jobs[i] EXCEPT !.review = calls[c].review].attempts = jobs[i].attempts
      BY TypeFacts DEF TheJobs, JobRecords
    <3>5. /\ j \in Job /\ jobs'[j].state = jobs[j].state
          /\ jobs'[j].attempts = jobs[j].attempts
      BY <3>3, <3>4
    <3>6. jobs'[j].attempts + Waiting(j)' <= jobs[j].attempts + Waiting(j)
      BY <2>a, <3>5 DEF Waiting
    <3> QED
      BY <2>a, <3>2, <3>5, <3>6, BoundStays
  <2>8. ASSUME NEW c \in RunCalls, RunEnds(c)
        PROVE  Bounded(j)'
    <3>1. /\ calls[c].phase # "idle" /\ calls[c].job \in Job
          /\ Move(calls[c].job, Target(c)) /\ Target(c) \in States
          /\ Target(c) = "queued" => calls[c].mayRetry
          /\ calls'[c].phase = "idle"
          /\ \A d \in RunCalls \ {c} : calls'[d] = calls[d]
      BY <2>8, EndEffect
    <3>2. Retriers(j)' \subseteq Retriers(j) \ {c}
      BY <3>1 DEF Retriers
    <3>3. CASE Target(c) # "queued"
      BY <2>d, <3>1, <3>2, <3>3
    <3>4. CASE Target(c) = "queued" /\ j # calls[c].job
      BY <2>c, <3>1, <3>2, <3>4, MoveBound
    <3>5. CASE Target(c) = "queued" /\ j = calls[c].job
      <4>1. j \in Job /\ jobs'[j].attempts = jobs[j].attempts /\ Waiting(j) = 0 /\ Waiting(j)' = 1
        BY <3>1, <3>5, MoveBound
      <4>2. c \in Retriers(j)
        BY <3>1, <3>5, TypeFacts DEF Retriers, CallRecords
      <4>3. Retriers(j) \in SUBSET RunCalls /\ Retriers(j) \ {c} \in SUBSET RunCalls
        BY DEF Retriers
      <4>4. /\ Cardinality(Retriers(j) \ {c}) = Cardinality(Retriers(j)) - 1
            /\ Cardinality(Retriers(j)) \in Nat
        BY <4>2, <4>3, LimitFacts
      <4>5. Retriers(j)' \in SUBSET RunCalls /\ Retriers(j)' \in SUBSET (Retriers(j) \ {c})
        BY <3>2, <4>3
      <4>6. /\ Cardinality(Retriers(j)') \in Nat
            /\ Cardinality(Retriers(j)') <= Cardinality(Retriers(j) \ {c})
        BY <4>3, <4>5, LimitFacts
      <4>7. Bounded(j) /\ jobs[j].attempts \in Nat
        BY <2>a, <4>1
      <4> DEFINE a == jobs[j].attempts
                 b == Cardinality(Retriers(j))
                 bb == Cardinality(Retriers(j)')
      <4>8. /\ a + b + 0 <= Limit /\ bb <= b - 1
            /\ a \in Nat /\ b \in Nat /\ bb \in Nat /\ Limit \in Nat
        BY <4>1, <4>4, <4>6, <4>7, LimitFacts DEF Bounded
      <4> HIDE DEF a, b, bb
      <4>9. a + bb + 1 <= Limit
        BY <4>8
      <4>10. Limit' = Limit
        BY DEF Limit
      <4> QED
        BY <4>1, <4>9, <4>10 DEF Bounded, a, bb
    <3> QED
      BY <3>3, <3>4, <3>5
  <2>9. ASSUME NEW c \in RunCalls, RunConflicts(c) \/ RunDropped(c)
        PROVE  Bounded(j)'
    <3>1. /\ jobs' = jobs /\ Job' = Job /\ calls'[c].phase = "idle"
          /\ \A d \in RunCalls \ {c} : calls'[d] = calls[d]
      BY <2>9, ReturnEffect
    <3>2. Retriers(j)' \subseteq Retriers(j)
      BY <3>1, RetriersShrink
    <3> QED
      BY <2>c, <3>1, <3>2
  <2>10. CASE Restart
    <3>1. jobs' = jobs /\ \A c \in RunCalls : calls'[c].phase = "idle"
      BY <2>0, <2>10 DEF Restart, JobsRestart, FileLost, Idle
    <3>2. Retriers(j)' \subseteq Retriers(j)
      BY <3>1, RetriersShrink
    <3> QED
      BY <2>c, <3>1, <3>2 DEF Job
  <2>11. CASE SchedulerStep
    <3>1. CASE WatcherEnqueues
      BY <2>2, <3>1, NewJobs
    <3>2. CASE TickStarts \/ Skip \/ Count \/ WatcherReuses \/ EnqueueRejected \/ SaveCursors
      BY <2>1, <3>2 DEF TickStarts, Skip, Count, WatcherReuses, EnqueueRejected,
                        SaveCursors, jobVars
    <3> QED
      BY <2>11, <3>1, <3>2 DEF SchedulerStep
  <2>12. CASE JobsNext
    <3>1. CASE \E s \in Sources, k \in Keys \cup {NoKey} : Create(s, k)
      BY <2>2, <3>1, NewJobs
    <3> QED
      BY <2>3, <2>4, <2>5, <2>6, <2>7, <2>8, <2>9, <2>12, <3>1
         DEF JobsNext, RunStep
  <2> QED
    BY <2>1, <2>10, <2>11, <2>12 DEF WatchersNext, allVars, jobVars
<1>3. CorpusTypeOK /\ Inv => AttemptsBounded
  <2> SUFFICES ASSUME CorpusTypeOK, Inv, NEW j \in Job
               PROVE  jobs[j].attempts <= Limit
    BY DEF AttemptsBounded, Limit
  <2>1. Bounded(j) /\ jobs[j].attempts \in Nat /\ Waiting(j) \in {0, 1}
    BY TypeFacts DEF TheJobs, JobRecords, Waiting
  <2>2. Cardinality(Retriers(j)) \in Nat
    BY LimitFacts DEF Retriers
  <2> QED
    BY <2>1, <2>2, LimitFacts DEF Bounded
<1> QED
  BY <1>1, <1>2, <1>3, CorpusTypeCorrect, PTL DEF WatchersSpec
=============================================================================
