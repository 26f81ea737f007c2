-------------------------- MODULE PhoneServiceProofs --------------------------
(***************************************************************************)
(* The safety properties of PhoneService, for any number of playback jobs, *)
(* commands and failures.                                                  *)
(*                                                                         *)
(* The inductive invariant PhoneInv says, beyond the properties: which     *)
(* requests of a job are on their way at each of its steps, that no two    *)
(* jobs know the same session, and that a session which is being given     *)
(* back is known to no job that may still play it.  LeaseOK beside it says *)
(* what a lease names, and shows the desktop's part to implement Lease.    *)
(***************************************************************************)
EXTENDS PhoneService, TLAPS

\* Where a job may still come to play.
Active == {"attempt", "connecting", "playing", "failed", "waiting"}

\* The sessions a job has been given, or is about to read of.
KnownTo(j) == {jobs[j].session, jobs[j].resume, jobs[j].answer.session}

NumbersOK == \A j \in Jobs : KnownTo(j) \subseteq 0 .. sessions /\ jobs[j].socket \in 0 .. sockets

\* Commands, and the watch over the output, belong to an instance of the service.
AliveOK ==
    command # "none" \/ waiting["connect"] > 0 \/ waiting["disconnect"] > 0 \/ listening
        => alive

\* A job has one request on its way at most, and only while it waits for the answer.
RequestsOK ==
    /\ \A r \in net : r.by # NoJob =>
          /\ jobs[r.by].answer = NoAnswer
          /\ r.kind = "connect" =>
                jobs[r.by].at = "connecting" /\ r.session = jobs[r.by].resume
          /\ r.kind = "disconnect" => jobs[r.by].at \in {"leaving", "giving up"}
    /\ \A r, q \in net : r.by # NoJob /\ r.by = q.by => r = q

\* An answer is for a job that waits for one, and a lease granted has a session.
GrantsOK ==
    \A j \in Jobs :
        /\ jobs[j].at \notin {"connecting", "leaving", "giving up"} =>
              jobs[j].answer = NoAnswer
        /\ jobs[j].at = "connecting" /\ jobs[j].answer.code = "ok" =>
              jobs[j].answer.session # NoSession
        /\ jobs[j].at = "playing" => jobs[j].session # NoSession

SessionsApart == \A i, j \in Jobs : i # j => KnownTo(i) \cap KnownTo(j) \subseteq {NoSession}

\* What is given back is nobody's any more.
GivenBack ==
    \A r \in net : r.kind = "disconnect" =>
        /\ r.session # NoSession
        /\ \A j \in Jobs : jobs[j].at \in Active /\ ~jobs[j].cancelled =>
              r.session \notin KnownTo(j)

PhoneInv ==
    /\ PhoneTypeOK /\ NumbersOK /\ AliveOK /\ OneJob
    /\ RequestsOK /\ GrantsOK /\ SessionsApart /\ GivenBack

-----------------------------------------------------------------------------
(* Steps of one job.                                                       *)

\* What the types say of the jobs.
LEMMA JobTypes ==
  ASSUME PhoneInv
  PROVE  /\ jobs \in [Jobs -> Job] /\ sessions \in Nat /\ sockets \in Nat
         /\ NoJob \notin Jobs /\ NoSession = 0 /\ NoSession \in 0 .. sessions
         /\ \A j \in Jobs : jobs[j] \in Job /\ jobs[j].answer.session \in Nat
<1>1. jobs \in [Jobs -> Job] /\ sessions \in Nat /\ sockets \in Nat
  BY DEF PhoneInv, PhoneTypeOK
<1>2. NoJob \notin Jobs
  BY PhoneAssumption
<1>3. NoSession = 0 /\ NoSession \in 0 .. sessions
  BY <1>1 DEF NoSession
<1>4. \A j \in Jobs : jobs[j] \in Job
  BY <1>1
<1>5. \A j \in Jobs : jobs[j].answer.session \in Nat
  BY <1>4 DEF Job
<1> QED
  BY <1>1, <1>2, <1>3, <1>4, <1>5

\* An interval grows with its bound.
LEMMA Wider ==
  ASSUME NEW m \in Nat, NEW n \in Nat, m <= n
  PROVE  \A k \in 0 .. m : k \in 0 .. n
OBVIOUS

\* Nothing is counted below zero.
LEMMA Zero ==
  ASSUME NEW n \in Nat
  PROVE  0 \in 0 .. n
OBVIOUS

\* What the types say of a request on its way.
LEMMA RequestTypes ==
  ASSUME PhoneInv, NEW r \in net
  PROVE  /\ r.kind \in {"connect", "disconnect"} /\ r.session \in 0 .. sessions
         /\ r.socket \in 0 .. sockets /\ r.by \in Jobs \cup {NoJob}
         /\ r = [kind |-> r.kind, session |-> r.session, socket |-> r.socket, by |-> r.by]
BY DEF PhoneInv, PhoneTypeOK

\* The job that is not cancelled is the service's.
LEMMA OnlyOne ==
  ASSUME PhoneInv, NEW i \in Jobs, NEW j \in Jobs, jobs[i].at # "none", jobs[j].at # "none",
         ~jobs[i].cancelled, ~jobs[j].cancelled
  PROVE  i = j
BY DEF PhoneInv, OneJob

\* A job goes on, knows no new session, and sends one request at most.
LEMMA JobStep ==
  ASSUME PhoneInv, NEW j \in Jobs, NEW s \in Job, jobs' = [jobs EXCEPT ![j] = s],
         UNCHANGED <<sessions, alive, job>>, sockets' \in Nat, sockets <= sockets',
         jobs[j].at # "none",
         jobs[j].at \notin {"connecting", "leaving", "giving up"} \/ jobs[j].answer # NoAnswer,
         {s.session, s.resume, s.answer.session} \subseteq KnownTo(j) \cup {NoSession},
         s.socket \in 0 .. sockets',
         s.at = "none" \/ s.cancelled = jobs[j].cancelled,
         s.at \in Active => jobs[j].at \in Active,
         s.answer = NoAnswer \/ s.at = "giving up",
         s.at = "playing" => s.session # NoSession,
         \/ net' = net
         \/ \E r : /\ net' = net \cup {r} /\ r.by = j /\ s.answer = NoAnswer
                   /\ \/ r.kind = "connect" /\ s.at = "connecting" /\ r.session = s.resume
                      \/ /\ r.kind = "disconnect" /\ s.at \in {"leaving", "giving up"}
                         /\ r.session \in KnownTo(j) \ {NoSession}
  PROVE  (NumbersOK /\ OneJob /\ RequestsOK /\ GrantsOK /\ SessionsApart /\ GivenBack)'
<1>1. /\ NumbersOK /\ OneJob /\ RequestsOK /\ GrantsOK /\ SessionsApart /\ GivenBack
      /\ NoJob \notin Jobs /\ jobs \in [Jobs -> Job]
  BY JobTypes DEF PhoneInv
<1>2. ASSUME NEW r \in net PROVE r.by # j
  <2> SUFFICES ASSUME r.by = j PROVE FALSE
    OBVIOUS
  <2>1. r.by # NoJob /\ jobs[r.by] = jobs[j]
    BY <1>1
  <2>2. /\ jobs[j].answer = NoAnswer
        /\ r.kind = "connect" => jobs[j].at = "connecting"
        /\ r.kind = "disconnect" => jobs[j].at \in {"leaving", "giving up"}
    BY <1>1, <2>1 DEF RequestsOK
  <2> QED
    BY <2>2, RequestTypes
<1>3. jobs'[j] = s /\ \A i \in Jobs \ {j} : jobs'[i] = jobs[i]
  BY <1>1
<1>4. /\ KnownTo(j)' = {s.session, s.resume, s.answer.session}
      /\ \A i \in Jobs \ {j} : KnownTo(i)' = KnownTo(i)
  BY <1>3 DEF KnownTo
<1>5. NumbersOK'
  <2>1. NoSession \in 0 .. sessions /\ sessions' = sessions
    BY JobTypes
  <2>2. ASSUME NEW i \in Jobs PROVE KnownTo(i)' \subseteq 0 .. sessions
    BY <1>1, <1>4, <2>1 DEF NumbersOK
  <2>3. ASSUME NEW i \in Jobs PROVE jobs'[i].socket \in 0 .. sockets'
    <3>1. CASE i = j
      BY <3>1, <1>3
    <3>2. CASE i # j
      <4>1. jobs'[i] = jobs[i] /\ jobs[i].socket \in 0 .. sockets /\ sockets \in Nat
        BY <3>2, <1>1, <1>3, JobTypes DEF NumbersOK
      <4>2. jobs[i].socket \in 0 .. sockets'
        BY <4>1, Wider
      <4> QED
        BY <4>1, <4>2
    <3> QED
      BY <3>1, <3>2
  <2> QED
    BY <2>1, <2>2, <2>3 DEF NumbersOK
<1>6. OneJob'
  BY <1>1, <1>3 DEF OneJob
<1>7. RequestsOK'
  <2>1. ASSUME NEW r \in net, r.by # NoJob PROVE jobs'[r.by] = jobs[r.by]
    BY <1>2, <1>3, <2>1, RequestTypes
  <2>2. CASE net' = net
    BY <2>1, <2>2, <1>1 DEF RequestsOK
  <2>3. ASSUME NEW r, net' = net \cup {r}, r.by = j, s.answer = NoAnswer,
               \/ r.kind = "connect" /\ s.at = "connecting" /\ r.session = s.resume
               \/ r.kind = "disconnect" /\ s.at \in {"leaving", "giving up"}
        PROVE  RequestsOK'
    <3>1. ASSUME NEW q \in net', q.by # NoJob
          PROVE  /\ jobs'[q.by].answer = NoAnswer
                 /\ q.kind = "connect" =>
                       jobs'[q.by].at = "connecting" /\ q.session = jobs'[q.by].resume
                 /\ q.kind = "disconnect" => jobs'[q.by].at \in {"leaving", "giving up"}
      <4>1. CASE q = r
        BY <4>1, <2>3, <1>3
      <4>2. CASE q \in net
        BY <4>2, <3>1, <2>1, <1>1 DEF RequestsOK
      <4> QED
        BY <4>1, <4>2, <2>3
    <3>2. ASSUME NEW p \in net', NEW q \in net', p.by # NoJob, p.by = q.by PROVE p = q
      BY <3>2, <2>3, <1>1, <1>2 DEF RequestsOK
    <3> QED
      BY <3>1, <3>2 DEF RequestsOK
  <2> QED
    BY <2>2, <2>3
<1>8. GrantsOK'
  <2>1. NoAnswer.code = "none"
    BY DEF NoAnswer
  <2>2. ASSUME NEW i \in Jobs
        PROVE  /\ jobs'[i].at \notin {"connecting", "leaving", "giving up"} =>
                     jobs'[i].answer = NoAnswer
               /\ jobs'[i].at = "connecting" /\ jobs'[i].answer.code = "ok" =>
                     jobs'[i].answer.session # NoSession
               /\ jobs'[i].at = "playing" => jobs'[i].session # NoSession
    <3>1. CASE i = j
      BY <3>1, <2>1, <1>3
    <3>2. CASE i # j
      BY <3>2, <1>1, <1>3 DEF GrantsOK
    <3> QED
      BY <3>1, <3>2
  <2> QED
    BY <2>2 DEF GrantsOK
<1>9. SessionsApart'
  <2>1. \A i \in Jobs : KnownTo(i)' \subseteq KnownTo(i) \cup {NoSession}
    BY <1>4
  <2> QED
    BY <2>1, <1>1 DEF SessionsApart
<1>10. ASSUME NEW r \in net, r.kind = "disconnect"
       PROVE  /\ r.session # NoSession
              /\ \A i \in Jobs : jobs'[i].at \in Active /\ ~jobs'[i].cancelled =>
                    r.session \notin KnownTo(i)'
  <2>1. r.session # NoSession
    BY <1>1, <1>10 DEF GivenBack
  <2>2. ASSUME NEW i \in Jobs, jobs'[i].at \in Active, ~jobs'[i].cancelled
        PROVE  r.session \notin KnownTo(i)'
    <3>1. CASE i = j
      <4>1. jobs[j].at \in Active /\ ~jobs[j].cancelled
        BY <3>1, <2>2, <1>3 DEF Active
      <4>2. r.session \notin KnownTo(j)
        BY <4>1, <1>1, <1>10 DEF GivenBack
      <4> QED
        BY <3>1, <4>2, <2>1, <1>4
    <3>2. CASE i # j
      <4>1. jobs[i].at \in Active /\ ~jobs[i].cancelled /\ KnownTo(i)' = KnownTo(i)
        BY <3>2, <2>2, <1>3, <1>4
      <4>2. r.session \notin KnownTo(i)
        BY <4>1, <1>1, <1>10 DEF GivenBack
      <4> QED
        BY <4>1, <4>2
    <3> QED
      BY <3>1, <3>2
  <2> QED
    BY <2>1, <2>2
<1>11. ASSUME NEW r, r.kind = "disconnect", s.at \in {"leaving", "giving up"},
              r.session \in KnownTo(j) \ {NoSession}
       PROVE  \A i \in Jobs : jobs'[i].at \in Active => r.session \notin KnownTo(i)'
  <2> SUFFICES ASSUME NEW i \in Jobs, jobs'[i].at \in Active
               PROVE  r.session \notin KnownTo(i)'
    OBVIOUS
  <2>1. i # j
    BY <1>3, <1>11 DEF Active
  <2>2. KnownTo(i)' = KnownTo(i)
    BY <2>1, <1>4
  <2>3. KnownTo(i) \cap KnownTo(j) \subseteq {NoSession}
    BY <2>1, <1>1 DEF SessionsApart
  <2> QED
    BY <2>2, <2>3, <1>11
<1>12. GivenBack'
  BY <1>10, <1>11 DEF GivenBack
<1> QED
  BY <1>5, <1>6, <1>7, <1>8, <1>9, <1>12

\* What a step of a job may do to the rest.
KeepsService ==
    /\ UNCHANGED <<lease, sessions, pinValid, alive, waiting, command, job, said, commands>>
    /\ sockets' \in Nat /\ sockets <= sockets'
    /\ messages' \in Seq({"connect", "disconnect", "destroy"})
    /\ listening' \in BOOLEAN /\ (listening' => listening)
    /\ ui' \in {"idle", "connecting", "playing", "reconnecting", "failed"}
    /\ failures' \in 0 .. MaxFailures

\* The job goes on in state s, and knows no new session.
GoesOn(j, s) ==
    /\ s \in Job /\ jobs' = [jobs EXCEPT ![j] = s]
    /\ jobs[j].at # "none"
    /\ jobs[j].at \notin {"connecting", "leaving", "giving up"} \/ jobs[j].answer # NoAnswer
    /\ {s.session, s.resume, s.answer.session} \subseteq KnownTo(j) \cup {NoSession}
    /\ s.socket \in 0 .. sockets'
    /\ s.at = "none" \/ s.cancelled = jobs[j].cancelled
    /\ s.at \in Active => jobs[j].at \in Active
    /\ s.answer = NoAnswer \/ s.at = "giving up"
    /\ s.at = "playing" => s.session # NoSession

\* It sends one request at most, as RequestsOK has it.
Asks(j, s) ==
    \/ net' = net
    \/ \E kind \in {"connect", "disconnect"}, x \in KnownTo(j) \cup {NoSession},
          y \in 0 .. sockets' :
          /\ net' = net \cup {Request(j, kind, x, y)} /\ s.answer = NoAnswer
          /\ \/ kind = "connect" /\ s.at = "connecting" /\ x = s.resume
             \/ /\ kind = "disconnect" /\ s.at \in {"leaving", "giving up"}
                /\ x \in KnownTo(j) \ {NoSession}

\* A step of a job that goes on, and asks, as above keeps the invariant.
LEMMA JobKeeps ==
  ASSUME PhoneInv, NEW j \in Jobs, NEW s, KeepsService, GoesOn(j, s), Asks(j, s)
  PROVE  PhoneInv'
<1>1. (NumbersOK /\ OneJob /\ RequestsOK /\ GrantsOK /\ SessionsApart /\ GivenBack)'
  <2>1. /\ s \in Job /\ jobs' = [jobs EXCEPT ![j] = s] /\ UNCHANGED <<sessions, alive, job>>
        /\ sockets' \in Nat /\ sockets <= sockets'
        /\ jobs[j].at # "none"
        /\ jobs[j].at \notin {"connecting", "leaving", "giving up"} \/ jobs[j].answer # NoAnswer
        /\ {s.session, s.resume, s.answer.session} \subseteq KnownTo(j) \cup {NoSession}
        /\ s.socket \in 0 .. sockets'
        /\ s.at = "none" \/ s.cancelled = jobs[j].cancelled
        /\ s.at \in Active => jobs[j].at \in Active
        /\ s.answer = NoAnswer \/ s.at = "giving up"
        /\ s.at = "playing" => s.session # NoSession
    BY DEF GoesOn, KeepsService
  <2>2. \/ net' = net
        \/ \E r : /\ net' = net \cup {r} /\ r.by = j /\ s.answer = NoAnswer
                  /\ \/ r.kind = "connect" /\ s.at = "connecting" /\ r.session = s.resume
                     \/ /\ r.kind = "disconnect" /\ s.at \in {"leaving", "giving up"}
                        /\ r.session \in KnownTo(j) \ {NoSession}
    <3>1. \A kind, x, y : /\ Request(j, kind, x, y).by = j
                          /\ Request(j, kind, x, y).kind = kind
                          /\ Request(j, kind, x, y).session = x
      BY DEF Request
    <3>2. CASE net' = net
      BY <3>2
    <3>3. ASSUME NEW kind \in {"connect", "disconnect"}, NEW x \in KnownTo(j) \cup {NoSession},
                 NEW y \in 0 .. sockets',
                 net' = net \cup {Request(j, kind, x, y)}, s.answer = NoAnswer,
                 \/ kind = "connect" /\ s.at = "connecting" /\ x = s.resume
                 \/ /\ kind = "disconnect" /\ s.at \in {"leaving", "giving up"}
                    /\ x \in KnownTo(j) \ {NoSession}
          PROVE  \E r : /\ net' = net \cup {r} /\ r.by = j /\ s.answer = NoAnswer
                        /\ \/ r.kind = "connect" /\ s.at = "connecting" /\ r.session = s.resume
                           \/ /\ r.kind = "disconnect" /\ s.at \in {"leaving", "giving up"}
                              /\ r.session \in KnownTo(j) \ {NoSession}
      <4> DEFINE r == Request(j, kind, x, y)
      <4>1. r.by = j /\ r.kind = kind /\ r.session = x
        BY <3>1
      <4>2. net' = net \cup {r}
        BY <3>3
      <4> HIDE DEF r
      <4> QED
        BY <4>1, <4>2, <3>3
    <3> QED
      BY <3>2, <3>3 DEF Asks
  <2> QED
    BY <2>1, <2>2, JobStep
<1>2. PhoneTypeOK'
  <2>1. PhoneTypeOK /\ NumbersOK
    BY DEF PhoneInv
  <2>2. \A k \in 0 .. sockets : k \in 0 .. sockets'
    BY <2>1, Wider DEF PhoneTypeOK, KeepsService
  <2>3. lease' \in [holder : {"none", "phone", "other"}, session : 0 .. sessions',
                    socket : 0 .. sockets']
    BY <2>1, <2>2 DEF PhoneTypeOK, KeepsService
  <2>4. jobs' \in [Jobs -> Job]
    BY <2>1 DEF PhoneTypeOK, GoesOn
  <2>5. net' \subseteq [kind : {"connect", "disconnect"}, session : 0 .. sessions',
                        socket : 0 .. sockets', by : Jobs \cup {NoJob}]
    <3>1. net \subseteq [kind : {"connect", "disconnect"}, session : 0 .. sessions',
                         socket : 0 .. sockets', by : Jobs \cup {NoJob}]
      BY <2>1, <2>2 DEF PhoneTypeOK, KeepsService
    <3>2. KnownTo(j) \cup {NoSession} \subseteq 0 .. sessions'
      BY <2>1, JobTypes DEF NumbersOK, KeepsService
    <3> QED
      <4> SUFFICES ASSUME NEW r \in net'
                   PROVE  r \in [kind : {"connect", "disconnect"}, session : 0 .. sessions',
                                 socket : 0 .. sockets', by : Jobs \cup {NoJob}]
        OBVIOUS
      <4>1. CASE r \in net
        BY <4>1, <3>1
      <4>2. ASSUME NEW kind \in {"connect", "disconnect"},
                   NEW x \in KnownTo(j) \cup {NoSession}, NEW y \in 0 .. sockets',
                   r = Request(j, kind, x, y)
            PROVE  r \in [kind : {"connect", "disconnect"}, session : 0 .. sessions',
                          socket : 0 .. sockets', by : Jobs \cup {NoJob}]
        <5>1. x \in 0 .. sessions'
          BY <3>2
        <5> QED
          BY <5>1, <4>2 DEF Request
      <4> QED
        <5>1. CASE net' = net
          BY <5>1, <4>1
        <5>2. ASSUME NEW kind \in {"connect", "disconnect"},
                     NEW x \in KnownTo(j) \cup {NoSession}, NEW y \in 0 .. sockets',
                     net' = net \cup {Request(j, kind, x, y)}
              PROVE  r \in net \/ r = Request(j, kind, x, y)
          BY <5>2
        <5> QED
          BY <5>1, <5>2, <4>1, <4>2 DEF Asks
  <2> QED
    BY <2>1, <2>3, <2>4, <2>5 DEF PhoneTypeOK, KeepsService
<1>3. AliveOK'
  BY DEF PhoneInv, AliveOK, KeepsService
<1> QED
  BY <1>1, <1>2, <1>3 DEF PhoneInv

\* The parts of a job.
LEMMA JobFields ==
  ASSUME PhoneInv, NEW j \in Jobs
  PROVE  /\ jobs[j].at \in {"none", "attempt", "connecting", "playing", "failed", "waiting",
                            "leaving", "giving up", "stopping"}
         /\ jobs[j].cancelled \in BOOLEAN
         /\ jobs[j].session \in 0 .. sessions /\ jobs[j].resume \in 0 .. sessions
         /\ jobs[j].answer.session \in 0 .. sessions /\ jobs[j].socket \in 0 .. sockets
         /\ jobs[j].session \in Nat /\ jobs[j].resume \in Nat /\ jobs[j].socket \in Nat
         /\ jobs[j].answer \in [code : {"none", "ok", "refused", "failed"}, session : Nat]
         /\ jobs[j] = [at |-> jobs[j].at, socket |-> jobs[j].socket,
                       session |-> jobs[j].session, resume |-> jobs[j].resume,
                       cancelled |-> jobs[j].cancelled, answer |-> jobs[j].answer]
<1>1. jobs[j] \in Job
  BY JobTypes
<1>2. KnownTo(j) \subseteq 0 .. sessions /\ jobs[j].socket \in 0 .. sockets
  BY DEF PhoneInv, NumbersOK
<1>3. /\ jobs[j].session \in 0 .. sessions /\ jobs[j].resume \in 0 .. sessions
      /\ jobs[j].answer.session \in 0 .. sessions
  BY <1>2 DEF KnownTo
<1> QED
  BY <1>1, <1>2, <1>3 DEF Job

\* The parts of no answer.
LEMMA NoAnswerFields ==
  NoAnswer.code = "none" /\ NoAnswer.session = NoSession /\ NoSession = 0
  /\ NoAnswer \in [code : {"none", "ok", "refused", "failed"}, session : Nat]
BY DEF NoAnswer, NoSession

\* What Others means for the service.
LEMMA ServiceStays ==
  ASSUME PhoneInv, Others, sockets' \in {sockets, sockets + 1},
         ui' = ui \/ ui' \in {"idle", "connecting", "playing", "reconnecting", "failed"}
  PROVE  KeepsService
<1>1. sockets' \in Nat /\ sockets <= sockets'
  BY JobTypes
<1> QED
  BY <1>1 DEF PhoneInv, PhoneTypeOK, KeepsService, Others, deskVars, serviceVars, boundVars

\* The coroutine ends.
LEMMA EndKeeps ==
  ASSUME PhoneInv, NEW j \in Jobs, KeepsService, Goes(j, Ended), jobs[j].at # "none",
         jobs[j].at \notin {"connecting", "leaving", "giving up"} \/ jobs[j].answer # NoAnswer
  PROVE  PhoneInv'
<1>1. /\ Ended.at = "none" /\ Ended.socket = 0 /\ Ended.session = NoSession
      /\ Ended.resume = NoSession /\ Ended.answer = NoAnswer
  BY DEF Ended, NewJob, NoSocket
<1>2. Ended \in Job
  BY NoAnswerFields DEF Ended, NewJob, NoSocket, Job
<1>3. 0 \in 0 .. sockets'
  <2>1. sockets' \in Nat
    BY DEF KeepsService
  <2> QED
    BY <2>1, Zero
<1>4. GoesOn(j, Ended)
  BY <1>1, <1>2, <1>3, NoAnswerFields DEF GoesOn, Goes, Active
<1>5. Asks(j, Ended)
  BY DEF Goes, Asks
<1> QED
  BY <1>4, <1>5, JobKeeps

\* The coroutine goes on to another step, its answer read.
LEMMA MoveKeeps ==
  ASSUME PhoneInv, NEW j \in Jobs, NEW at, KeepsService,
         Goes(j, [jobs[j] EXCEPT !.at = at, !.answer = NoAnswer]),
         jobs[j].at # "none",
         jobs[j].at \notin {"connecting", "leaving", "giving up"} \/ jobs[j].answer # NoAnswer,
         at \in {"attempt", "failed", "waiting", "stopping"},
         at = "stopping" \/ jobs[j].at \in Active
  PROVE  PhoneInv'
<1> DEFINE s == [jobs[j] EXCEPT !.at = at, !.answer = NoAnswer]
<1>1. /\ s.at = at /\ s.socket = jobs[j].socket /\ s.session = jobs[j].session
      /\ s.resume = jobs[j].resume /\ s.answer = NoAnswer /\ s.cancelled = jobs[j].cancelled
  BY JobTypes DEF Job
<1>2. s \in Job
  BY JobTypes, NoAnswerFields DEF Job
<1>3. jobs' = [jobs EXCEPT ![j] = s] /\ net' = net
  BY DEF Goes
<1> HIDE DEF s
<1>4. s.socket \in 0 .. sockets'
  BY <1>1, Wider, JobFields, JobTypes DEF KeepsService
<1>5. {s.session, s.resume, s.answer.session} \subseteq KnownTo(j) \cup {NoSession}
  BY <1>1, NoAnswerFields DEF KnownTo
<1>6. GoesOn(j, s)
  BY <1>1, <1>2, <1>3, <1>4, <1>5 DEF GoesOn, Active
<1>7. Asks(j, s)
  BY <1>3 DEF Asks
<1> QED
  BY <1>6, <1>7, JobKeeps

\* The coroutine goes on where it waits for no answer.
LEMMA StepKeeps ==
  ASSUME PhoneInv, NEW j \in Jobs, NEW at, KeepsService,
         Goes(j, [jobs[j] EXCEPT !.at = at]), jobs[j].answer = NoAnswer,
         jobs[j].at \in Active \ {"connecting"}, at \in {"attempt", "failed", "waiting"}
  PROVE  PhoneInv'
<1>1. [jobs[j] EXCEPT !.at = at] = [jobs[j] EXCEPT !.at = at, !.answer = NoAnswer]
  BY JobTypes DEF Job
<1>2. Goes(j, [jobs[j] EXCEPT !.at = at, !.answer = NoAnswer])
  BY <1>1
<1> QED
  BY <1>2, MoveKeeps DEF Active

\* Commands and failures are counted up to their bounds.
LEMMA Counted ==
  ASSUME PhoneInv
  PROVE  /\ failures < MaxFailures /\ failures' = failures + 1 => failures' \in 0 .. MaxFailures
         /\ commands < MaxCommands /\ commands' = commands + 1 => commands' \in 0 .. MaxCommands
<1>1. failures \in 0 .. MaxFailures /\ commands \in 0 .. MaxCommands
  BY DEF PhoneInv, PhoneTypeOK
<1> QED
  BY <1>1, PhoneAssumption DEF PhoneAssumption

\* An attempt asks with the session it would resume.
LEMMA AttemptKeeps ==
  ASSUME PhoneInv, NEW j \in Jobs, Attempt(j)
  PROVE  PhoneInv'
<1>1. jobs[j].at = "attempt" /\ jobs[j].answer = NoAnswer
  BY DEF Attempt, PhoneInv, GrantsOK
<1>2. KeepsService
  <2>1. sockets' \in {sockets, sockets + 1} /\ ui' = ui /\ Others
    BY DEF Attempt
  <2> QED
    BY <2>1, ServiceStays
<1>3. CASE jobs[j].cancelled
  <2>1. Goes(j, Ended)
    BY <1>3 DEF Attempt
  <2> QED
    BY <2>1, <1>1, <1>2, EndKeeps
<1>4. CASE ~jobs[j].cancelled
  <2> DEFINE s == [jobs[j] EXCEPT !.at = "connecting", !.socket = sockets', !.session = NoSession]
  <2>1. /\ s.at = "connecting" /\ s.socket = sockets' /\ s.session = NoSession
        /\ s.resume = jobs[j].resume /\ s.answer = NoAnswer /\ s.cancelled = jobs[j].cancelled
    BY <1>1, JobTypes DEF Job
  <2>2. s \in Job
    BY <1>2, JobTypes, NoAnswerFields DEF Job, KeepsService
  <2>3. /\ jobs' = [jobs EXCEPT ![j] = s]
        /\ net' = net \cup {Request(j, "connect", jobs[j].resume, sockets')}
    BY <1>4 DEF Attempt, Sends
  <2> HIDE DEF s
  <2>4. s.socket \in 0 .. sockets'
    BY <1>2, <2>1 DEF KeepsService
  <2>5. {s.session, s.resume, s.answer.session} \subseteq KnownTo(j) \cup {NoSession}
    BY <2>1, NoAnswerFields DEF KnownTo
  <2>6. GoesOn(j, s)
    BY <1>1, <2>1, <2>2, <2>3, <2>4, <2>5 DEF GoesOn, Active
  <2>7. sockets' \in 0 .. sockets' /\ jobs[j].resume \in KnownTo(j) \cup {NoSession}
    BY <2>1, <2>4 DEF KnownTo
  <2>8. Asks(j, s)
    BY <2>1, <2>3, <2>7 DEF Asks
  <2> QED
    BY <1>2, <2>6, <2>8, JobKeeps
<1> QED
  BY <1>3, <1>4

\* The session granted becomes the job's.
LEMMA ConnectedKeeps ==
  ASSUME PhoneInv, NEW j \in Jobs, Connected(j)
  PROVE  PhoneInv'
<1>1. jobs[j].at = "connecting" /\ jobs[j].answer.code = "ok"
  BY DEF Connected
<1>2. jobs[j].answer.session # NoSession /\ jobs[j].answer # NoAnswer
  BY <1>1, NoAnswerFields DEF PhoneInv, GrantsOK
<1>3. KeepsService
  <2>1. sockets' = sockets /\ ui' = ui /\ Others
    BY DEF Connected
  <2> QED
    BY <2>1, ServiceStays
<1> DEFINE s == [jobs[j] EXCEPT !.at = "playing", !.session = jobs[j].answer.session,
                                !.resume = jobs[j].answer.session, !.answer = NoAnswer]
<1>4. /\ s.at = "playing" /\ s.socket = jobs[j].socket /\ s.session = jobs[j].answer.session
      /\ s.resume = jobs[j].answer.session /\ s.answer = NoAnswer
      /\ s.cancelled = jobs[j].cancelled
  BY JobTypes DEF Job
<1>5. s \in Job
  BY JobFields, JobTypes, NoAnswerFields DEF Job
<1>6. jobs' = [jobs EXCEPT ![j] = s] /\ net' = net
  BY DEF Connected, Goes
<1> HIDE DEF s
<1>7. s.socket \in 0 .. sockets'
  BY <1>3, <1>4, Wider, JobFields, JobTypes DEF KeepsService
<1>8. {s.session, s.resume, s.answer.session} \subseteq KnownTo(j) \cup {NoSession}
  BY <1>4, NoAnswerFields DEF KnownTo
<1>9. GoesOn(j, s)
  BY <1>1, <1>2, <1>4, <1>5, <1>6, <1>7, <1>8 DEF GoesOn, Active
<1>10. Asks(j, s)
  BY <1>6 DEF Asks
<1> QED
  BY <1>3, <1>9, <1>10, JobKeeps

\* The session of a cancelled playback is given back.
LEMMA LeavesKeeps ==
  ASSUME PhoneInv, NEW j \in Jobs, Leaves(j)
  PROVE  PhoneInv'
<1>1. jobs[j].at = "playing" /\ jobs[j].answer = NoAnswer /\ jobs[j].session # NoSession
  BY DEF Leaves, PhoneInv, GrantsOK
<1>2. KeepsService
  <2>1. sockets' = sockets /\ ui' = ui /\ Others
    BY DEF Leaves
  <2> QED
    BY <2>1, ServiceStays
<1> DEFINE s == [jobs[j] EXCEPT !.at = "leaving"]
<1>3. /\ s.at = "leaving" /\ s.socket = jobs[j].socket /\ s.session = jobs[j].session
      /\ s.resume = jobs[j].resume /\ s.answer = NoAnswer /\ s.cancelled = jobs[j].cancelled
  BY <1>1, JobTypes DEF Job
<1>4. s \in Job
  BY JobTypes DEF Job
<1>5. /\ jobs' = [jobs EXCEPT ![j] = s]
      /\ net' = net \cup {Request(j, "disconnect", jobs[j].session, NoSocket)}
  BY DEF Leaves, Sends
<1> HIDE DEF s
<1>6. s.socket \in 0 .. sockets'
  BY <1>2, <1>3, Wider, JobFields, JobTypes DEF KeepsService
<1>7. {s.session, s.resume, s.answer.session} \subseteq KnownTo(j) \cup {NoSession}
  BY <1>3, NoAnswerFields DEF KnownTo
<1>8. GoesOn(j, s)
  BY <1>1, <1>3, <1>4, <1>5, <1>6, <1>7 DEF GoesOn, Active
<1>9. NoSocket \in 0 .. sockets'
  BY <1>2, Zero DEF KeepsService, NoSocket
<1>10. jobs[j].session \in KnownTo(j) \ {NoSession}
  BY <1>1 DEF KnownTo
<1>11. Asks(j, s)
  BY <1>3, <1>5, <1>9, <1>10 DEF Asks
<1> QED
  BY <1>2, <1>8, <1>11, JobKeeps

\* A session whose audio cannot be played is given back.
LEMMA IncompatibleKeeps ==
  ASSUME PhoneInv, NEW j \in Jobs, Incompatible(j)
  PROVE  PhoneInv'
<1>1. jobs[j].at = "connecting" /\ jobs[j].answer.code = "ok"
  BY DEF Incompatible
<1>2. jobs[j].answer.session # NoSession /\ jobs[j].answer # NoAnswer
  BY <1>1, NoAnswerFields DEF PhoneInv, GrantsOK
<1>3. KeepsService
  <2>1. sockets' = sockets /\ ui' = ui /\ Others
    BY DEF Incompatible
  <2> QED
    BY <2>1, ServiceStays
<1> DEFINE granted == jobs[j].answer.session
           s == [jobs[j] EXCEPT !.at = "giving up", !.session = granted,
                                !.resume = granted, !.answer = NoAnswer]
<1>4. /\ s.at = "giving up" /\ s.socket = jobs[j].socket /\ s.session = granted
      /\ s.resume = granted /\ s.answer = NoAnswer /\ s.cancelled = jobs[j].cancelled
  BY JobTypes DEF Job
<1>5. s \in Job
  BY JobFields, JobTypes, NoAnswerFields DEF Job
<1>6. /\ jobs' = [jobs EXCEPT ![j] = s]
      /\ net' = net \cup {Request(j, "disconnect", granted, NoSocket)}
  BY DEF Incompatible, Sends
<1>7. granted \in KnownTo(j) \ {NoSession}
  BY <1>2 DEF KnownTo
<1> HIDE DEF s, granted
<1>8. s.socket \in 0 .. sockets'
  BY <1>3, <1>4, Wider, JobFields, JobTypes DEF KeepsService
<1>9. {s.session, s.resume, s.answer.session} \subseteq KnownTo(j) \cup {NoSession}
  BY <1>4, <1>7, NoAnswerFields
<1>10. GoesOn(j, s)
  BY <1>1, <1>2, <1>4, <1>5, <1>6, <1>8, <1>9 DEF GoesOn, Active
<1>11. NoSocket \in 0 .. sockets'
  BY <1>3, Zero DEF KeepsService, NoSocket
<1>12. Asks(j, s)
  BY <1>4, <1>6, <1>7, <1>11 DEF Asks
<1> QED
  BY <1>3, <1>10, <1>12, JobKeeps

\* A refused job gives back the session it would have resumed.
LEMMA RefusedKeeps ==
  ASSUME PhoneInv, NEW j \in Jobs, Refused(j)
  PROVE  PhoneInv'
<1>1. /\ jobs[j].at = "connecting" /\ jobs[j].answer.code = "refused"
      /\ jobs[j].answer # NoAnswer
  BY NoAnswerFields DEF Refused
<1>2. KeepsService
  <2>1. sockets' = sockets /\ ui' = ui /\ Others
    BY DEF Refused
  <2> QED
    BY <2>1, ServiceStays
<1>3. CASE jobs[j].resume = NoSession
  <2> DEFINE s == [jobs[j] EXCEPT !.at = "giving up"]
  <2>1. /\ s.at = "giving up" /\ s.socket = jobs[j].socket /\ s.session = jobs[j].session
        /\ s.resume = jobs[j].resume /\ s.answer = jobs[j].answer
        /\ s.cancelled = jobs[j].cancelled
    BY JobTypes DEF Job
  <2>2. s \in Job
    BY JobTypes DEF Job
  <2>3. jobs' = [jobs EXCEPT ![j] = s] /\ net' = net
    BY <1>3 DEF Refused, Goes
  <2> HIDE DEF s
  <2>4. s.socket \in 0 .. sockets'
    BY <1>2, <2>1, Wider, JobFields, JobTypes DEF KeepsService
  <2>5. {s.session, s.resume, s.answer.session} \subseteq KnownTo(j) \cup {NoSession}
    BY <2>1 DEF KnownTo
  <2>6. GoesOn(j, s)
    BY <1>1, <2>1, <2>2, <2>3, <2>4, <2>5 DEF GoesOn, Active
  <2>7. Asks(j, s)
    BY <2>3 DEF Asks
  <2> QED
    BY <1>2, <2>6, <2>7, JobKeeps
<1>4. CASE jobs[j].resume # NoSession
  <2> DEFINE s == [jobs[j] EXCEPT !.at = "giving up", !.answer = NoAnswer]
  <2>1. /\ s.at = "giving up" /\ s.socket = jobs[j].socket /\ s.session = jobs[j].session
        /\ s.resume = jobs[j].resume /\ s.answer = NoAnswer
        /\ s.cancelled = jobs[j].cancelled
    BY JobTypes DEF Job
  <2>2. s \in Job
    BY JobTypes, NoAnswerFields DEF Job
  <2>3. /\ jobs' = [jobs EXCEPT ![j] = s]
        /\ net' = net \cup {Request(j, "disconnect", jobs[j].resume, NoSocket)}
    BY <1>4 DEF Refused, Sends
  <2> HIDE DEF s
  <2>4. s.socket \in 0 .. sockets'
    BY <1>2, <2>1, Wider, JobFields, JobTypes DEF KeepsService
  <2>5. {s.session, s.resume, s.answer.session} \subseteq KnownTo(j) \cup {NoSession}
    BY <2>1, NoAnswerFields DEF KnownTo
  <2>6. GoesOn(j, s)
    BY <1>1, <2>1, <2>2, <2>3, <2>4, <2>5 DEF GoesOn, Active
  <2>7. NoSocket \in 0 .. sockets'
    BY <1>2, Zero DEF KeepsService, NoSocket
  <2>8. jobs[j].resume \in KnownTo(j) \ {NoSession}
    BY <1>4 DEF KnownTo
  <2>9. Asks(j, s)
    BY <2>1, <2>3, <2>7, <2>8 DEF Asks
  <2> QED
    BY <1>2, <2>6, <2>9, JobKeeps
<1> QED
  BY <1>3, <1>4

\* A cancelled job has given its session back.
LEMMA LeftKeeps ==
  ASSUME PhoneInv, NEW j \in Jobs, Left(j)
  PROVE  PhoneInv'
<1>1. jobs[j].at = "leaving" /\ jobs[j].answer # NoAnswer /\ Goes(j, Ended)
  BY DEF Left, Answered
<1>2. sockets' = sockets /\ ui' = ui /\ Others
  BY DEF Left
<1>3. KeepsService
  BY <1>2, ServiceStays
<1> QED
  BY <1>1, <1>3, EndKeeps

\* Android will be told once that the instance is to go.
LEMMA StopSelfTypes ==
  ASSUME PhoneInv, StopSelf
  PROVE  messages' \in Seq({"connect", "disconnect", "destroy"})
<1> DEFINE M == {"connect", "disconnect", "destroy"}
<1>1. messages \in Seq(M) /\ "destroy" \in M
  BY DEF PhoneInv, PhoneTypeOK
<1>2. messages' = messages \/ messages' = Append(messages, "destroy")
  BY DEF StopSelf
<1> HIDE DEF M
<1>3. messages' \in Seq(M)
  BY <1>1, <1>2
<1> QED
  BY <1>3 DEF M

\* failAndStop begins.
LEMMA GivesUpKeeps ==
  ASSUME PhoneInv, NEW j \in Jobs, GivesUp(j)
  PROVE  PhoneInv'
<1>1. /\ jobs[j].at = "giving up" /\ jobs[j].answer # NoAnswer
      /\ Goes(j, [jobs[j] EXCEPT !.at = "stopping", !.answer = NoAnswer])
  BY DEF GivesUp, Answered
<1>2. sockets' \in Nat /\ sockets <= sockets'
  <2>1. sockets' = sockets /\ sockets \in Nat
    BY JobTypes DEF GivesUp
  <2> QED
    BY <2>1
<1>3. listening' \in BOOLEAN /\ (listening' => listening)
  BY DEF GivesUp, PhoneInv, PhoneTypeOK
<1>4. KeepsService
  BY <1>2, <1>3 DEF GivesUp, KeepsService, PhoneInv, PhoneTypeOK, deskVars, boundVars
<1> QED
  BY <1>1, <1>4, MoveKeeps

\* failAndStop ends, and with it the job.
LEMMA GivenUpKeeps ==
  ASSUME PhoneInv, NEW j \in Jobs, GivenUp(j)
  PROVE  PhoneInv'
<1>1. jobs[j].at = "stopping" /\ Goes(j, Ended)
  BY DEF GivenUp
<1>2. sockets' \in Nat /\ sockets <= sockets'
  BY JobTypes DEF GivenUp
<1>3. messages' \in Seq({"connect", "disconnect", "destroy"})
  BY StopSelfTypes DEF GivenUp, PhoneInv, PhoneTypeOK
<1>4. KeepsService
  BY <1>2, <1>3 DEF GivenUp, KeepsService, PhoneInv, PhoneTypeOK, deskVars, boundVars
<1> QED
  BY <1>1, <1>4, EndKeeps

\* The stream is silent.
LEMMA StreamTimesOutKeeps ==
  ASSUME PhoneInv, NEW j \in Jobs, StreamTimesOut(j)
  PROVE  PhoneInv'
<1>1. jobs[j].at = "playing" /\ jobs[j].answer = NoAnswer
  BY DEF StreamTimesOut, PhoneInv, GrantsOK
<1>2. sockets' = sockets /\ ui' = ui /\ Others
  BY DEF StreamTimesOut
<1>3. KeepsService
  BY <1>2, ServiceStays
<1>4. Goes(j, [jobs[j] EXCEPT !.at = "failed"])
  BY DEF StreamTimesOut
<1> QED
  BY <1>1, <1>3, <1>4, StepKeeps DEF Active

\* The stream or its playback fails.
LEMMA StreamFailsKeeps ==
  ASSUME PhoneInv, NEW j \in Jobs, StreamFails(j)
  PROVE  PhoneInv'
<1>1. jobs[j].at = "playing" /\ jobs[j].answer = NoAnswer
  BY DEF StreamFails, PhoneInv, GrantsOK
<1>2. sockets' \in Nat /\ sockets <= sockets'
  BY JobTypes DEF StreamFails
<1>3. failures' \in 0 .. MaxFailures
  BY Counted DEF StreamFails
<1>4. KeepsService
  BY <1>2, <1>3 DEF StreamFails, KeepsService, PhoneInv, PhoneTypeOK, deskVars, serviceVars
<1>5. Goes(j, [jobs[j] EXCEPT !.at = "failed"])
  BY DEF StreamFails
<1> QED
  BY <1>1, <1>4, <1>5, StepKeeps DEF Active

\* The request for a lease fails.
LEMMA ConnectFailsKeeps ==
  ASSUME PhoneInv, NEW j \in Jobs, ConnectFails(j)
  PROVE  PhoneInv'
<1>1. /\ jobs[j].at = "connecting" /\ jobs[j].answer # NoAnswer
      /\ Goes(j, [jobs[j] EXCEPT !.at = "failed", !.answer = NoAnswer])
  BY NoAnswerFields DEF ConnectFails
<1>2. sockets' = sockets /\ ui' = ui /\ Others
  BY DEF ConnectFails
<1>3. KeepsService
  BY <1>2, ServiceStays
<1> QED
  BY <1>1, <1>3, MoveKeeps DEF Active

\* A failed attempt waits.
LEMMA WaitsKeeps ==
  ASSUME PhoneInv, NEW j \in Jobs, Waits(j)
  PROVE  PhoneInv'
<1>1. jobs[j].at = "failed" /\ jobs[j].answer = NoAnswer
  BY DEF Waits, PhoneInv, GrantsOK
<1>2. sockets' = sockets /\ ui' = "reconnecting" /\ Others
  BY DEF Waits
<1>3. KeepsService
  BY <1>2, ServiceStays
<1>4. Goes(j, [jobs[j] EXCEPT !.at = "waiting"])
  BY DEF Waits
<1> QED
  BY <1>1, <1>3, <1>4, StepKeeps DEF Active

\* The wait ends.
LEMMA RetriesKeeps ==
  ASSUME PhoneInv, NEW j \in Jobs, Retries(j)
  PROVE  PhoneInv'
<1>1. jobs[j].at = "waiting" /\ jobs[j].answer = NoAnswer
  BY DEF Retries, PhoneInv, GrantsOK
<1>2. sockets' = sockets /\ (ui' = ui \/ ui' = "connecting") /\ Others
  BY DEF Retries
<1>3. KeepsService
  BY <1>2, ServiceStays
<1>4. CASE jobs[j].cancelled
  <2>1. Goes(j, Ended)
    BY <1>4 DEF Retries
  <2> QED
    BY <1>1, <1>3, <2>1, EndKeeps
<1>5. CASE ~jobs[j].cancelled
  <2>1. Goes(j, [jobs[j] EXCEPT !.at = "attempt"])
    BY <1>5 DEF Retries
  <2> QED
    BY <1>1, <1>3, <2>1, StepKeeps DEF Active
<1> QED
  BY <1>4, <1>5

-----------------------------------------------------------------------------
(* Steps that leave the jobs and their requests alone.                     *)

\* What the jobs know is theirs whatever the desktop and the commands do.
LEMMA JobsStay ==
  ASSUME PhoneInv, UNCHANGED <<sessions, sockets, net, jobs>>
  PROVE  (NumbersOK /\ RequestsOK /\ GrantsOK /\ SessionsApart /\ GivenBack)'
<1>1. \A j \in Jobs : KnownTo(j)' = KnownTo(j)
  BY DEF KnownTo
<1>2. NumbersOK'
  BY <1>1 DEF PhoneInv, NumbersOK
<1>3. RequestsOK'
  BY DEF PhoneInv, RequestsOK
<1>4. GrantsOK'
  BY DEF PhoneInv, GrantsOK
<1>5. SessionsApart'
  BY <1>1 DEF PhoneInv, SessionsApart
<1>6. GivenBack'
  BY <1>1 DEF PhoneInv, GivenBack
<1> QED
  BY <1>2, <1>3, <1>4, <1>5, <1>6

\* What the desktop does of its own changes nothing the jobs know.
LEMMA DesktopKeeps ==
  ASSUME PhoneInv, Lapse \/ LeaseLost \/ OtherPhone \/ PinChanges
  PROVE  PhoneInv'
<1>1. UNCHANGED <<sessions, net, sockets, serviceVars, jobs, ui, said, commands>>
  BY DEF Lapse, LeaseLost, OtherPhone, PinChanges, deskVars, boundVars
<1>2. UNCHANGED <<messages, alive, waiting, command, job, listening>>
  BY <1>1 DEF serviceVars
<1>3. (NumbersOK /\ RequestsOK /\ GrantsOK /\ SessionsApart /\ GivenBack)'
  BY <1>1, <1>2, JobsStay
<1>4. OneJob' /\ AliveOK'
  BY <1>1, <1>2 DEF PhoneInv, OneJob, AliveOK
<1>5. failures' \in 0 .. MaxFailures /\ pinValid' \in BOOLEAN
  BY Counted DEF Lapse, LeaseLost, OtherPhone, PinChanges, PhoneInv, PhoneTypeOK, boundVars
<1>6. lease' \in [holder : {"none", "phone", "other"}, session : 0 .. sessions,
                  socket : 0 .. sockets]
  <2>1. 0 \in 0 .. sessions /\ 0 \in 0 .. sockets
    BY Zero, JobTypes
  <2>2. lease' \in {lease, NoLease, [NoLease EXCEPT !.holder = "other"]}
    BY DEF Lapse, LeaseLost, OtherPhone, PinChanges
  <2> QED
    BY <2>1, <2>2 DEF NoLease, NoSession, NoSocket, PhoneInv, PhoneTypeOK
<1>7. PhoneTypeOK'
  BY <1>1, <1>2, <1>5, <1>6 DEF PhoneInv, PhoneTypeOK
<1> QED
  BY <1>3, <1>4, <1>7 DEF PhoneInv

\* The stream is heard.
LEMMA PlaysKeeps ==
  ASSUME PhoneInv, NEW j \in Jobs, Plays(j)
  PROVE  PhoneInv'
<1>1. UNCHANGED <<lease, sessions, pinValid, net, sockets, messages, alive, waiting, command,
                  job, listening, jobs, said, commands, failures>> /\ ui' = "playing"
  BY DEF Plays, Others, deskVars, serviceVars, boundVars
<1>2. (NumbersOK /\ RequestsOK /\ GrantsOK /\ SessionsApart /\ GivenBack)'
  BY <1>1, JobsStay
<1>3. OneJob' /\ AliveOK'
  BY <1>1 DEF PhoneInv, OneJob, AliveOK
<1>4. PhoneTypeOK'
  BY <1>1 DEF PhoneInv, PhoneTypeOK
<1> QED
  BY <1>2, <1>3, <1>4 DEF PhoneInv

\* A button is clicked.
LEMMA ClickKeeps ==
  ASSUME PhoneInv, NEW kind \in {"connect", "disconnect"}, Click(kind)
  PROVE  PhoneInv'
<1>1. UNCHANGED <<lease, sessions, pinValid, net, sockets, alive, waiting, command, job,
                  listening, jobs, ui, failures>> /\ said' = kind
  BY DEF Click, deskVars
<1>2. (NumbersOK /\ RequestsOK /\ GrantsOK /\ SessionsApart /\ GivenBack)'
  BY <1>1, JobsStay
<1>3. OneJob' /\ AliveOK'
  BY <1>1 DEF PhoneInv, OneJob, AliveOK
<1>4. messages' \in Seq({"connect", "disconnect", "destroy"})
  <2> DEFINE M == {"connect", "disconnect", "destroy"}
  <2>1. messages \in Seq(M) /\ kind \in M /\ messages' = Append(messages, kind)
    BY DEF PhoneInv, PhoneTypeOK, Click
  <2> HIDE DEF M
  <2>2. messages' \in Seq(M)
    BY <2>1
  <2> QED
    BY <2>2 DEF M
<1>5. commands' \in 0 .. MaxCommands
  BY Counted DEF Click
<1>6. PhoneTypeOK'
  BY <1>1, <1>4, <1>5 DEF PhoneInv, PhoneTypeOK
<1> QED
  BY <1>2, <1>3, <1>6 DEF PhoneInv

\* A click that Android does not pass on to the service.
LEMMA ClickFailsKeeps ==
  ASSUME PhoneInv, NEW kind \in {"connect", "disconnect"}, ClickFails(kind)
  PROVE  PhoneInv'
<1>1. UNCHANGED <<lease, sessions, pinValid, net, sockets, alive, waiting, command, job,
                  listening, jobs>>
  BY DEF ClickFails, deskVars
<1>2. (NumbersOK /\ RequestsOK /\ GrantsOK /\ SessionsApart /\ GivenBack)'
  BY <1>1, JobsStay
<1>3. OneJob' /\ AliveOK'
  BY <1>1 DEF PhoneInv, OneJob, AliveOK
<1>4. messages' \in Seq({"connect", "disconnect", "destroy"})
  <2> DEFINE M == {"connect", "disconnect", "destroy"}
  <2>1. messages \in Seq(M) /\ "destroy" \in M
    BY DEF PhoneInv, PhoneTypeOK
  <2>2. messages' = messages \/ messages' = Append(messages, "destroy")
    BY DEF ClickFails, StopService
  <2> HIDE DEF M
  <2>3. messages' \in Seq(M)
    BY <2>1, <2>2
  <2> QED
    BY <2>3 DEF M
<1>5. commands' \in 0 .. MaxCommands /\ failures' \in 0 .. MaxFailures
  BY Counted DEF ClickFails
<1>6. ui' \in {"idle", "failed"} /\ said' \in {"connect", "disconnect"}
  BY DEF ClickFails, PhoneInv, PhoneTypeOK
<1>7. PhoneTypeOK'
  BY <1>1, <1>4, <1>5, <1>6 DEF PhoneInv, PhoneTypeOK
<1> QED
  BY <1>2, <1>3, <1>7 DEF PhoneInv

\* Audio focus or the output is lost.
LEMMA OutputGoneKeeps ==
  ASSUME PhoneInv, OutputGone
  PROVE  PhoneInv'
<1>1. UNCHANGED <<lease, sessions, pinValid, net, sockets, messages, alive, command, job,
                  listening, jobs, ui, failures>> /\ said' = "disconnect"
  BY DEF OutputGone, deskVars
<1>2. (NumbersOK /\ RequestsOK /\ GrantsOK /\ SessionsApart /\ GivenBack)'
  BY <1>1, JobsStay
<1>3. OneJob'
  BY <1>1 DEF PhoneInv, OneJob
<1>4. AliveOK'
  BY <1>1 DEF PhoneInv, AliveOK, OutputGone
<1>5. commands' \in 0 .. MaxCommands
  BY Counted DEF OutputGone
<1>6. waiting' \in [{"connect", "disconnect"} -> Nat]
  BY DEF PhoneInv, PhoneTypeOK, OutputGone
<1>7. PhoneTypeOK'
  BY <1>1, <1>5, <1>6 DEF PhoneInv, PhoneTypeOK
<1> QED
  BY <1>2, <1>3, <1>4, <1>7 DEF PhoneInv

\* Android delivers a command, and makes the instance for it.
LEMMA StartCommandKeeps ==
  ASSUME PhoneInv, StartCommand
  PROVE  PhoneInv'
<1>1. UNCHANGED <<lease, sessions, pinValid, net, sockets, command, job, listening, jobs,
                  said, commands, failures>> /\ alive' = TRUE
  BY DEF StartCommand, deskVars, boundVars
<1>2. (NumbersOK /\ RequestsOK /\ GrantsOK /\ SessionsApart /\ GivenBack)'
  BY <1>1, JobsStay
<1>3. OneJob' /\ AliveOK'
  BY <1>1 DEF PhoneInv, OneJob, AliveOK
<1>4. messages' \in Seq({"connect", "disconnect", "destroy"})
  <2> DEFINE M == {"connect", "disconnect", "destroy"}
  <2>1. messages \in Seq(M) /\ messages # <<>> /\ messages' = Tail(messages)
    BY DEF PhoneInv, PhoneTypeOK, StartCommand
  <2> HIDE DEF M
  <2>2. messages' \in Seq(M)
    BY <2>1
  <2> QED
    BY <2>2 DEF M
<1>5. waiting' \in [{"connect", "disconnect"} -> Nat]
  BY DEF PhoneInv, PhoneTypeOK, StartCommand
<1>6. ui' \in {"idle", "connecting", "playing", "reconnecting", "failed"}
  BY DEF PhoneInv, PhoneTypeOK, StartCommand
<1>7. PhoneTypeOK'
  BY <1>1, <1>4, <1>5, <1>6 DEF PhoneInv, PhoneTypeOK
<1> QED
  BY <1>2, <1>3, <1>7 DEF PhoneInv

\* No audio focus for the playback.
LEMMA FocusDeniedKeeps ==
  ASSUME PhoneInv, FocusDenied
  PROVE  PhoneInv'
<1>1. UNCHANGED <<lease, sessions, pinValid, net, sockets, messages, alive, waiting, job, jobs,
                  said, commands>>
      /\ command' = "stopping" /\ ui' = "failed" /\ listening' = FALSE /\ command = "connect"
  BY DEF FocusDenied, deskVars
<1>2. (NumbersOK /\ RequestsOK /\ GrantsOK /\ SessionsApart /\ GivenBack)'
  BY <1>1, JobsStay
<1>3. OneJob' /\ AliveOK'
  BY <1>1 DEF PhoneInv, OneJob, AliveOK
<1>4. failures' \in 0 .. MaxFailures
  BY Counted DEF FocusDenied
<1>5. PhoneTypeOK'
  BY <1>1, <1>4 DEF PhoneInv, PhoneTypeOK
<1> QED
  BY <1>2, <1>3, <1>5 DEF PhoneInv

\* The command that has joined the job may forget it: whatever still goes on is cancelled.
LEMMA StopsKeeps ==
  ASSUME PhoneInv, Stops
  PROVE  PhoneInv'
<1>1. UNCHANGED <<lease, sessions, pinValid, net, sockets, messages, alive, waiting, jobs,
                  said, commands, failures>>
      /\ command' = "stopping" /\ ui' = "idle" /\ listening' = FALSE /\ job' = NoJob
      /\ command = "disconnect" /\ Joined
  BY DEF Stops, deskVars, boundVars
<1>2. (NumbersOK /\ RequestsOK /\ GrantsOK /\ SessionsApart /\ GivenBack)'
  BY <1>1, JobsStay
<1>3. OneJob'
  BY <1>1, JobTypes DEF PhoneInv, OneJob, Joined
<1>4. AliveOK'
  BY <1>1 DEF PhoneInv, AliveOK
<1>5. PhoneTypeOK'
  BY <1>1 DEF PhoneInv, PhoneTypeOK
<1> QED
  BY <1>2, <1>3, <1>4, <1>5 DEF PhoneInv

\* stopSession ends in stopSelf.
LEMMA StoppedKeeps ==
  ASSUME PhoneInv, Stopped
  PROVE  PhoneInv'
<1>1. UNCHANGED <<lease, sessions, pinValid, net, sockets, alive, waiting, job, listening, jobs,
                  ui, said, commands, failures>>
      /\ command' = "none" /\ command = "stopping" /\ StopSelf
  BY DEF Stopped, deskVars, boundVars
<1>2. (NumbersOK /\ RequestsOK /\ GrantsOK /\ SessionsApart /\ GivenBack)'
  BY <1>1, JobsStay
<1>3. OneJob' /\ AliveOK'
  BY <1>1 DEF PhoneInv, OneJob, AliveOK
<1>4. PhoneTypeOK'
  BY <1>1, StopSelfTypes DEF PhoneInv, PhoneTypeOK
<1> QED
  BY <1>2, <1>3, <1>4 DEF PhoneInv

-----------------------------------------------------------------------------
(* Answers.                                                                *)

\* An answer given to a job, or to nobody, with the requests that are left.
Replies(k, a) ==
    /\ k \in Jobs \cup {NoJob} /\ a \in [code : {"none", "ok", "refused", "failed"}, session : Nat]
    /\ jobs' = IF k = NoJob THEN jobs ELSE [jobs EXCEPT ![k].answer = a]
    /\ \A q \in net' : \/ q \in net /\ (q.by = NoJob \/ q.by # k)
                       \/ \E p \in net : q = [p EXCEPT !.by = NoJob]
    /\ sessions' \in {sessions, sessions + 1}
    /\ \/ a.session = NoSession
       \/ a.session = sessions' /\ sessions' = sessions + 1
       \/ k # NoJob /\ a.session \in KnownTo(k)
    /\ k # NoJob =>
          /\ jobs[k].at \in {"connecting", "leaving", "giving up"}
          /\ jobs[k].at = "connecting" /\ a.code = "ok" => a.session # NoSession

\* An answer, or the failure of its request, keeps what is said of the jobs.
LEMMA RepliesKeep ==
  ASSUME PhoneInv, NEW k, NEW a, Replies(k, a), UNCHANGED <<sockets, alive, job>>
  PROVE  (NumbersOK /\ OneJob /\ RequestsOK /\ GrantsOK /\ SessionsApart /\ GivenBack)'
<1>1. /\ NumbersOK /\ OneJob /\ RequestsOK /\ GrantsOK /\ SessionsApart /\ GivenBack
      /\ NoJob \notin Jobs /\ jobs \in [Jobs -> Job] /\ sessions \in Nat
  BY JobTypes DEF PhoneInv
<1>2. sessions' \in Nat /\ sessions <= sessions'
  <2>1. sessions' = sessions \/ sessions' = sessions + 1
    BY DEF Replies
  <2> QED
    BY <1>1, <2>1
<1>3. ASSUME NEW j \in Jobs
      PROVE  /\ jobs'[j].at = jobs[j].at /\ jobs'[j].cancelled = jobs[j].cancelled
             /\ jobs'[j].session = jobs[j].session /\ jobs'[j].resume = jobs[j].resume
             /\ jobs'[j].socket = jobs[j].socket
             /\ j # k => jobs'[j] = jobs[j]
             /\ j = k => jobs'[j].answer = a
  <2>1. CASE k = NoJob
    BY <2>1, <1>1 DEF Replies
  <2>2. CASE k # NoJob
    <3>1. jobs' = [jobs EXCEPT ![k].answer = a]
      BY <2>2 DEF Replies
    <3>2. CASE j = k
      <4>1. jobs'[j] = [jobs[j] EXCEPT !.answer = a]
        BY <3>1, <3>2, <1>1
      <4>2. jobs[j] \in Job
        BY <1>1
      <4> QED
        BY <4>1, <4>2, <3>2 DEF Job
    <3>3. CASE j # k
      <4>1. jobs'[j] = jobs[j]
        BY <3>1, <3>3, <1>1
      <4> QED
        BY <4>1, <3>3
    <3> QED
      BY <3>2, <3>3
  <2> QED
    BY <2>1, <2>2
<1>4. ASSUME NEW j \in Jobs, NEW x \in KnownTo(j)', x # NoSession
      PROVE  x \in KnownTo(j) \/ (j = k /\ x = sessions' /\ sessions' = sessions + 1)
  <2>1. CASE j # k
    <3>1. jobs'[j] = jobs[j]
      BY <2>1, <1>3
    <3>2. KnownTo(j)' = KnownTo(j)
      BY <3>1 DEF KnownTo
    <3> QED
      BY <3>2, <1>4
  <2>2. CASE j = k
    <3>1. x \in {jobs[j].session, jobs[j].resume, a.session}
      BY <2>2, <1>3, <1>4 DEF KnownTo
    <3>2. k # NoJob
      BY <2>2, <1>1
    <3>3. {jobs[j].session, jobs[j].resume} \subseteq KnownTo(j)
      BY DEF KnownTo
    <3>4. \/ a.session = NoSession
          \/ a.session = sessions' /\ sessions' = sessions + 1
          \/ a.session \in KnownTo(j)
      BY <2>2 DEF Replies
    <3>5. x \in KnownTo(j) \/ x = a.session
      BY <3>1, <3>3
    <3> QED
      BY <2>2, <3>4, <3>5, <1>4
  <2> QED
    BY <2>1, <2>2
<1>5. \A j \in Jobs : KnownTo(j) \subseteq 0 .. sessions
  BY <1>1 DEF NumbersOK
<1>6. sessions + 1 \notin 0 .. sessions /\ NoSession \in 0 .. sessions
  BY <1>1 DEF NoSession
<1>7. NumbersOK'
  <2>1. ASSUME NEW j \in Jobs, NEW x \in KnownTo(j)' PROVE x \in 0 .. sessions'
    <3>1. NoSession \in 0 .. sessions' /\ (\A n \in 0 .. sessions : n \in 0 .. sessions')
          /\ sessions' \in 0 .. sessions'
      BY <1>1, <1>2, <1>6, Wider
    <3> QED
      BY <3>1, <1>4, <1>5
  <2>2. ASSUME NEW j \in Jobs PROVE jobs'[j].socket \in 0 .. sockets'
    BY <1>1, <1>3 DEF NumbersOK
  <2> QED
    BY <2>1, <2>2 DEF NumbersOK
<1>8. OneJob'
  BY <1>1, <1>3 DEF OneJob
<1>9. ASSUME NEW q \in net', q.by # NoJob
      PROVE  q \in net /\ q.by \in Jobs /\ q.by # k /\ jobs'[q.by] = jobs[q.by]
  <2>1. ASSUME NEW p \in net, q = [p EXCEPT !.by = NoJob] PROVE q.by = NoJob
    BY <2>1, RequestTypes
  <2>2. q \in net /\ q.by # k
    BY <2>1, <1>9 DEF Replies
  <2> QED
    BY <2>2, <1>3, <1>9, RequestTypes
<1>10. RequestsOK'
  <2>1. ASSUME NEW q \in net', q.by # NoJob
        PROVE  /\ jobs'[q.by].answer = NoAnswer
               /\ q.kind = "connect" =>
                     jobs'[q.by].at = "connecting" /\ q.session = jobs'[q.by].resume
               /\ q.kind = "disconnect" => jobs'[q.by].at \in {"leaving", "giving up"}
    BY <2>1, <1>1, <1>9 DEF RequestsOK
  <2>2. ASSUME NEW p \in net', NEW q \in net', p.by # NoJob, p.by = q.by PROVE p = q
    BY <2>2, <1>1, <1>9 DEF RequestsOK
  <2> QED
    BY <2>1, <2>2 DEF RequestsOK
<1>11. GrantsOK'
  <2>1. ASSUME NEW j \in Jobs
        PROVE  /\ jobs'[j].at \notin {"connecting", "leaving", "giving up"} =>
                     jobs'[j].answer = NoAnswer
               /\ jobs'[j].at = "connecting" /\ jobs'[j].answer.code = "ok" =>
                     jobs'[j].answer.session # NoSession
               /\ jobs'[j].at = "playing" => jobs'[j].session # NoSession
    <3>1. CASE j = k
      <4>1. k # NoJob /\ jobs'[j].answer = a /\ jobs'[j].at = jobs[k].at
        BY <3>1, <1>1, <1>3
      <4> QED
        BY <4>1, <3>1 DEF Replies
    <3>2. CASE j # k
      BY <3>2, <1>1, <1>3 DEF GrantsOK
    <3> QED
      BY <3>1, <3>2
  <2> QED
    BY <2>1 DEF GrantsOK
<1>12. SessionsApart'
  <2>1. ASSUME NEW i \in Jobs, NEW j \in Jobs, i # j, NEW x \in KnownTo(i)',
               x \in KnownTo(j)', x # NoSession
        PROVE  FALSE
    <3>1. x \in KnownTo(i) \/ (i = k /\ x = sessions + 1)
      BY <2>1, <1>4
    <3>2. x \in KnownTo(j) \/ (j = k /\ x = sessions + 1)
      BY <2>1, <1>4
    <3>3. ~(x \in KnownTo(i) /\ x \in KnownTo(j))
      BY <2>1, <1>1 DEF SessionsApart
    <3> QED
      BY <3>1, <3>2, <3>3, <2>1, <1>5, <1>6
  <2> QED
    BY <2>1 DEF SessionsApart
<1>13. GivenBack'
  <2>1. ASSUME NEW q \in net', q.kind = "disconnect"
        PROVE  \E p \in net : p.kind = "disconnect" /\ p.session = q.session
    <3>1. ASSUME NEW p \in net, q = [p EXCEPT !.by = NoJob]
          PROVE  p.kind = "disconnect" /\ p.session = q.session
      BY <3>1, <2>1, RequestTypes
    <3> QED
      BY <3>1, <2>1 DEF Replies
  <2>2. ASSUME NEW q \in net', q.kind = "disconnect"
        PROVE  /\ q.session # NoSession
               /\ \A j \in Jobs : jobs'[j].at \in Active /\ ~jobs'[j].cancelled =>
                     q.session \notin KnownTo(j)'
    <3>1. PICK p \in net : p.kind = "disconnect" /\ p.session = q.session
      BY <2>1, <2>2
    <3>2. p.session # NoSession /\ p.session \in 0 .. sessions
      BY <3>1, <1>1, RequestTypes DEF GivenBack
    <3>3. ASSUME NEW j \in Jobs, jobs'[j].at \in Active, ~jobs'[j].cancelled
          PROVE  q.session \notin KnownTo(j)'
      <4>1. q.session \notin KnownTo(j)
        BY <3>1, <3>3, <1>1, <1>3 DEF GivenBack
      <4> QED
        BY <4>1, <3>1, <3>2, <1>4, <1>6
    <3> QED
      BY <3>1, <3>2, <3>3
  <2> QED
    BY <2>2 DEF GivenBack
<1> QED
  BY <1>7, <1>8, <1>10, <1>11, <1>12, <1>13

\* The bounds grow with the numbers they bound.
LEMMA RequestsStay ==
  ASSUME PhoneInv, sessions' \in {sessions, sessions + 1}, UNCHANGED sockets,
         NEW q, NEW p \in net, q = p \/ q = [p EXCEPT !.by = NoJob]
  PROVE  q \in [kind : {"connect", "disconnect"}, session : 0 .. sessions',
                socket : 0 .. sockets', by : Jobs \cup {NoJob}]
<1>1. p.session \in 0 .. sessions'
  <2>1. sessions \in Nat /\ sessions + 1 \in Nat /\ sessions <= sessions + 1
    BY JobTypes
  <2> QED
    BY <2>1, Wider, RequestTypes
<1> QED
  BY <1>1, RequestTypes

\* The desktop answers r, and uses up the number of a session if it gives one.
LEMMA ReplaceKeeps ==
  ASSUME PhoneInv, NEW r \in net, NEW code \in {"ok", "refused"}, NEW x,
         Replace(r, Answer(code, x)), sessions' \in {sessions, sessions + 1},
         \/ x = NoSession /\ (code = "refused" \/ r.kind = "disconnect")
         \/ x = sessions' /\ sessions' = sessions + 1
         \/ x = r.session /\ x # NoSession /\ r.kind = "connect",
         lease' \in [holder : {"none", "phone", "other"}, session : 0 .. sessions',
                     socket : 0 .. sockets],
         UNCHANGED <<pinValid, sockets, serviceVars, ui, boundVars>>
  PROVE  PhoneInv'
<1>1. UNCHANGED <<pinValid, sockets, messages, alive, waiting, command, job, listening, ui,
                  said, commands, failures>>
  BY DEF serviceVars, boundVars
<1>2. /\ r.kind \in {"connect", "disconnect"} /\ r.session \in 0 .. sessions
      /\ r.by \in Jobs \cup {NoJob}
  BY RequestTypes
<1>3. sessions \in Nat /\ sessions' \in Nat /\ NoSession = 0 /\ NoJob \notin Jobs
  BY JobTypes
<1>4. x \in Nat
  BY <1>2, <1>3
<1> DEFINE a == Answer(code, x)
<1>5. /\ a \in [code : {"none", "ok", "refused", "failed"}, session : Nat]
      /\ a.code = code /\ a.session = x
  BY <1>4 DEF Answer
<1>6. /\ net' = net \ {r}
      /\ jobs' = IF r.by = NoJob THEN jobs ELSE [jobs EXCEPT ![r.by].answer = a]
  BY DEF Replace
<1> HIDE DEF a
<1>7. r.by # NoJob =>
          /\ jobs[r.by].at \in {"connecting", "leaving", "giving up"}
          /\ r.kind = "connect" => r.session = jobs[r.by].resume
          /\ r.kind = "disconnect" => jobs[r.by].at # "connecting"
  BY <1>2 DEF PhoneInv, RequestsOK
<1>8. \A q \in net' : q \in net /\ (q.by = NoJob \/ q.by # r.by)
  BY <1>6 DEF PhoneInv, RequestsOK
<1>9. x # NoSession \/ code # "ok" \/ r.kind = "disconnect"
  BY <1>3
<1>10. (NumbersOK /\ OneJob /\ RequestsOK /\ GrantsOK /\ SessionsApart /\ GivenBack)'
  <2>1. CASE r.by # NoJob
    <3>1. \/ x = NoSession
          \/ x = sessions' /\ sessions' = sessions + 1
          \/ x \in KnownTo(r.by)
      BY <1>7, <2>1 DEF KnownTo
    <3>2. Replies(r.by, a)
      BY <1>2, <1>5, <1>6, <1>7, <1>8, <1>9, <2>1, <3>1 DEF Replies
    <3> QED
      BY <1>1, <3>2, RepliesKeep
  <2>2. CASE r.by = NoJob
    <3>1. Replies(NoJob, NoAnswer)
      BY <1>6, <1>8, <2>2, NoAnswerFields DEF Replies
    <3> QED
      BY <1>1, <3>1, RepliesKeep
  <2> QED
    BY <2>1, <2>2
<1>11. jobs' \in [Jobs -> Job]
  <2>1. CASE r.by = NoJob
    BY <1>6, <2>1, JobTypes
  <2>2. CASE r.by # NoJob
    <3>1. r.by \in Jobs /\ jobs[r.by] \in Job /\ jobs \in [Jobs -> Job]
      BY <1>2, <2>2, JobTypes
    <3>2. [jobs[r.by] EXCEPT !.answer = a] \in Job
      BY <3>1, <1>5 DEF Job
    <3>3. jobs' = [jobs EXCEPT ![r.by] = [jobs[r.by] EXCEPT !.answer = a]]
      BY <1>6, <2>2
    <3> QED
      BY <3>1, <3>2, <3>3
  <2> QED
    BY <2>1, <2>2
<1>12. net' \subseteq [kind : {"connect", "disconnect"}, session : 0 .. sessions',
                       socket : 0 .. sockets', by : Jobs \cup {NoJob}]
  BY <1>1, <1>8, RequestsStay
<1>13. PhoneTypeOK'
  BY <1>1, <1>3, <1>11, <1>12 DEF PhoneInv, PhoneTypeOK
<1>14. AliveOK'
  BY <1>1 DEF PhoneInv, AliveOK
<1> QED
  BY <1>10, <1>13, <1>14 DEF PhoneInv

\* The two handlers of the desktop.
LEMMA ServeKeeps ==
  ASSUME PhoneInv, NEW r \in net, Serve(r)
  PROVE  PhoneInv'
<1>1. UNCHANGED <<pinValid, sockets, serviceVars, ui, boundVars>>
  BY DEF Serve, ServeConnect, ServeDisconnect
<1>2. /\ lease \in [holder : {"none", "phone", "other"}, session : 0 .. sessions,
                     socket : 0 .. sockets]
      /\ r.socket \in 0 .. sockets /\ sessions \in Nat /\ sockets \in Nat /\ NoSession = 0
  BY JobTypes, RequestTypes DEF PhoneInv, PhoneTypeOK
<1>3. CASE ServeDisconnect(r)
  <2>1. r.kind = "disconnect" /\ Replace(r, Answer("ok", NoSession)) /\ sessions' = sessions
    BY <1>3 DEF ServeDisconnect
  <2>2. 0 \in 0 .. sessions /\ 0 \in 0 .. sockets
    BY <1>2, Zero
  <2>3. NoLease \in [holder : {"none", "phone", "other"}, session : 0 .. sessions,
                     socket : 0 .. sockets]
    BY <2>2 DEF NoLease, NoSession, NoSocket
  <2>4. lease' \in [holder : {"none", "phone", "other"}, session : 0 .. sessions,
                    socket : 0 .. sockets]
    BY <1>2, <1>3, <2>3 DEF ServeDisconnect
  <2> QED
    BY <1>1, <2>1, <2>4, ReplaceKeeps
<1>4. CASE ServeConnect(r)
  <2>1. CASE /\ Resumes(r) /\ lease' = [lease EXCEPT !.socket = r.socket]
             /\ Replace(r, Answer("ok", r.session)) /\ sessions' = sessions
    <3>1. lease' \in [holder : {"none", "phone", "other"}, session : 0 .. sessions,
                      socket : 0 .. sockets]
      BY <1>2, <2>1
    <3>2. r.kind = "connect" /\ r.session # NoSession
      BY <1>4, <2>1 DEF ServeConnect, Resumes
    <3> QED
      BY <1>1, <2>1, <3>1, <3>2, ReplaceKeeps
  <2>2. CASE Replace(r, Answer("refused", NoSession)) /\ UNCHANGED <<lease, sessions>>
    BY <1>1, <1>2, <2>2, ReplaceKeeps
  <2>3. CASE /\ sessions' = sessions + 1
             /\ lease' = [holder |-> "phone", session |-> sessions', socket |-> r.socket]
             /\ Replace(r, Answer("ok", sessions'))
    <3>1. sessions' \in 0 .. sessions'
      BY <1>2, <2>3
    <3>2. lease' \in [holder : {"none", "phone", "other"}, session : 0 .. sessions',
                      socket : 0 .. sockets]
      BY <1>2, <2>3, <3>1
    <3> QED
      BY <1>1, <2>3, <3>2, ReplaceKeeps
  <2> QED
    BY <1>4, <2>1, <2>2, <2>3 DEF ServeConnect
<1> QED
  BY <1>3, <1>4 DEF Serve

\* A request fails, though it may still be served.
LEMMA RequestFailsKeeps ==
  ASSUME PhoneInv, NEW j \in Jobs, RequestFails(j)
  PROVE  PhoneInv'
<1>1. UNCHANGED <<lease, sessions, pinValid, sockets, messages, alive, waiting, command, job,
                  listening, ui, said, commands>>
  BY DEF RequestFails, deskVars, serviceVars
<1> DEFINE a == Answer("failed", NoSession)
<1>2. /\ a \in [code : {"none", "ok", "refused", "failed"}, session : Nat]
      /\ a.code = "failed" /\ a.session = NoSession
  BY DEF Answer, NoSession
<1>3. /\ jobs' = [jobs EXCEPT ![j].answer = a]
      /\ jobs[j].at \in {"connecting", "leaving", "giving up"}
  BY DEF RequestFails
<1> HIDE DEF a
<1>4. ASSUME NEW q \in net'
      PROVE  (q \in net /\ q.by # j) \/ \E p \in net : q = [p EXCEPT !.by = NoJob]
  BY DEF RequestFails
<1>5. Replies(j, a)
  <2>1. j # NoJob /\ j \in Jobs
    BY JobTypes
  <2>2. \A q \in net' : \/ q \in net /\ (q.by = NoJob \/ q.by # j)
                        \/ \E p \in net : q = [p EXCEPT !.by = NoJob]
    BY <1>4
  <2> QED
    BY <1>1, <1>2, <1>3, <2>1, <2>2 DEF Replies
<1>6. (NumbersOK /\ OneJob /\ RequestsOK /\ GrantsOK /\ SessionsApart /\ GivenBack)'
  BY <1>1, <1>5, RepliesKeep
<1>7. jobs' \in [Jobs -> Job]
  <2>1. jobs[j] \in Job /\ jobs \in [Jobs -> Job]
    BY JobTypes
  <2>2. [jobs[j] EXCEPT !.answer = a] \in Job
    BY <2>1, <1>2 DEF Job
  <2> QED
    BY <1>3, <2>1, <2>2
<1>8. net' \subseteq [kind : {"connect", "disconnect"}, session : 0 .. sessions',
                      socket : 0 .. sockets', by : Jobs \cup {NoJob}]
  BY <1>1, <1>4, RequestsStay
<1>9. failures' \in 0 .. MaxFailures
  BY Counted DEF RequestFails
<1>10. PhoneTypeOK'
  BY <1>1, <1>7, <1>8, <1>9 DEF PhoneInv, PhoneTypeOK
<1>11. AliveOK'
  BY <1>1 DEF PhoneInv, AliveOK
<1> QED
  BY <1>6, <1>10, <1>11 DEF PhoneInv

-----------------------------------------------------------------------------
(* Commands that cancel the job, or launch one.                            *)

\* The job of the service is cancelled, if there is one.
Cancels ==
    jobs' = IF job = NoJob \/ jobs[job].at = "none" THEN jobs
            ELSE [jobs EXCEPT ![job].cancelled = TRUE]

\* Nothing that goes on is uncancelled then.
LEMMA CancelsKeep ==
  ASSUME PhoneInv, Cancels, UNCHANGED <<sessions, sockets, net>>
  PROVE  /\ (NumbersOK /\ OneJob /\ RequestsOK /\ GrantsOK /\ SessionsApart /\ GivenBack)'
         /\ jobs' \in [Jobs -> Job]
<1>1. /\ NumbersOK /\ OneJob /\ RequestsOK /\ GrantsOK /\ SessionsApart /\ GivenBack
      /\ NoJob \notin Jobs /\ jobs \in [Jobs -> Job] /\ job \in Jobs \cup {NoJob}
  BY JobTypes DEF PhoneInv, PhoneTypeOK
<1>2. ASSUME NEW j \in Jobs
      PROVE  /\ jobs'[j].at = jobs[j].at /\ jobs'[j].session = jobs[j].session
             /\ jobs'[j].resume = jobs[j].resume /\ jobs'[j].socket = jobs[j].socket
             /\ jobs'[j].answer = jobs[j].answer /\ jobs'[j] \in Job
             /\ jobs[j].at # "none" => jobs'[j].cancelled
  <2>1. jobs[j] \in Job
    BY <1>1
  <2>2. CASE j = job /\ jobs[j].at # "none"
    <3>1. jobs'[j] = [jobs[j] EXCEPT !.cancelled = TRUE]
      BY <1>1, <2>2 DEF Cancels
    <3> QED
      BY <2>1, <3>1 DEF Job
  <2>3. CASE j = job /\ jobs[j].at = "none"
    <3>1. jobs' = jobs
      BY <2>3 DEF Cancels
    <3> QED
      BY <2>1, <2>3, <3>1
  <2>4. CASE j # job
    <3>1. jobs'[j] = jobs[j]
      BY <1>1, <2>4 DEF Cancels
    <3>2. jobs[j].at # "none" => jobs[j].cancelled
      BY <1>1, <2>4 DEF OneJob
    <3> QED
      BY <2>1, <3>1, <3>2
  <2> QED
    BY <2>2, <2>3, <2>4
<1>3. \A j \in Jobs : KnownTo(j)' = KnownTo(j)
  BY <1>2 DEF KnownTo
<1>4. NumbersOK'
  BY <1>1, <1>2, <1>3 DEF NumbersOK
<1>5. OneJob'
  BY <1>2 DEF OneJob
<1>6. RequestsOK'
  <2>1. ASSUME NEW r \in net', r.by # NoJob
        PROVE  /\ jobs'[r.by].answer = NoAnswer
               /\ r.kind = "connect" =>
                     jobs'[r.by].at = "connecting" /\ r.session = jobs'[r.by].resume
               /\ r.kind = "disconnect" => jobs'[r.by].at \in {"leaving", "giving up"}
    <3>1. r.by \in Jobs
      BY <2>1, RequestTypes
    <3> QED
      BY <3>1, <2>1, <1>1, <1>2 DEF RequestsOK
  <2>2. \A r, q \in net' : r.by # NoJob /\ r.by = q.by => r = q
    BY <1>1 DEF RequestsOK
  <2> QED
    BY <2>1, <2>2 DEF RequestsOK
<1>7. GrantsOK'
  BY <1>1, <1>2 DEF GrantsOK
<1>8. SessionsApart'
  BY <1>1, <1>3 DEF SessionsApart
<1>9. GivenBack'
  BY <1>1, <1>2 DEF GivenBack, Active
<1>10. jobs' \in [Jobs -> Job]
  <2>1. jobs' = [j \in Jobs |-> jobs'[j]]
    BY <1>1 DEF Cancels
  <2> QED
    BY <1>2, <2>1
<1> QED
  BY <1>4, <1>5, <1>6, <1>7, <1>8, <1>9, <1>10

\* A command takes the mutex and cancels the job.
LEMMA TakesKeeps ==
  ASSUME PhoneInv, NEW kind \in {"connect", "disconnect"}, Takes(kind)
  PROVE  PhoneInv'
<1>1. UNCHANGED <<lease, sessions, pinValid, net, sockets, messages, alive, job, listening, ui,
                  said, commands, failures>> /\ command' = kind
  BY DEF Takes, deskVars, boundVars
<1>2. Cancels
  BY DEF Takes, Cancels
<1>3. /\ (NumbersOK /\ OneJob /\ RequestsOK /\ GrantsOK /\ SessionsApart /\ GivenBack)'
      /\ jobs' \in [Jobs -> Job]
  BY <1>1, <1>2, CancelsKeep
<1>4. alive
  <2>1. waiting["connect"] > 0 \/ waiting["disconnect"] > 0
    BY DEF Takes
  <2> QED
    BY <2>1 DEF PhoneInv, AliveOK
<1>5. AliveOK'
  BY <1>1, <1>4 DEF AliveOK
<1>6. waiting' \in [{"connect", "disconnect"} -> Nat]
  <2>1. waiting \in [{"connect", "disconnect"} -> Nat] /\ waiting[kind] > 0
        /\ waiting' = [waiting EXCEPT ![kind] = waiting[kind] - 1]
    BY DEF Takes, PhoneInv, PhoneTypeOK
  <2>2. waiting[kind] - 1 \in Nat
    BY <2>1
  <2> QED
    BY <2>1, <2>2
<1>7. PhoneTypeOK'
  BY <1>1, <1>3, <1>6 DEF PhoneInv, PhoneTypeOK
<1> QED
  BY <1>3, <1>5, <1>7 DEF PhoneInv

\* onDestroy.
LEMMA DestroyKeeps ==
  ASSUME PhoneInv, Destroy
  PROVE  PhoneInv'
<1>1. /\ UNCHANGED <<lease, sessions, pinValid, net, sockets, ui, said, commands, failures>>
      /\ alive' = FALSE /\ waiting' = [connect |-> 0, disconnect |-> 0] /\ command' = "none"
      /\ job' = NoJob /\ listening' = FALSE
  BY DEF Destroy, deskVars, boundVars
<1>2. Cancels
  BY DEF Destroy, Cancels
<1>3. /\ (NumbersOK /\ OneJob /\ RequestsOK /\ GrantsOK /\ SessionsApart /\ GivenBack)'
      /\ jobs' \in [Jobs -> Job]
  BY <1>1, <1>2, CancelsKeep
<1>4. waiting'["connect"] = 0 /\ waiting'["disconnect"] = 0
      /\ waiting' \in [{"connect", "disconnect"} -> Nat]
  BY <1>1
<1>5. AliveOK'
  BY <1>1, <1>4 DEF AliveOK
<1>6. messages' \in Seq({"connect", "disconnect", "destroy"})
  <2> DEFINE M == {"connect", "disconnect", "destroy"}
  <2>1. messages \in Seq(M) /\ messages # <<>> /\ messages' = Tail(messages)
    BY DEF PhoneInv, PhoneTypeOK, Destroy
  <2> HIDE DEF M
  <2>2. messages' \in Seq(M)
    BY <2>1
  <2> QED
    BY <2>2 DEF M
<1>7. PhoneTypeOK'
  BY <1>1, <1>3, <1>4, <1>6 DEF PhoneInv, PhoneTypeOK
<1> QED
  BY <1>3, <1>5, <1>7 DEF PhoneInv

\* replaceSession launches the job when no other goes on.
LEMMA LaunchesKeeps ==
  ASSUME PhoneInv, Launches
  PROVE  PhoneInv'
<1>1. /\ UNCHANGED <<lease, sessions, pinValid, net, sockets, messages, alive, waiting, ui, said,
                     commands, failures>>
      /\ command = "connect" /\ command' = "none" /\ listening' = TRUE /\ Joined
  BY DEF Launches, deskVars, boundVars
<1>2. PICK j \in Jobs : /\ jobs[j].at = "none" /\ job' = j
                        /\ jobs' = [jobs EXCEPT ![j] = NewJob]
  BY DEF Launches
<1>3. /\ NumbersOK /\ OneJob /\ RequestsOK /\ GrantsOK /\ SessionsApart /\ GivenBack
      /\ NoJob \notin Jobs /\ jobs \in [Jobs -> Job] /\ sessions \in Nat /\ sockets \in Nat
  BY JobTypes DEF PhoneInv
<1>4. alive
  BY <1>1 DEF PhoneInv, AliveOK
<1>5. /\ NewJob.at = "attempt" /\ NewJob.session = NoSession /\ NewJob.resume = NoSession
      /\ NewJob.answer = NoAnswer /\ NewJob.socket = 0 /\ NewJob \in Job
  BY NoAnswerFields DEF NewJob, NoSocket, Job
<1>6. jobs'[j] = NewJob /\ \A i \in Jobs \ {j} : jobs'[i] = jobs[i]
  BY <1>2, <1>3
<1>7. /\ KnownTo(j)' = {NoSession}
      /\ \A i \in Jobs \ {j} : KnownTo(i)' = KnownTo(i)
  BY <1>5, <1>6, NoAnswerFields DEF KnownTo
<1>8. NumbersOK'
  <2>1. NoSession \in 0 .. sessions /\ 0 \in 0 .. sockets
    BY <1>3, JobTypes, Zero
  <2> QED
    BY <2>1, <1>1, <1>3, <1>5, <1>6, <1>7 DEF NumbersOK
<1>9. OneJob'
  <2>1. ASSUME NEW i \in Jobs, i # j, jobs'[i].at # "none", ~jobs'[i].cancelled PROVE FALSE
    <3>1. i = job
      BY <2>1, <1>3, <1>6 DEF OneJob
    <3>2. jobs[i].at = "none"
      BY <3>1, <1>1, <1>3 DEF Joined
    <3> QED
      BY <3>2, <2>1, <1>6
  <2> QED
    BY <2>1, <1>1, <1>2, <1>4 DEF OneJob
<1>10. RequestsOK'
  <2>1. ASSUME NEW r \in net, r.by # NoJob PROVE jobs'[r.by] = jobs[r.by]
    <3>1. r.by \in Jobs /\ r.kind \in {"connect", "disconnect"}
      BY <2>1, RequestTypes
    <3>2. r.by # j
      BY <3>1, <2>1, <1>2, <1>3 DEF RequestsOK
    <3> QED
      BY <3>1, <3>2, <1>6
  <2> QED
    BY <2>1, <1>1, <1>3 DEF RequestsOK
<1>11. GrantsOK'
  <2>1. ASSUME NEW i \in Jobs
        PROVE  /\ jobs'[i].at \notin {"connecting", "leaving", "giving up"} =>
                     jobs'[i].answer = NoAnswer
               /\ jobs'[i].at = "connecting" /\ jobs'[i].answer.code = "ok" =>
                     jobs'[i].answer.session # NoSession
               /\ jobs'[i].at = "playing" => jobs'[i].session # NoSession
    <3>1. CASE i = j
      BY <3>1, <1>5, <1>6
    <3>2. CASE i # j
      BY <3>2, <1>3, <1>6 DEF GrantsOK
    <3> QED
      BY <3>1, <3>2
  <2> QED
    BY <2>1 DEF GrantsOK
<1>12. SessionsApart'
  BY <1>3, <1>7 DEF SessionsApart
<1>13. GivenBack'
  <2>1. ASSUME NEW r \in net, r.kind = "disconnect", NEW i \in Jobs,
               jobs'[i].at \in Active, ~jobs'[i].cancelled
        PROVE  r.session \notin KnownTo(i)'
    <3>1. CASE i = j
      BY <3>1, <2>1, <1>3, <1>7 DEF GivenBack
    <3>2. CASE i # j
      BY <3>2, <2>1, <1>3, <1>6, <1>7 DEF GivenBack
    <3> QED
      BY <3>1, <3>2
  <2> QED
    BY <2>1, <1>1, <1>3 DEF GivenBack
<1>14. AliveOK'
  BY <1>1, <1>4 DEF AliveOK
<1>15. PhoneTypeOK'
  <2>1. jobs' \in [Jobs -> Job]
    BY <1>2, <1>3, <1>5
  <2> QED
    BY <2>1, <1>1, <1>2 DEF PhoneInv, PhoneTypeOK
<1> QED
  BY <1>8, <1>9, <1>10, <1>11, <1>12, <1>13, <1>14, <1>15 DEF PhoneInv

-----------------------------------------------------------------------------
(* The theorems.                                                           *)

\* The invariant holds when nothing has happened.
LEMMA PhoneInit ==
  ASSUME Init
  PROVE  PhoneInv
<1>1. /\ Ended.at = "none" /\ Ended.socket = 0 /\ Ended.session = NoSession
      /\ Ended.resume = NoSession /\ Ended.answer = NoAnswer /\ Ended \in Job
  BY NoAnswerFields DEF Ended, NewJob, NoSocket, Job
<1>2. \A j \in Jobs : jobs[j] = Ended
  BY DEF Init
<1>3. \A j \in Jobs : KnownTo(j) = {NoSession}
  BY <1>1, <1>2, NoAnswerFields DEF KnownTo
<1>4. net = {} /\ sessions = 0 /\ sockets = 0 /\ NoSession = 0
  BY DEF Init, NoSession
<1>5. NumbersOK
  BY <1>1, <1>2, <1>3, <1>4 DEF NumbersOK
<1>6. AliveOK
  BY DEF Init, AliveOK
<1>7. OneJob /\ GrantsOK
  BY <1>1, <1>2 DEF OneJob, GrantsOK
<1>8. RequestsOK /\ GivenBack
  BY <1>4 DEF RequestsOK, GivenBack
<1>9. SessionsApart
  BY <1>3 DEF SessionsApart
<1>10. PhoneTypeOK
  <2>1. lease \in [holder : {"none", "phone", "other"}, session : 0 .. sessions,
                   socket : 0 .. sockets]
    BY <1>4 DEF Init, NoLease, NoSession, NoSocket
  <2>2. jobs \in [Jobs -> Job]
    BY <1>1 DEF Init
  <2>3. 0 \in 0 .. MaxCommands /\ 0 \in 0 .. MaxFailures
    BY PhoneAssumption DEF PhoneAssumption
  <2>4. waiting \in [{"connect", "disconnect"} -> Nat]
    BY DEF Init
  <2>5. messages \in Seq({"connect", "disconnect", "destroy"})
    BY DEF Init
  <2>6. sessions \in Nat /\ sockets \in Nat /\ net = {}
    BY <1>4
  <2> QED
    BY <2>1, <2>2, <2>3, <2>4, <2>5, <2>6 DEF Init, PhoneTypeOK
<1> QED
  BY <1>5, <1>6, <1>7, <1>8, <1>9, <1>10 DEF PhoneInv

\* Every step of a playback coroutine.
LEMMA JobRunsKeeps ==
  ASSUME PhoneInv, NEW j \in Jobs, JobRuns(j)
  PROVE  PhoneInv'
BY AttemptKeeps, ConnectedKeeps, PlaysKeeps, StreamTimesOutKeeps, LeavesKeeps, LeftKeeps,
   RefusedKeeps, GivesUpKeeps, GivenUpKeeps, ConnectFailsKeeps, WaitsKeeps, RetriesKeeps
   DEF JobRuns

\* Every step keeps the invariant.
LEMMA PhoneStep ==
  ASSUME PhoneInv, [Next]_phoneVars
  PROVE  PhoneInv'
<1>1. CASE UNCHANGED phoneVars
  <2>1. UNCHANGED <<lease, sessions, pinValid, net, sockets, messages, alive, waiting, command,
                    job, listening, jobs, ui, said, commands, failures>>
    BY <1>1 DEF phoneVars, deskVars, serviceVars, boundVars
  <2>2. (NumbersOK /\ RequestsOK /\ GrantsOK /\ SessionsApart /\ GivenBack)'
    BY <2>1, JobsStay
  <2>3. OneJob' /\ AliveOK' /\ PhoneTypeOK'
    BY <2>1 DEF PhoneInv, OneJob, AliveOK, PhoneTypeOK
  <2> QED
    BY <2>2, <2>3 DEF PhoneInv
<1>2. CASE \E r \in net : Serve(r)
  BY <1>2, ServeKeeps
<1>3. CASE Lapse \/ LeaseLost \/ OtherPhone \/ PinChanges
  BY <1>3, DesktopKeeps
<1>4. CASE \E j \in Jobs :
             JobRuns(j) \/ Incompatible(j) \/ StreamFails(j) \/ RequestFails(j)
  BY <1>4, JobRunsKeeps, IncompatibleKeeps, StreamFailsKeeps, RequestFailsKeeps
<1>5. CASE \E kind \in {"connect", "disconnect"} : Click(kind) \/ ClickFails(kind)
  BY <1>5, ClickKeeps, ClickFailsKeeps
<1>6. CASE OutputGone \/ FocusDenied \/ StartCommand \/ Destroy
  BY <1>6, OutputGoneKeeps, FocusDeniedKeeps, StartCommandKeeps, DestroyKeeps
<1>7. CASE CommandRuns
  BY <1>7, TakesKeeps, LaunchesKeeps, StopsKeeps, StoppedKeeps DEF CommandRuns
<1> QED
  BY <1>1, <1>2, <1>3, <1>4, <1>5, <1>6, <1>7 DEF Next

\* PhoneInv holds always.
THEOREM PhoneInvariant == Spec => []PhoneInv
<1>1. Init => PhoneInv
  BY PhoneInit
<1>2. PhoneInv /\ [Next]_phoneVars => PhoneInv'
  BY PhoneStep
<1> QED
  BY <1>1, <1>2, PTL DEF Spec

\* The phone's variables and the desktop's lease keep their types, and the counts their bounds.
THEOREM PhoneTypes == Spec => []PhoneTypeOK
<1>1. PhoneInv => PhoneTypeOK
  BY DEF PhoneInv
<1> QED
  BY <1>1, PhoneInvariant, PTL

\* However commands, failures and onDestroy fall in between, at most one playback coroutine is
\* not cancelled, and it is the job of the instance of the service that is alive.
THEOREM OnlyOneJob == Spec => []OneJob
<1>1. PhoneInv => OneJob
  BY DEF PhoneInv
<1> QED
  BY <1>1, PhoneInvariant, PTL

\* No two playback coroutines ever know the same session, whatever answers are late or lost:
\* neither can resume, renew or give back what is the other's.
THEOREM SessionsNeverShared == Spec => []SessionsApart
<1>1. PhoneInv => SessionsApart
  BY DEF PhoneInv
<1> QED
  BY <1>1, PhoneInvariant, PTL

\* Only the handler of /api/disconnect, of all that takes a disconnect off the network, changes
\* the lease, and then the session is the lease's.
LEMMA OnlyServed ==
  ASSUME PhoneInv, [Next]_phoneVars, NEW r \in net \ net', r.kind = "disconnect",
         lease' # lease
  PROVE  lease.session = r.session
<1>1. CASE UNCHANGED phoneVars
  BY <1>1 DEF phoneVars
<1>2. ASSUME NEW q \in net, Serve(q) PROVE lease.session = r.session
  <2>1. net' = net \ {q}
    BY <1>2 DEF Serve, ServeConnect, ServeDisconnect, Replace
  <2>2. q = r
    BY <2>1
  <2>3. ServeDisconnect(r)
    BY <1>2, <2>2 DEF Serve, ServeConnect
  <2> QED
    BY <2>3 DEF ServeDisconnect
<1>3. CASE Lapse \/ LeaseLost \/ OtherPhone \/ PinChanges
  BY <1>3 DEF Lapse, LeaseLost, OtherPhone, PinChanges
<1>4. ASSUME NEW j \in Jobs,
             JobRuns(j) \/ Incompatible(j) \/ StreamFails(j) \/ RequestFails(j)
      PROVE  lease.session = r.session
  BY <1>4 DEF JobRuns, Attempt, Connected, Plays, StreamTimesOut, Incompatible, Leaves, Left,
     Refused, GivesUp, GivenUp, ConnectFails, Waits, Retries, StreamFails, RequestFails,
     Others, deskVars
<1>5. ASSUME NEW kind \in {"connect", "disconnect"}, Click(kind) \/ ClickFails(kind)
      PROVE  lease.session = r.session
  BY <1>5 DEF Click, ClickFails, deskVars
<1>6. CASE OutputGone \/ FocusDenied \/ StartCommand \/ Destroy \/ CommandRuns
  BY <1>6 DEF OutputGone, FocusDenied, StartCommand, Destroy, CommandRuns, Takes, Launches,
     Stops, Stopped, deskVars
<1> QED
  BY <1>1, <1>2, <1>3, <1>4, <1>5, <1>6 DEF Next

\* A disconnect, however late it is served, never ends the session of a playback that goes on:
\* what it gives back is known to no job that may still play.
THEOREM LateDisconnect == Spec => LateDisconnectHarmless
<1> DEFINE Harmless ==
        \A r \in net \ net', j \in Jobs :
            r.kind = "disconnect" /\ Beats(j) /\ ~jobs[j].cancelled => lease' = lease
<1>1. ASSUME PhoneInv, [Next]_phoneVars PROVE Harmless
  <2>1. ASSUME NEW r \in net \ net', NEW j \in Jobs, r.kind = "disconnect", Beats(j),
               ~jobs[j].cancelled, lease' # lease
        PROVE  FALSE
    <3>1. lease.session = r.session
      BY <1>1, <2>1, OnlyServed
    <3>2. jobs[j].at = "playing" /\ lease.session = jobs[j].session
      BY <2>1 DEF Beats
    <3>3. r.session \notin KnownTo(j)
      BY <1>1, <2>1, <3>2 DEF PhoneInv, GivenBack, Active
    <3> QED
      BY <3>1, <3>2, <3>3 DEF KnownTo
  <2> QED
    BY <2>1
<1>2. PhoneInv /\ [Next]_phoneVars => [Harmless]_phoneVars
  BY <1>1
<1> QED
  BY <1>2, PhoneInvariant, PTL DEF Spec, LateDisconnectHarmless

-----------------------------------------------------------------------------
(* Refinement: the desktop that the phone talks to keeps to module Lease.  *)

\* The lease as module Lease has it.  There is no clock: what runs out is released.
Held(who, session, socket) ==
    [client |-> who, session |-> session, target |-> socket, refreshed |-> 0]

Abstract == INSTANCE Lease WITH
    Clients <- {"phone", "other"}, Addrs <- Nat, Sessions <- Nat, LeaseTimeout <- 1,
    NoDevice <- Held("none", NoSession, NoSocket), now <- 0,
    holder <- Held(lease.holder, lease.session, lease.socket),
    retired <- (1 .. sessions) \ {lease.session}

\* A lease that is free names nothing, the phone's names its session.
LeaseOK ==
    /\ lease.holder = "none" => lease = NoLease
    /\ lease.holder = "other" => lease.session = NoSession
    /\ lease.holder = "phone" => lease.session # NoSession

LeaseMoves ==
    \/ /\ lease'.holder \in {"phone", "other"}
       /\ Abstract!Grant(lease'.holder, lease'.session, lease'.socket)
    \/ Abstract!Renew(lease'.socket)
    \/ Abstract!Release

\* Nothing but the desktop touches the lease.
LEMMA Aside ==
  ASSUME \/ \E j \in Jobs : JobRuns(j) \/ Incompatible(j) \/ StreamFails(j) \/ RequestFails(j)
         \/ \E kind \in {"connect", "disconnect"} : Click(kind) \/ ClickFails(kind)
         \/ OutputGone \/ FocusDenied \/ StartCommand \/ Destroy \/ CommandRuns
         \/ PinChanges \/ UNCHANGED phoneVars
  PROVE  UNCHANGED <<lease, sessions>>
<1>1. ASSUME NEW j \in Jobs, JobRuns(j) PROVE UNCHANGED <<lease, sessions>>
  BY <1>1 DEF JobRuns, Attempt, Connected, Plays, StreamTimesOut, Leaves, Left, Refused,
     GivesUp, GivenUp, ConnectFails, Waits, Retries, Others, deskVars
<1>2. ASSUME NEW j \in Jobs, Incompatible(j) \/ StreamFails(j) \/ RequestFails(j)
      PROVE  UNCHANGED <<lease, sessions>>
  BY <1>2 DEF Incompatible, StreamFails, RequestFails, Others, deskVars
<1>3. ASSUME NEW kind \in {"connect", "disconnect"},
             Click(kind) \/ ClickFails(kind) \/ Takes(kind)
      PROVE  UNCHANGED <<lease, sessions>>
  BY <1>3 DEF Click, ClickFails, Takes, deskVars
<1>4. CASE OutputGone \/ FocusDenied \/ StartCommand \/ Destroy \/ Launches \/ Stops \/ Stopped
  BY <1>4 DEF OutputGone, FocusDenied, StartCommand, Destroy, Launches, Stops, Stopped, deskVars
<1>5. CASE PinChanges \/ UNCHANGED phoneVars
  BY <1>5 DEF PinChanges, phoneVars, deskVars
<1> QED
  BY <1>1, <1>2, <1>3, <1>4, <1>5 DEF CommandRuns

\* What is mapped to the lease of module Lease.
LEMMA HeldFields ==
  ASSUME NEW who, NEW x, NEW y
  PROVE  /\ Held(who, x, y).client = who /\ Held(who, x, y).session = x
         /\ Held(who, x, y).target = y /\ Held(who, x, y).refreshed = 0
BY DEF Held

\* The lease ends, and its session with it.
LEMMA Releases ==
  ASSUME PhoneInv, lease' = NoLease, sessions' = sessions
  PROVE  LeaseOK' /\ Abstract!Release
<1>1. /\ NoLease.holder = "none" /\ NoLease.session = 0 /\ NoLease.socket = NoSocket
      /\ NoSession = 0
  BY DEF NoLease, NoSession
<1>2. sessions \in Nat /\ lease.session \in 0 .. sessions
  BY DEF PhoneInv, PhoneTypeOK
<1>3. LeaseOK'
  BY <1>1 DEF LeaseOK
<1>4. Held(lease.holder, lease.session, lease.socket)' = Held("none", NoSession, NoSocket)
  BY <1>1 DEF Held
<1>5. (1 .. sessions') \ {lease'.session} = 1 .. sessions
  BY <1>1, <1>2
<1>6. 1 .. sessions = ((1 .. sessions) \ {lease.session}) \cup
         (IF lease.session # 0 THEN {lease.session} ELSE {})
  BY <1>2
<1>7. lease.session # 0 =>
         Held(lease.holder, lease.session, lease.socket) # Held("none", NoSession, NoSocket)
  BY <1>1, HeldFields
<1> QED
  BY <1>3, <1>4, <1>5, <1>6, <1>7, HeldFields DEF Abstract!Release, Abstract!Ending

\* A session that is resumed goes on, at the socket of its new attempt.
LEMMA Renews ==
  ASSUME PhoneInv, LeaseOK, NEW x, lease.holder = "phone",
         lease' = [lease EXCEPT !.socket = x], sessions' = sessions
  PROVE  LeaseOK' /\ Abstract!Renew(lease'.socket)
<1>1. lease \in [holder : {"none", "phone", "other"}, session : 0 .. sessions,
                 socket : 0 .. sockets]
  BY DEF PhoneInv, PhoneTypeOK
<1>2. /\ lease'.holder = "phone" /\ lease'.session = lease.session /\ lease'.socket = x
  BY <1>1
<1>3. LeaseOK'
  BY <1>2 DEF LeaseOK
<1>4. Held(lease.holder, lease.session, lease.socket) # Held("none", NoSession, NoSocket)
  BY HeldFields
<1> DEFINE h == Held(lease.holder, lease.session, lease.socket)
           m == Held("phone", lease.session, x)
<1>5. h' = m /\ h = Held("phone", lease.session, lease.socket)
  BY <1>2 DEF Held
<1>6. [h EXCEPT !.target = x, !.refreshed = 0] = m
  <2> DEFINE n == [h EXCEPT !.target = x, !.refreshed = 0]
             y == lease.session
             z == lease.socket
  <2>1. h \in [client : {"phone"}, session : {y}, target : {x, z}, refreshed : {0}]
    BY <1>5 DEF Held
  <2> HIDE DEF h, m, y, z
  <2>2. n \in [client : {"phone"}, session : {y}, target : {x}, refreshed : {0}]
    BY <2>1
  <2> HIDE DEF n
  <2>3. n = [client |-> "phone", session |-> y, target |-> x, refreshed |-> 0]
    BY <2>2
  <2>4. n = m
    BY <2>3 DEF Held, m, y
  <2> QED
    BY <2>4 DEF n
<1>7. h' = [h EXCEPT !.target = x, !.refreshed = 0]
  BY <1>5, <1>6
<1>8. ~(0 + 1 <= 0) /\ (1 .. sessions') \ {lease'.session} = (1 .. sessions) \ {lease.session}
  BY <1>2
<1> QED
  BY <1>2, <1>3, <1>4, <1>7, <1>8, HeldFields DEF Abstract!Renew, Abstract!Expired

\* The phone takes a session nobody had, where no other phone holds the lease.
LEMMA Grants ==
  ASSUME PhoneInv, LeaseOK, NEW x, lease.holder # "other", sessions' = sessions + 1,
         lease' = [holder |-> "phone", session |-> sessions', socket |-> x]
  PROVE  LeaseOK' /\ LeaseMoves
<1>1. /\ sessions \in Nat /\ lease.session \in 0 .. sessions
      /\ lease.holder \in {"none", "phone", "other"}
      /\ NoSession = 0
  BY DEF PhoneInv, PhoneTypeOK, NoSession
<1>2. lease'.holder = "phone" /\ lease'.session = sessions + 1 /\ lease'.socket = x
  OBVIOUS
<1>3. LeaseOK'
  BY <1>1, <1>2 DEF LeaseOK
<1> DEFINE h == Held(lease.holder, lease.session, lease.socket)
           none == Held("none", NoSession, NoSocket)
           s == sessions + 1
<1>4. (h = none) \/ (lease.holder = "phone" /\ h.client = "phone")
  BY <1>1, HeldFields DEF LeaseOK, NoLease
<1>5. s \notin (1 .. sessions) \ {lease.session} /\ h.session # s
  BY <1>1, HeldFields
<1>6. h' = [client |-> "phone", session |-> s, target |-> x, refreshed |-> 0]
  BY <1>2 DEF Held
<1>7. (1 .. sessions') \ {lease'.session} = 1 .. sessions
  BY <1>1, <1>2
<1>8. 1 .. sessions = ((1 .. sessions) \ {lease.session}) \cup
         (IF h # none /\ h.session # s THEN {h.session} ELSE {})
  <2>1. h.session = lease.session
    BY HeldFields
  <2>2. h = none => lease.session = 0
    BY <1>1, <2>1, HeldFields
  <2>3. h.session # s
    BY <1>5
  <2>4. (1 .. sessions) \ {0} = 1 .. sessions
    BY <1>1
  <2>5. CASE h = none
    BY <2>2, <2>4, <2>5
  <2>6. CASE h # none
    <3>1. (IF h # none /\ h.session # s THEN {h.session} ELSE {}) = {lease.session}
      BY <2>1, <2>3, <2>6
    <3>2. lease.session \in 1 .. sessions
      BY <1>1, <1>4, <2>1, <2>6 DEF LeaseOK
    <3> QED
      BY <3>1, <3>2
  <2> QED
    BY <2>5, <2>6
<1>9. Abstract!Grant("phone", s, x)
  BY <1>4, <1>5, <1>6, <1>7, <1>8 DEF Abstract!Grant, Abstract!Ending
<1> QED
  BY <1>2, <1>3, <1>9 DEF LeaseMoves

\* Another phone takes a lease that is free.
LEMMA OtherTakes ==
  ASSUME PhoneInv, LeaseOK, lease.holder = "none", sessions' = sessions,
         lease' = [NoLease EXCEPT !.holder = "other"]
  PROVE  LeaseOK' /\ LeaseMoves
<1>1. lease = NoLease /\ NoSession = 0
  BY DEF LeaseOK, NoSession
<1>2. /\ lease'.holder = "other" /\ lease'.session = 0 /\ lease'.socket = NoSocket
      /\ lease.holder = "none" /\ lease.session = 0 /\ lease.socket = NoSocket
  BY <1>1 DEF NoLease
<1>3. LeaseOK'
  BY <1>1, <1>2 DEF LeaseOK
<1> DEFINE h == Held(lease.holder, lease.session, lease.socket)
           none == Held("none", NoSession, NoSocket)
<1>4. h = none
  BY <1>1, <1>2
<1>5. h' = [client |-> "other", session |-> 0, target |-> NoSocket, refreshed |-> 0]
  BY <1>2 DEF Held
<1>6. (1 .. sessions') \ {lease'.session} = (1 .. sessions) \ {lease.session}
      /\ 0 \notin (1 .. sessions) \ {lease.session}
  BY <1>2
<1>7. Abstract!Grant("other", 0, NoSocket)
  BY <1>4, <1>5, <1>6 DEF Abstract!Grant, Abstract!Ending
<1> QED
  BY <1>2, <1>3, <1>7 DEF LeaseMoves

\* Every step keeps to Lease.
LEMMA LeaseStep ==
  ASSUME PhoneInv, LeaseOK, [Next]_phoneVars
  PROVE  LeaseOK' /\ (LeaseMoves \/ UNCHANGED <<lease, sessions>>)
<1>1. CASE UNCHANGED <<lease, sessions>>
  BY <1>1 DEF LeaseOK
<1>2. ASSUME NEW r \in net, Serve(r)
      PROVE  LeaseOK' /\ (LeaseMoves \/ UNCHANGED <<lease, sessions>>)
  <2>1. CASE ServeDisconnect(r)
    <3>1. (lease' = NoLease \/ lease' = lease) /\ sessions' = sessions
      BY <2>1 DEF ServeDisconnect
    <3> QED
      BY <1>1, <3>1, Releases DEF LeaseMoves
  <2>2. CASE ServeConnect(r)
    <3>1. CASE lease' = [lease EXCEPT !.socket = r.socket] /\ Resumes(r) /\ sessions' = sessions
      <4>1. lease.holder = "phone"
        BY <3>1 DEF Resumes
      <4> QED
        BY <3>1, <4>1, Renews DEF LeaseMoves
    <3>2. CASE /\ lease.holder # "other" /\ sessions' = sessions + 1
               /\ lease' = [holder |-> "phone", session |-> sessions', socket |-> r.socket]
      BY <3>2, Grants
    <3> QED
      BY <1>1, <2>2, <3>1, <3>2 DEF ServeConnect
  <2> QED
    BY <1>2, <2>1, <2>2 DEF Serve
<1>3. CASE Lapse \/ LeaseLost
  <2>1. lease' = NoLease /\ sessions' = sessions
    BY <1>3 DEF Lapse, LeaseLost
  <2> QED
    BY <2>1, Releases DEF LeaseMoves
<1>4. CASE OtherPhone
  <2>1. CASE lease.holder = "none" /\ lease' = [NoLease EXCEPT !.holder = "other"]
    <3>1. sessions' = sessions
      BY <1>4 DEF OtherPhone
    <3> QED
      BY <2>1, <3>1, OtherTakes
  <2>2. CASE lease' = NoLease
    <3>1. sessions' = sessions
      BY <1>4 DEF OtherPhone
    <3> QED
      BY <2>2, <3>1, Releases DEF LeaseMoves
  <2> QED
    BY <1>4, <2>1, <2>2 DEF OtherPhone
<1> QED
  BY <1>1, <1>2, <1>3, <1>4, Aside DEF Next

\* Where it starts.
LEMMA LeaseInit ==
  ASSUME Init
  PROVE  LeaseOK /\ Abstract!Init
<1>1. /\ lease.holder = "none" /\ lease.session = 0 /\ lease.socket = NoSocket
      /\ lease = NoLease /\ sessions = 0 /\ NoSession = 0
  BY DEF Init, NoLease, NoSession
<1>2. (1 .. sessions) \ {lease.session} = {}
  BY <1>1
<1> QED
  BY <1>1, <1>2 DEF LeaseOK, Abstract!Init

\* LeaseOK holds always, beside PhoneInv.
LEMMA LeaseAlways == Spec => [](PhoneInv /\ LeaseOK)
<1>1. Init => PhoneInv /\ LeaseOK
  BY PhoneInit, LeaseInit
<1>2. PhoneInv /\ LeaseOK /\ [Next]_phoneVars => (PhoneInv /\ LeaseOK)'
  BY PhoneStep, LeaseStep
<1> QED
  BY <1>1, <1>2, PTL DEF Spec

\* Whatever the phone asks, and however late its requests come, the desktop of this model
\* grants, renews and releases as Lease allows: nobody's running lease is taken over, and a
\* session that has ended never comes back.  The service's handlers implement Lease too
\* (SessionStateProofs).
THEOREM LeaseImplemented == Spec => Abstract!Spec
<1>1. Init => Abstract!Init
  BY LeaseInit
<1>2. ASSUME PhoneInv, PhoneInv', LeaseOK, [Next]_phoneVars
      PROVE  [Abstract!Next]_(Abstract!leaseVars)
  <2>1. CASE UNCHANGED <<lease, sessions>>
    BY <2>1 DEF Abstract!leaseVars
  <2>2. CASE LeaseMoves
    <3>1. lease'.session \in Nat /\ lease'.socket \in Nat
      BY <1>2 DEF PhoneInv, PhoneTypeOK
    <3>2. Abstract!Next
      BY <2>2, <3>1 DEF LeaseMoves, Abstract!Next
    <3> QED
      BY <3>2
  <2> QED
    BY <1>2, <2>1, <2>2, LeaseStep
<1>3. PhoneInv /\ PhoneInv' /\ LeaseOK /\ [Next]_phoneVars => [Abstract!Next]_(Abstract!leaseVars)
  BY <1>2
<1> QED
  BY <1>1, <1>3, LeaseAlways, PTL DEF Spec, Abstract!Spec

==============================================================================
