----------------------- MODULE AccountCreationProofs -----------------------
(***************************************************************************)
(* Proofs about AccountCreation, for any number of callers, registrations,  *)
(* accounts per run and faults: a failed registration leaves no account,    *)
(* an account uses the session of its own sign-up, and a run answers with   *)
(* an account that can be used.                                            *)
(***************************************************************************)
EXTENDS AccountCreation, QueueLemmas

-----------------------------------------------------------------------------
(* The inductive invariant *)

Job == [at : JobAt, temp : BOOLEAN, page : BOOLEAN, cookies : Jobs \cup {NoOne},
        persisted : BOOLEAN, alone : BOOLEAN]

WorldTyped ==
  /\ jobs \in [Jobs -> Job]
  /\ site \in [Jobs -> {"none", "pending", "active"}]
  /\ signedIn \in [Jobs \cup {Chrome} -> Jobs \cup {NoOne}]
  /\ usable \subseteq table /\ table \subseteq Jobs /\ headers \subseteq Jobs
  /\ pool \in [Jobs -> {"closed", "opening", "open"}]

(* The callers that carry out a run: one of them while the creator is busy. *)
Running == {c \in Callers : callers[c] \in {"runs", "auths", "checks"}}

CreatorTyped ==
  /\ run \in [busy : BOOLEAN, job : Jobs \cup {NoOne}, left : 0 .. MaxBatch]
  /\ callers \in [Callers -> CallerAt]
  /\ waiters \in Seq(Callers) /\ NoDuplicates(waiters)
  /\ ToSet(waiters) = {c \in Callers : callers[c] = "waits"}
  /\ run.busy => run.job \in Jobs /\ \E c \in Callers : Running = {c}
  /\ ~run.busy => run = NoRun /\ Running = {}

(* The registrations a run still needs can be started, and what a run knows *)
(* of the registration it waited for stays so.                             *)
RunOK ==
  /\ run.left <= Cardinality(Unused)
  /\ \A c \in Callers :
       /\ callers[c] \in {"auths", "checks"} => jobs[run.job].at = "completed"
       /\ callers[c] = "checks" => run.job \in table

(* An account is in the table because its registration wrote it and knows   *)
(* that it did, or the process crashed; only then does it have a context.   *)
SavedOK(j) ==
  /\ jobs[j].persisted => jobs[j].at \in {"init", "headers", "completed"}
  /\ j \in table => jobs[j].persisted \/ jobs[j].at = "lost"
  /\ pool[j] # "closed" =>
       jobs[j].at \in {"init", "headers", "completed", "failed", "lost"}

(* Registration j has opened its page in its browser and is not over.       *)
InBrowser(j) == Working(j) /\ jobs[j].at # "queued"

(* The sessions that a registration which was alone in the Chrome sees, on  *)
(* its way to the profile of its account, are its own.                     *)
SessionOK(j) ==
  /\ jobs[j].at \in {"none", "queued"} => jobs[j].alone
  /\ pool[j] = "open" => signedIn[j] # NoOne
  /\ jobs[j].alone =>
       /\ signedIn[j] \in {NoOne, j} /\ jobs[j].cookies \in {NoOne, j}
       /\ local /\ InBrowser(j) => signedIn[Chrome] \in {NoOne, j}

(* Two registrations in the Chrome know that they are not alone.            *)
SharedIsKnown ==
  local => \A i, j \in Jobs :
             i # j /\ InBrowser(i) /\ InBrowser(j) => ~jobs[i].alone

IInv ==
  /\ local \in BOOLEAN
  /\ WorldTyped
  /\ CreatorTyped
  /\ RunOK
  /\ \A j \in Jobs : SavedOK(j) /\ SessionOK(j)
  /\ SharedIsKnown

-----------------------------------------------------------------------------
(* Names *)

LEMMA Names ==
  /\ MaxJobs \in Nat /\ Jobs \subseteq Nat /\ NoOne \notin Jobs /\ Chrome \notin Jobs
  /\ Chrome # NoOne
BY CreationAssumption DEF Jobs, NoOne, Chrome

(* The next registration to start is one that was not started.             *)
LEMMA NextUnused ==
  ASSUME Cardinality(Unused) > 0
  PROVE  Min(Unused) \in Unused /\ Min(Unused) \in Jobs
<1>1. Unused \in SUBSET Nat /\ Unused \subseteq Jobs
  BY Names DEF Unused
<1>2. Unused # {}
  BY FS_EmptySet
<1>3. Min(Unused) \in Unused
  BY <1>1, <1>2, LeastNumber
<1> QED BY <1>1, <1>3

LEMMA UnusedIsFinite ==
  IsFiniteSet(Unused) /\ Cardinality(Unused) \in Nat
<1>1. IsFiniteSet(Jobs)
  BY Names, FS_Interval DEF Jobs
<1>2. IsFiniteSet(Unused)
  BY <1>1, FS_Subset DEF Unused
<1> QED BY <1>2, FS_CardinalityType

-----------------------------------------------------------------------------
(* The accounts and their registrations *)

World ==
  /\ local \in BOOLEAN
  /\ WorldTyped
  /\ \A j \in Jobs : SavedOK(j) /\ SessionOK(j)
  /\ SharedIsKnown

(* What a step leaves as it is of registration i and its account.           *)
JobKept(i) ==
  /\ jobs'[i] = jobs[i] /\ signedIn'[i] = signedIn[i] /\ pool'[i] = pool[i]
  /\ i \in table' <=> i \in table

(* A step of one registration, or of its account, which writes its own      *)
(* session into the Chrome at most.                                        *)
LEMMA StepOfOneJob ==
  ASSUME World, NEW j \in Jobs, UNCHANGED local, WorldTyped',
         \A i \in Jobs \ {j} : JobKept(i),
         SavedOK(j)', InBrowser(j)' => InBrowser(j),
         jobs'[j].alone = jobs[j].alone,
         jobs'[j].at \in {"none", "queued"} => jobs'[j].alone,
         \/ signedIn'[Chrome] = signedIn[Chrome]
         \/ InBrowser(j) /\ signedIn'[Chrome] = j,
         pool'[j] = "open" => signedIn'[j] # NoOne,
         jobs[j].alone => signedIn'[j] \in {NoOne, j} /\ jobs'[j].cookies \in {NoOne, j}
  PROVE  World'
<1>1. ASSUME NEW i \in Jobs \ {j}
      PROVE  SavedOK(i)' /\ SessionOK(i)' /\ (InBrowser(i)' <=> InBrowser(i))
             /\ jobs'[i] = jobs[i]
  <2>1. JobKept(i) /\ SavedOK(i) /\ SessionOK(i)
    BY DEF World
  <2>2. SavedOK(i)' /\ (InBrowser(i)' <=> InBrowser(i))
    BY <2>1 DEF JobKept, SavedOK, InBrowser, Working
  <2>3. ASSUME jobs[i].alone, local, InBrowser(i)
        PROVE  signedIn'[Chrome] \in {NoOne, i}
    <3>1. ~InBrowser(j)
      BY <2>3 DEF World, SharedIsKnown
    <3> QED BY <2>1, <2>3, <3>1 DEF SessionOK
  <2>4. SessionOK(i)'
    BY <2>1, <2>2, <2>3 DEF JobKept, SessionOK
  <2> QED BY <2>1, <2>2, <2>4 DEF JobKept
<1>2. SessionOK(j)'
  <2>1. SessionOK(j)
    BY DEF World
  <2>2. ASSUME jobs[j].alone, local, InBrowser(j)
        PROVE  signedIn'[Chrome] \in {NoOne, j}
    BY <2>1, <2>2 DEF SessionOK
  <2> QED BY <2>2 DEF SessionOK
<1>3. SharedIsKnown'
  BY <1>1 DEF World, SharedIsKnown
<1> QED BY <1>1, <1>2, <1>3 DEF World

(* Between opening the page and letting the browser go.                     *)
Signing == {"mailbox", "form", "captcha", "gate", "verify", "activate",
            "authenticate", "session", "settle"}

LEMMA JobFields ==
  ASSUME WorldTyped, NEW j \in Jobs, NEW m \in Job, jobs' = [jobs EXCEPT ![j] = m]
  PROVE  /\ jobs' \in [Jobs -> Job] /\ jobs'[j] = m
         /\ \A i \in Jobs \ {j} : jobs'[i] = jobs[i]
BY DEF WorldTyped

LEMMA GoesOutcome ==
  ASSUME WorldTyped, NEW j \in Jobs, NEW at \in JobAt, Goes(j, at)
  PROVE  /\ jobs' \in [Jobs -> Job] /\ jobs'[j].at = at
         /\ jobs'[j].persisted = jobs[j].persisted
         /\ jobs'[j].cookies = jobs[j].cookies /\ jobs'[j].alone = jobs[j].alone
         /\ \A i \in Jobs \ {j} : jobs'[i] = jobs[i]
<1>1. jobs[j] \in Job
  BY DEF WorldTyped
<1>2. PICK m : m = [jobs[j] EXCEPT !.at = at]
  OBVIOUS
<1>3. /\ m \in Job /\ m.at = at /\ m.persisted = jobs[j].persisted
      /\ m.cookies = jobs[j].cookies /\ m.alone = jobs[j].alone
  BY <1>1, <1>2 DEF Job
<1>4. jobs' = [jobs EXCEPT ![j] = m]
  BY <1>2 DEF Goes
<1> QED BY <1>3, <1>4, JobFields

(* What the browser of a registration may have become.                      *)
LEMMA SignsInOutcome ==
  ASSUME WorldTyped, NEW j \in Jobs, local \in BOOLEAN,
         signedIn' \in {signedIn, [signedIn EXCEPT ![Browser(j)] = j]}
  PROVE  /\ signedIn' \in [Jobs \cup {Chrome} -> Jobs \cup {NoOne}]
         /\ signedIn'[j] \in {signedIn[j], j}
         /\ signedIn'[Chrome] \in {signedIn[Chrome], j}
         /\ \A i \in Jobs \ {j} : signedIn'[i] = signedIn[i]
<1>1. Browser(j) \in {j, Chrome} /\ j # Chrome /\ Chrome \notin Jobs
  BY Names DEF Browser
<1>2. signedIn \in [Jobs \cup {Chrome} -> Jobs \cup {NoOne}]
  BY DEF WorldTyped
<1>3. CASE signedIn' = signedIn
  BY <1>2, <1>3
<1>4. CASE signedIn' = [signedIn EXCEPT ![Browser(j)] = j]
  <2>1. CASE Browser(j) = j
    BY <1>1, <1>2, <1>4, <2>1
  <2>2. CASE Browser(j) = Chrome
    BY <1>1, <1>2, <1>4, <2>2
  <2> QED BY <1>1, <2>1, <2>2
<1> QED BY <1>3, <1>4

(* The steps of the sign-up.                                               *)
SignUpStep(j, at) ==
  /\ jobs[j].at \in Signing /\ Goes(j, at)
  /\ site' \in [Jobs -> {"none", "pending", "active"}]
  /\ signedIn' \in {signedIn, [signedIn EXCEPT ![Browser(j)] = j]}
  /\ UNCHANGED <<table, usable, pool, headers>>

LEMMA SignUpWorld ==
  ASSUME World, NEW j \in Jobs, NEW at \in Signing, SignUpStep(j, at), UNCHANGED local
  PROVE  World'
<1>1. WorldTyped /\ SavedOK(j) /\ SessionOK(j) /\ local \in BOOLEAN
  BY DEF World
<1>2. at \in JobAt
  BY DEF Signing, JobAt
<1>3. /\ jobs' \in [Jobs -> Job] /\ jobs'[j].at = at
      /\ jobs'[j].persisted = jobs[j].persisted
      /\ jobs'[j].cookies = jobs[j].cookies /\ jobs'[j].alone = jobs[j].alone
      /\ \A i \in Jobs \ {j} : jobs'[i] = jobs[i]
  BY <1>1, <1>2, GoesOutcome DEF SignUpStep
<1>4. /\ signedIn' \in [Jobs \cup {Chrome} -> Jobs \cup {NoOne}]
      /\ signedIn'[j] \in {signedIn[j], j}
      /\ signedIn'[Chrome] \in {signedIn[Chrome], j}
      /\ \A i \in Jobs \ {j} : signedIn'[i] = signedIn[i]
  BY <1>1, SignsInOutcome DEF SignUpStep
<1>5. WorldTyped'
  BY <1>1, <1>3, <1>4 DEF WorldTyped, SignUpStep
<1>6. \A i \in Jobs \ {j} : JobKept(i)
  BY <1>3, <1>4 DEF JobKept, SignUpStep
<1>7. jobs[j].at \notin {"none", "queued", "init", "headers"} \cup Ended /\ InBrowser(j)
  BY DEF SignUpStep, Signing, Ended, InBrowser, Working
<1>8. at \notin {"none", "queued"}
  BY DEF Signing
<1>9. ~jobs[j].persisted /\ j \notin table /\ pool[j] = "closed"
  BY <1>1, <1>7 DEF SavedOK, Ended
<1>10. SavedOK(j)'
  BY <1>3, <1>9 DEF SavedOK, SignUpStep
<1>11. jobs[j].alone => signedIn'[j] \in {NoOne, j} /\ jobs'[j].cookies \in {NoOne, j}
  BY <1>1, <1>3, <1>4 DEF SessionOK
<1>12. pool'[j] # "open"
  BY <1>9 DEF SignUpStep
<1>13. \/ signedIn'[Chrome] = signedIn[Chrome]
       \/ InBrowser(j) /\ signedIn'[Chrome] = j
  BY <1>4, <1>7
<1> QED BY <1>3, <1>5, <1>6, <1>7, <1>8, <1>10, <1>11, <1>12, <1>13, StepOfOneJob

LEMMA StaysThere ==
  ASSUME WorldTyped, NEW j \in Jobs, UNCHANGED jobs
  PROVE  Goes(j, jobs[j].at)
<1>1. jobs[j] \in Job /\ jobs \in [Jobs -> Job]
  BY DEF WorldTyped
<1>2. [jobs[j] EXCEPT !.at = jobs[j].at] = jobs[j]
  BY <1>1 DEF Job
<1> QED BY <1>1, <1>2 DEF Goes

LEMMA SignUpSteps ==
  ASSUME World, NEW j \in Jobs, UNCHANGED local,
         \/ GetsMailbox(j) \/ Submits(j) \/ PassesCaptcha(j) \/ PassesGate(j)
         \/ OpensLink(j) \/ Verifies(j) \/ LogsIn(j) \/ Activates(j) \/ GetsSession(j)
  PROVE  World' /\ \E at \in Signing : SignUpStep(j, at)
<1>1. WorldTyped
  BY DEF World
<1>2. ASSUME NEW s \in {"pending", "active"}
      PROVE  [site EXCEPT ![j] = s] \in [Jobs -> {"none", "pending", "active"}]
  BY <1>1 DEF WorldTyped
<1>3. site \in [Jobs -> {"none", "pending", "active"}]
  BY <1>1 DEF WorldTyped
<1>4. SiteAnswers(j) =>
        /\ site' \in [Jobs -> {"none", "pending", "active"}]
        /\ signedIn' \in {signedIn, [signedIn EXCEPT ![Browser(j)] = j]}
  BY <1>2, <1>3 DEF SiteAnswers
<1>5. \E at \in Signing : SignUpStep(j, at)
  <2>1. CASE GetsMailbox(j)
    <3>1. SignUpStep(j, "form")
      BY <1>3, <2>1 DEF GetsMailbox, SignUpStep, Signing
    <3> QED BY <3>1 DEF Signing
  <2>2. CASE Submits(j)
    <3>1. SignUpStep(j, "captcha")
      BY <1>4, <2>2 DEF Submits, SignUpStep, Signing
    <3> QED BY <3>1 DEF Signing
  <2>3. CASE PassesCaptcha(j)
    <3>1. SignUpStep(j, "gate")
      BY <1>4, <2>3 DEF PassesCaptcha, SignUpStep, Signing
    <3> QED BY <3>1 DEF Signing
  <2>4. CASE PassesGate(j)
    <3>1. PICK at \in {"verify", "activate", "session"} : Goes(j, at)
      BY <2>4 DEF PassesGate
    <3>2. SignUpStep(j, at)
      BY <1>3, <2>4, <3>1 DEF PassesGate, SignUpStep, Signing
    <3> QED BY <3>2 DEF Signing
  <2>5. CASE OpensLink(j)
    <3>1. Goes(j, "verify")
      BY <1>1, <2>5, StaysThere DEF OpensLink
    <3>2. SignUpStep(j, "verify")
      BY <1>2, <2>5, <3>1 DEF OpensLink, SignUpStep, Signing
    <3> QED BY <3>2 DEF Signing
  <2>6. CASE Verifies(j)
    <3>1. SignUpStep(j, "authenticate")
      BY <1>3, <2>6 DEF Verifies, SignUpStep, Signing
    <3> QED BY <3>1 DEF Signing
  <2>7. CASE LogsIn(j)
    <3>1. SignUpStep(j, "session")
      BY <1>3, <2>7 DEF LogsIn, SignUpStep, Signing
    <3> QED BY <3>1 DEF Signing
  <2>8. CASE Activates(j)
    <3>1. PICK at \in {"activate", "session"} : Goes(j, at)
      BY <1>1, <2>8, StaysThere DEF Activates
    <3>2. SignUpStep(j, at)
      BY <1>2, <1>3, <2>8, <3>1 DEF Activates, SignUpStep, Signing
    <3> QED BY <3>2 DEF Signing
  <2>9. CASE GetsSession(j)
    <3>1. SignUpStep(j, "settle")
      BY <1>3, <2>9 DEF GetsSession, SignUpStep, Signing
    <3> QED BY <3>1 DEF Signing
  <2> QED BY <2>1, <2>2, <2>3, <2>4, <2>5, <2>6, <2>7, <2>8, <2>9
<1> QED BY <1>5, SignUpWorld

(* Opening the Chrome hides the others' pages, and all of them know.        *)
LEMMA LaunchesWorld ==
  ASSUME World, NEW j \in Jobs, Launches(j), UNCHANGED local
  PROVE  World' /\ jobs'[j].at \in Signing /\ \A i \in Jobs \ {j} : jobs'[i].at = jobs[i].at
<1>1. WorldTyped /\ SavedOK(j) /\ SessionOK(j) /\ local \in BOOLEAN
  BY DEF World
<1>2. PICK others : others = {i \in Jobs \ {j} : local /\ InBrowser(i)}
  OBVIOUS
<1>3. PICK m : m = [jobs[j] EXCEPT !.at = IF jobs[j].temp THEN "mailbox" ELSE "form",
                                   !.page = TRUE, !.alone = (others = {})]
  OBVIOUS
<1>4. others = {i \in Jobs \ {j} : local /\ Working(i) /\ jobs[i].at # "queued"}
  BY <1>2 DEF InBrowser
<1>5. jobs' = [i \in Jobs |->
                IF i = j THEN m
                ELSE IF i \in others THEN [jobs[i] EXCEPT !.page = FALSE, !.alone = FALSE]
                ELSE jobs[i]]
  BY <1>3, <1>4 DEF Launches
<1>6. jobs[j] \in Job /\ jobs \in [Jobs -> Job]
  BY <1>1 DEF WorldTyped
<1>7. /\ m \in Job /\ m.at \in {"mailbox", "form"} /\ m.alone = (others = {})
      /\ m.persisted = jobs[j].persisted /\ m.cookies = jobs[j].cookies
  BY <1>3, <1>6 DEF Job, JobAt
<1>8. ASSUME NEW i \in Jobs \ {j}
      PROVE  /\ jobs'[i] \in Job /\ jobs'[i].at = jobs[i].at
             /\ jobs'[i].persisted = jobs[i].persisted
             /\ jobs'[i].cookies = jobs[i].cookies
             /\ jobs'[i].alone = (IF i \in others THEN FALSE ELSE jobs[i].alone)
  BY <1>5, <1>6 DEF Job
<1>9. jobs' \in [Jobs -> Job] /\ jobs'[j] = m
  BY <1>5, <1>7, <1>8
<1>10. /\ signedIn' \in [Jobs \cup {Chrome} -> Jobs \cup {NoOne}]
       /\ signedIn'[j] \in {signedIn[j], NoOne}
       /\ local => signedIn'[Chrome] = NoOne
       /\ \A i \in Jobs \ {j} : signedIn'[i] = signedIn[i]
  <2>1. signedIn' = [signedIn EXCEPT ![IF local THEN Chrome ELSE j] = NoOne]
    BY DEF Launches, Launched, Browser
  <2>2. signedIn \in [Jobs \cup {Chrome} -> Jobs \cup {NoOne}]
    BY <1>1 DEF WorldTyped
  <2>3. CASE local
    BY <2>1, <2>2, <2>3, Names
  <2>4. CASE ~local
    BY <2>1, <2>2, <2>4, Names
  <2> QED BY <2>3, <2>4
<1>11. WorldTyped'
  BY <1>1, <1>9, <1>10 DEF WorldTyped, Launches
<1>12. ~jobs[j].persisted /\ j \notin table /\ pool[j] = "closed" /\ jobs[j].alone
  BY <1>1 DEF Launches, SavedOK, SessionOK
<1>13. SavedOK(j)' /\ SessionOK(j)'
  <2>1. SavedOK(j)'
    BY <1>7, <1>9, <1>12 DEF SavedOK, Launches
  <2>2. signedIn'[j] \in {NoOne, j} /\ m.cookies \in {NoOne, j}
    BY <1>1, <1>7, <1>10, <1>12 DEF SessionOK
  <2>3. pool'[j] = "closed"
    BY <1>12 DEF Launches
  <2>4. SessionOK(j)'
    BY <1>7, <1>9, <1>10, <2>2, <2>3 DEF SessionOK
  <2> QED BY <2>1, <2>4
<1>14. ASSUME NEW i \in Jobs \ {j}
       PROVE  SavedOK(i)' /\ SessionOK(i)' /\ (InBrowser(i)' <=> InBrowser(i))
  <2>1. SavedOK(i) /\ SessionOK(i) /\ pool'[i] = pool[i] /\ table' = table
    BY DEF World, Launches
  <2>2. InBrowser(i)' <=> InBrowser(i)
    BY <1>8 DEF InBrowser, Working
  <2>3. SavedOK(i)'
    BY <1>8, <2>1 DEF SavedOK
  <2>4. i \in others => InBrowser(i)
    BY <1>2
  <2>5. jobs'[i].alone => jobs[i].alone
    BY <1>8
  <2>6. jobs'[i].at \in {"none", "queued"} => jobs'[i].alone
    BY <1>8, <2>1, <2>4 DEF SessionOK, InBrowser, Working, Ended
  <2>7. SessionOK(i)'
    BY <1>8, <1>10, <2>1, <2>5, <2>6 DEF SessionOK
  <2> QED BY <2>2, <2>3, <2>7
<1>15. SharedIsKnown'
  <2>1. SUFFICES ASSUME local', NEW i \in Jobs, NEW k \in Jobs, i # k,
                        InBrowser(i)', InBrowser(k)'
                 PROVE  ~jobs'[i].alone
    BY DEF SharedIsKnown
  <2>2. CASE i = j
    <3>1. k \in others
      BY <1>2, <1>14, <2>1, <2>2
    <3> QED BY <1>7, <1>9, <2>2, <3>1
  <2>3. CASE i # j
    <3>1. i \in others
      BY <1>2, <1>14, <2>1, <2>3
    <3> QED BY <1>8, <2>3, <3>1
  <2> QED BY <2>2, <2>3
<1>16. jobs'[j].at \in Signing
  BY <1>7, <1>9 DEF Signing
<1> QED BY <1>1, <1>8, <1>11, <1>13, <1>14, <1>15, <1>16 DEF World

(* The session leaves the browser.                                         *)
LEMMA SettlesWorld ==
  ASSUME World, NEW j \in Jobs, Settles(j), UNCHANGED local
  PROVE  /\ World' /\ jobs'[j].at = "saving"
         /\ \A i \in Jobs \ {j} : jobs'[i] = jobs[i]
<1>1. WorldTyped /\ SavedOK(j) /\ SessionOK(j) /\ local \in BOOLEAN
  BY DEF World
<1>2. PICK cookies : cookies = IF local THEN signedIn[Chrome] ELSE NoOne
  OBVIOUS
<1>3. cookies \in Jobs \cup {NoOne}
  BY <1>1, <1>2 DEF WorldTyped
<1>4. PICK m : m = [jobs[j] EXCEPT !.at = "saving", !.page = FALSE, !.cookies = cookies]
  OBVIOUS
<1>5. jobs[j] \in Job
  BY <1>1 DEF WorldTyped
<1>6. /\ m \in Job /\ m.at = "saving" /\ m.cookies = cookies
      /\ m.persisted = jobs[j].persisted /\ m.alone = jobs[j].alone
  BY <1>3, <1>4, <1>5 DEF Job, JobAt
<1>7. jobs' = [jobs EXCEPT ![j] = m]
  BY <1>2, <1>4 DEF Settles
<1>8. jobs' \in [Jobs -> Job] /\ jobs'[j] = m /\ \A i \in Jobs \ {j} : jobs'[i] = jobs[i]
  BY <1>1, <1>6, <1>7, JobFields
<1>9. WorldTyped'
  BY <1>1, <1>8 DEF WorldTyped, Settles
<1>10. \A i \in Jobs \ {j} : JobKept(i)
  BY <1>8 DEF JobKept, Settles
<1>11. InBrowser(j) /\ ~jobs[j].persisted /\ j \notin table /\ pool[j] = "closed"
  BY <1>1 DEF Settles, SavedOK, InBrowser, Working, Ended
<1>12. SavedOK(j)' /\ pool'[j] # "open"
  BY <1>6, <1>8, <1>11 DEF SavedOK, Settles
<1>13. jobs[j].alone => signedIn'[j] \in {NoOne, j} /\ jobs'[j].cookies \in {NoOne, j}
  <2>1. jobs[j].alone => cookies \in {NoOne, j}
    BY <1>1, <1>2, <1>11 DEF SessionOK
  <2> QED BY <1>1, <1>6, <1>8, <2>1 DEF SessionOK, Settles
<1>14. signedIn'[Chrome] = signedIn[Chrome]
  BY DEF Settles
<1>15. World'
  BY <1>6, <1>8, <1>9, <1>10, <1>11, <1>12, <1>13, <1>14, StepOfOneJob
<1> QED BY <1>6, <1>8, <1>15

LEMMA SavesWorld ==
  ASSUME World, NEW j \in Jobs, Saves(j), UNCHANGED local
  PROVE  /\ World' /\ jobs'[j].at = "init"
         /\ \A i \in Jobs \ {j} : jobs'[i] = jobs[i]
<1>1. WorldTyped /\ SavedOK(j) /\ SessionOK(j) /\ local \in BOOLEAN
  BY DEF World
<1>2. PICK m : m = [jobs[j] EXCEPT !.at = "init", !.persisted = TRUE]
  OBVIOUS
<1>3. jobs[j] \in Job
  BY <1>1 DEF WorldTyped
<1>4. /\ m \in Job /\ m.at = "init" /\ m.persisted
      /\ m.cookies = jobs[j].cookies /\ m.alone = jobs[j].alone
  BY <1>2, <1>3 DEF Job, JobAt
<1>5. jobs' = [jobs EXCEPT ![j] = m]
  BY <1>2 DEF Saves
<1>6. jobs' \in [Jobs -> Job] /\ jobs'[j] = m /\ \A i \in Jobs \ {j} : jobs'[i] = jobs[i]
  BY <1>1, <1>4, <1>5, JobFields
<1>7. WorldTyped'
  BY <1>1, <1>6 DEF WorldTyped, Saves
<1>8. \A i \in Jobs \ {j} : JobKept(i)
  BY <1>6 DEF JobKept, Saves
<1>9. InBrowser(j) /\ pool'[j] = "closed"
  BY <1>1 DEF Saves, SavedOK, InBrowser, Working, Ended
<1>10. SavedOK(j)'
  BY <1>4, <1>6 DEF SavedOK
<1>11. jobs[j].alone => signedIn'[j] \in {NoOne, j} /\ jobs'[j].cookies \in {NoOne, j}
  BY <1>1, <1>4, <1>6 DEF SessionOK, Saves
<1>12. signedIn'[Chrome] = signedIn[Chrome]
  BY DEF Saves
<1>13. World'
  BY <1>4, <1>6, <1>7, <1>8, <1>9, <1>10, <1>11, <1>12, StepOfOneJob
<1> QED BY <1>4, <1>6, <1>13

(* A context that opens is signed in, with its own session or with the      *)
(* cookies it was given.                                                   *)
LEMMA OpensOutcome ==
  ASSUME WorldTyped, NEW j \in Jobs, NEW cookies \in Jobs \cup {NoOne}, Opens(j, cookies)
  PROVE  /\ signedIn' \in [Jobs \cup {Chrome} -> Jobs \cup {NoOne}]
         /\ signedIn'[j] # NoOne /\ signedIn'[j] \in {cookies, signedIn[j], j}
         /\ signedIn'[Chrome] = signedIn[Chrome]
         /\ pool' \in [Jobs -> {"closed", "opening", "open"}] /\ pool'[j] = "open"
         /\ \A i \in Jobs \ {j} : signedIn'[i] = signedIn[i] /\ pool'[i] = pool[i]
         /\ headers' \subseteq Jobs
<1>1. PICK s : s = IF cookies # NoOne THEN cookies
                   ELSE IF signedIn[j] # NoOne THEN signedIn[j] ELSE j
  OBVIOUS
<1>2. signedIn \in [Jobs \cup {Chrome} -> Jobs \cup {NoOne}]
      /\ pool \in [Jobs -> {"closed", "opening", "open"}] /\ headers \subseteq Jobs
  BY DEF WorldTyped
<1>3. s \in Jobs /\ s \in {cookies, signedIn[j], j} /\ s # NoOne
  BY <1>1, <1>2, Names
<1>4. signedIn' = [signedIn EXCEPT ![j] = s]
  BY <1>1 DEF Opens
<1>5. pool' = [pool EXCEPT ![j] = "open"] /\ headers' \subseteq Jobs
  BY <1>2 DEF Opens
<1> QED BY <1>2, <1>3, <1>4, <1>5, Names

(* What a context, its account and its headers may become while the         *)
(* registrations stay as they are.                                         *)
LEMMA ContextWorld ==
  ASSUME World, NEW j \in Jobs, UNCHANGED <<local, site, table, jobs>>,
         usable' \subseteq table, headers' \subseteq Jobs,
         \/ UNCHANGED <<signedIn, pool>>
         \/ Opens(j, NoOne)
         \/ pool' = [pool EXCEPT ![j] = "closed"] /\ UNCHANGED signedIn
         \/ pool' = [pool EXCEPT ![j] = "opening"] /\ UNCHANGED signedIn,
         j \in table \/ pool[j] # "closed" \/ jobs[j].at \in {"init", "headers"}
  PROVE  World'
<1>1. WorldTyped /\ SavedOK(j) /\ SessionOK(j) /\ local \in BOOLEAN
  BY DEF World
<1>2. /\ signedIn' \in [Jobs \cup {Chrome} -> Jobs \cup {NoOne}]
      /\ signedIn'[j] \in {signedIn[j], j}
      /\ signedIn'[Chrome] = signedIn[Chrome]
      /\ pool' \in [Jobs -> {"closed", "opening", "open"}]
      /\ pool'[j] = "open" => signedIn'[j] # NoOne
      /\ \A i \in Jobs \ {j} : signedIn'[i] = signedIn[i] /\ pool'[i] = pool[i]
  <2>1. CASE UNCHANGED <<signedIn, pool>>
    BY <1>1, <2>1 DEF WorldTyped, SessionOK
  <2>2. CASE Opens(j, NoOne)
    <3>1. signedIn'[j] # NoOne /\ signedIn'[j] \in {NoOne, signedIn[j], j}
      BY <1>1, <2>2, OpensOutcome
    <3> QED BY <1>1, <2>2, <3>1, OpensOutcome
  <2>3. CASE pool' = [pool EXCEPT ![j] = "closed"] /\ UNCHANGED signedIn
    BY <1>1, <2>3 DEF WorldTyped
  <2>4. CASE pool' = [pool EXCEPT ![j] = "opening"] /\ UNCHANGED signedIn
    BY <1>1, <2>4 DEF WorldTyped
  <2> QED BY <2>1, <2>2, <2>3, <2>4
<1>3. WorldTyped'
  BY <1>1, <1>2 DEF WorldTyped
<1>4. \A i \in Jobs \ {j} : JobKept(i)
  BY <1>2 DEF JobKept
<1>5. SavedOK(j)'
  BY <1>1 DEF SavedOK
<1>6. jobs[j].alone => signedIn'[j] \in {NoOne, j} /\ jobs'[j].cookies \in {NoOne, j}
  BY <1>1, <1>2 DEF SessionOK
<1>7. InBrowser(j)' <=> InBrowser(j)
  BY DEF InBrowser, Working
<1>8. jobs'[j].at \in {"none", "queued"} => jobs'[j].alone
  BY <1>1 DEF SessionOK
<1> QED BY <1>2, <1>3, <1>4, <1>5, <1>6, <1>7, <1>8, StepOfOneJob

LEMMA InitialisesWorld ==
  ASSUME World, NEW j \in Jobs, Initialises(j), UNCHANGED local
  PROVE  /\ World' /\ jobs'[j].at = "headers"
         /\ \A i \in Jobs \ {j} : jobs'[i] = jobs[i]
<1>1. WorldTyped /\ SavedOK(j) /\ SessionOK(j) /\ local \in BOOLEAN
  BY DEF World
<1>2. PICK m : m = [jobs[j] EXCEPT !.at = "headers", !.cookies = NoOne]
  OBVIOUS
<1>3. jobs[j] \in Job
  BY <1>1 DEF WorldTyped
<1>4. /\ m \in Job /\ m.at = "headers" /\ m.cookies = NoOne
      /\ m.persisted = jobs[j].persisted /\ m.alone = jobs[j].alone
  BY <1>2, <1>3 DEF Job, JobAt
<1>5. jobs' = [jobs EXCEPT ![j] = m]
  BY <1>2 DEF Initialises
<1>6. jobs' \in [Jobs -> Job] /\ jobs'[j] = m /\ \A i \in Jobs \ {j} : jobs'[i] = jobs[i]
  BY <1>1, <1>4, <1>5, JobFields
<1>7. /\ signedIn' \in [Jobs \cup {Chrome} -> Jobs \cup {NoOne}]
      /\ signedIn'[j] \in {jobs[j].cookies, signedIn[j], j}
      /\ signedIn'[Chrome] = signedIn[Chrome]
      /\ pool' \in [Jobs -> {"closed", "opening", "open"}]
      /\ pool'[j] = "open" => signedIn'[j] # NoOne
      /\ \A i \in Jobs \ {j} : signedIn'[i] = signedIn[i] /\ pool'[i] = pool[i]
      /\ headers' \subseteq Jobs
  <2>1. CASE Opens(j, jobs[j].cookies)
    <3>1. jobs[j].cookies \in Jobs \cup {NoOne}
      BY <1>3 DEF Job
    <3> QED BY <1>1, <2>1, <3>1, OpensOutcome
  <2>2. CASE UNCHANGED <<signedIn, pool, headers>>
    BY <1>1, <2>2 DEF WorldTyped, SessionOK
  <2> QED BY <2>1, <2>2 DEF Initialises
<1>8. WorldTyped'
  BY <1>1, <1>6, <1>7 DEF WorldTyped, Initialises
<1>9. \A i \in Jobs \ {j} : JobKept(i)
  BY <1>6, <1>7 DEF JobKept, Initialises
<1>10. InBrowser(j)
  BY DEF Initialises, InBrowser, Working, Ended
<1>11. SavedOK(j)'
  BY <1>1, <1>4, <1>6 DEF SavedOK, Initialises
<1>12. jobs[j].alone => signedIn'[j] \in {NoOne, j} /\ jobs'[j].cookies \in {NoOne, j}
  BY <1>1, <1>4, <1>6, <1>7 DEF SessionOK
<1>13. World'
  BY <1>4, <1>6, <1>7, <1>8, <1>9, <1>10, <1>11, <1>12, StepOfOneJob
<1> QED BY <1>4, <1>6, <1>13

LEMMA CompletesWorld ==
  ASSUME World, NEW j \in Jobs, Completes(j), UNCHANGED local
  PROVE  /\ World' /\ jobs'[j].at = "completed"
         /\ \A i \in Jobs \ {j} : jobs'[i] = jobs[i]
<1>1. WorldTyped /\ SavedOK(j) /\ SessionOK(j) /\ local \in BOOLEAN
  BY DEF World
<1>2. "completed" \in JobAt
  BY DEF JobAt, Ended
<1>3. /\ jobs' \in [Jobs -> Job] /\ jobs'[j].at = "completed"
      /\ jobs'[j].persisted = jobs[j].persisted
      /\ jobs'[j].cookies = jobs[j].cookies /\ jobs'[j].alone = jobs[j].alone
      /\ \A i \in Jobs \ {j} : jobs'[i] = jobs[i]
  BY <1>1, <1>2, GoesOutcome DEF Completes
<1>4. WorldTyped'
  BY <1>1, <1>3 DEF WorldTyped, Completes
<1>5. \A i \in Jobs \ {j} : JobKept(i)
  BY <1>3 DEF JobKept, Completes
<1>6. InBrowser(j)
  BY DEF Completes, InBrowser, Working, Ended
<1>7. SavedOK(j)'
  BY <1>1, <1>3 DEF SavedOK, Completes
<1>8. /\ jobs[j].alone => signedIn'[j] \in {NoOne, j} /\ jobs'[j].cookies \in {NoOne, j}
      /\ pool'[j] = "open" => signedIn'[j] # NoOne
      /\ signedIn'[Chrome] = signedIn[Chrome]
  BY <1>1, <1>3 DEF SessionOK, Completes
<1>9. World'
  BY <1>3, <1>4, <1>5, <1>6, <1>7, <1>8, StepOfOneJob
<1> QED BY <1>3, <1>9

LEMMA FailsWorld ==
  ASSUME World, NEW j \in Jobs, Fails(j), UNCHANGED local
  PROVE  /\ World' /\ jobs'[j].at = "failed"
         /\ \A i \in Jobs \ {j} : jobs'[i] = jobs[i] /\ (i \in table => i \in table')
<1>1. WorldTyped /\ SavedOK(j) /\ SessionOK(j) /\ local \in BOOLEAN
  BY DEF World
<1>2. PICK m : m = [NotStarted EXCEPT !.at = "failed", !.alone = jobs[j].alone]
  OBVIOUS
<1>3. jobs[j] \in Job
  BY <1>1 DEF WorldTyped
<1>4. /\ m \in Job /\ m.at = "failed" /\ m.cookies = NoOne
      /\ ~m.persisted /\ m.alone = jobs[j].alone
  <2>1. "failed" \in JobAt
    BY DEF JobAt, Ended
  <2> QED BY <1>2, <1>3, <2>1 DEF Job, NotStarted
<1>5. jobs' = [jobs EXCEPT ![j] = m]
  BY <1>2 DEF Fails
<1>6. jobs' \in [Jobs -> Job] /\ jobs'[j] = m /\ \A i \in Jobs \ {j} : jobs'[i] = jobs[i]
  BY <1>1, <1>4, <1>5, JobFields
<1>7. /\ signedIn' \in [Jobs \cup {Chrome} -> Jobs \cup {NoOne}]
      /\ signedIn'[j] \in {signedIn[j], NoOne}
      /\ signedIn'[Chrome] = signedIn[Chrome]
      /\ pool[j] # "closed" => signedIn'[j] = signedIn[j]
      /\ \A i \in Jobs \ {j} : signedIn'[i] = signedIn[i]
  <2>1. signedIn \in [Jobs \cup {Chrome} -> Jobs \cup {NoOne}]
    BY <1>1 DEF WorldTyped
  <2>2. CASE pool[j] = "closed"
    <3>1. signedIn' = [signedIn EXCEPT ![j] = NoOne]
      BY <2>2 DEF Fails
    <3> QED BY <2>1, <2>2, <3>1, Names
  <2>3. CASE pool[j] # "closed"
    BY <2>1, <2>3 DEF Fails
  <2> QED BY <2>2, <2>3
<1>8. /\ table' \subseteq table /\ usable' \subseteq table' /\ j \notin table'
      /\ \A i \in Jobs \ {j} : i \in table' <=> i \in table
  <2>1. j \in table => jobs[j].persisted
    BY <1>1 DEF SavedOK, Fails, Working, Ended
  <2> QED BY <2>1 DEF Fails
<1>9. WorldTyped'
  BY <1>1, <1>6, <1>7, <1>8 DEF WorldTyped, Fails
<1>10. \A i \in Jobs \ {j} : JobKept(i)
  BY <1>6, <1>7, <1>8 DEF JobKept, Fails
<1>11. ~InBrowser(j)'
  BY <1>4, <1>6 DEF InBrowser, Working, Ended
<1>12. SavedOK(j)'
  BY <1>4, <1>6, <1>8 DEF SavedOK
<1>13. /\ jobs[j].alone => signedIn'[j] \in {NoOne, j} /\ jobs'[j].cookies \in {NoOne, j}
       /\ pool'[j] = "open" => signedIn'[j] # NoOne
  BY <1>1, <1>4, <1>6, <1>7 DEF SessionOK, Fails
<1>14. World'
  BY <1>4, <1>6, <1>7, <1>9, <1>10, <1>11, <1>12, <1>13, StepOfOneJob
<1> QED BY <1>4, <1>6, <1>8, <1>14

(* The registration of account j goes on, those of the others do not.       *)
JobGoesOn(j) ==
  /\ jobs[j].at \notin {"none", "completed"} /\ jobs'[j].at # "none"
  /\ \A i \in Jobs \ {j} : jobs'[i].at = jobs[i].at /\ (i \in table => i \in table')

LEMMA JobStepWorld ==
  ASSUME World, NEW j \in Jobs, JobStep(j)
  PROVE  World' /\ JobGoesOn(j) /\ UNCHANGED creator
<1>1. UNCHANGED <<local, creator>>
  BY DEF JobStep
<1>2. WorldTyped
  BY DEF World
<1>3. CASE Launches(j)
  BY <1>1, <1>3, LaunchesWorld DEF JobGoesOn, Signing, Launches
<1>4. CASE \/ GetsMailbox(j) \/ Submits(j) \/ PassesCaptcha(j) \/ PassesGate(j)
           \/ OpensLink(j) \/ Verifies(j) \/ LogsIn(j) \/ Activates(j) \/ GetsSession(j)
  <2>1. World' /\ \E at \in Signing : SignUpStep(j, at)
    BY <1>1, <1>4, SignUpSteps
  <2>2. PICK at \in Signing : SignUpStep(j, at)
    BY <2>1
  <2>3. at \in JobAt /\ at # "none" /\ jobs[j].at \notin {"none", "completed"}
    BY <2>2 DEF Signing, JobAt, SignUpStep
  <2>4. jobs'[j].at = at /\ \A i \in Jobs \ {j} : jobs'[i] = jobs[i]
    BY <1>2, <2>2, <2>3, GoesOutcome DEF SignUpStep
  <2> QED BY <1>1, <2>1, <2>2, <2>3, <2>4 DEF JobGoesOn, SignUpStep
<1>5. CASE Settles(j)
  BY <1>1, <1>5, SettlesWorld DEF JobGoesOn, Settles
<1>6. CASE Saves(j)
  BY <1>1, <1>6, SavesWorld DEF JobGoesOn, Saves
<1>7. CASE Initialises(j)
  BY <1>1, <1>7, InitialisesWorld DEF JobGoesOn, Initialises
<1>8. CASE CapturesHeaders(j)
  <2>1. headers' \subseteq Jobs /\ usable' \subseteq table
    BY <1>2, <1>8 DEF CapturesHeaders, WorldTyped
  <2>2. World'
    BY <1>1, <1>8, <2>1, ContextWorld DEF CapturesHeaders
  <2> QED BY <1>1, <1>8, <2>2 DEF CapturesHeaders, JobGoesOn
<1>9. CASE Completes(j)
  BY <1>1, <1>9, CompletesWorld DEF JobGoesOn, Completes
<1>10. CASE Fails(j)
  BY <1>1, <1>10, FailsWorld DEF JobGoesOn, Fails, Working, Ended
<1> QED BY <1>3, <1>4, <1>5, <1>6, <1>7, <1>8, <1>9, <1>10 DEF JobStep

LEMMA StartsWorld ==
  ASSUME World, NEW j \in Unused, NEW temp \in BOOLEAN, Starts(j, temp),
         UNCHANGED <<local, site, signedIn, table, usable, pool>>, headers' \subseteq Jobs
  PROVE  /\ World' /\ Unused' = Unused \ {j}
         /\ \A i \in Jobs \ {j} : jobs'[i] = jobs[i]
<1>1. j \in Jobs /\ jobs[j].at = "none"
  BY DEF Unused
<1>2. WorldTyped /\ SavedOK(j) /\ SessionOK(j)
  BY <1>1 DEF World
<1>3. PICK m : m = [NotStarted EXCEPT !.at = "queued", !.temp = temp]
  OBVIOUS
<1>4. m \in Job /\ m.at = "queued" /\ m.cookies = NoOne /\ ~m.persisted /\ m.alone
  BY <1>3 DEF Job, JobAt, NotStarted
<1>5. jobs' = [jobs EXCEPT ![j] = m]
  BY <1>3 DEF Starts
<1>6. jobs' \in [Jobs -> Job] /\ jobs'[j] = m /\ \A i \in Jobs \ {j} : jobs'[i] = jobs[i]
  BY <1>1, <1>2, <1>4, <1>5, JobFields
<1>7. WorldTyped'
  BY <1>2, <1>6 DEF WorldTyped
<1>8. \A i \in Jobs \ {j} : JobKept(i)
  BY <1>6 DEF JobKept
<1>9. jobs[j].alone /\ pool[j] = "closed" /\ j \notin table
  BY <1>1, <1>2 DEF SavedOK, SessionOK
<1>10. SavedOK(j)'
  BY <1>4, <1>6, <1>9 DEF SavedOK
<1>11. ~InBrowser(j)'
  BY <1>4, <1>6 DEF InBrowser
<1>12. signedIn'[j] \in {NoOne, j} /\ jobs'[j].cookies \in {NoOne, j}
  BY <1>2, <1>4, <1>6, <1>9 DEF SessionOK
<1>13. World'
  BY <1>1, <1>4, <1>6, <1>7, <1>8, <1>9, <1>10, <1>11, <1>12, StepOfOneJob
<1>14. Unused' = Unused \ {j}
  BY <1>4, <1>6 DEF Unused
<1> QED BY <1>6, <1>13, <1>14

(* The registrations that worked are lost, and so are the contexts.         *)
LEMMA CrashWorld ==
  ASSUME World, Crash
  PROVE  /\ World'
         /\ \A i \in Jobs : jobs'[i].at = "none" <=> jobs[i].at = "none"
<1>1. WorldTyped /\ local \in BOOLEAN /\ UNCHANGED <<local, site, signedIn, table>>
  BY DEF World, Crash
<1>2. ASSUME NEW i \in Jobs
      PROVE  /\ jobs'[i] \in Job /\ jobs'[i].alone = jobs[i].alone
             /\ jobs'[i].at = IF Working(i) THEN "lost" ELSE jobs[i].at
             /\ jobs'[i].persisted => jobs[i].persisted /\ jobs'[i].at = jobs[i].at
             /\ ~Working(i) => jobs'[i].persisted = jobs[i].persisted
             /\ jobs'[i].cookies \in {NoOne, jobs[i].cookies}
  <2>1. jobs[i] \in Job
    BY <1>1 DEF WorldTyped
  <2>2. PICK m : m = [NotStarted EXCEPT !.at = "lost", !.alone = jobs[i].alone]
    OBVIOUS
  <2>3. "lost" \in JobAt
    BY DEF JobAt, Ended
  <2>4. /\ m \in Job /\ m.at = "lost" /\ m.cookies = NoOne /\ ~m.persisted
        /\ m.alone = jobs[i].alone
    BY <2>1, <2>2, <2>3 DEF Job, NotStarted
  <2>5. jobs'[i] = IF Working(i) THEN m ELSE jobs[i]
    BY <2>2 DEF Crash
  <2> QED BY <2>1, <2>4, <2>5
<1>3. jobs' \in [Jobs -> Job]
  BY <1>2 DEF Crash
<1>4. /\ pool' \in [Jobs -> {"closed", "opening", "open"}]
      /\ \A i \in Jobs : pool'[i] = "closed"
      /\ headers' = {} /\ usable' = table
  BY DEF Crash
<1>5. WorldTyped'
  BY <1>1, <1>3, <1>4 DEF WorldTyped
<1>6. ASSUME NEW i \in Jobs
      PROVE  ~InBrowser(i)' /\ SavedOK(i)' /\ SessionOK(i)'
  <2>1. SavedOK(i) /\ SessionOK(i)
    BY DEF World
  <2>2. ~InBrowser(i)'
    BY <1>2 DEF InBrowser, Working, Ended
  <2>3. SavedOK(i)'
    BY <1>1, <1>2, <1>4, <2>1 DEF SavedOK
  <2>4. SessionOK(i)'
    BY <1>1, <1>2, <1>4, <2>1, <2>2 DEF SessionOK
  <2> QED BY <2>2, <2>3, <2>4
<1>7. SharedIsKnown'
  BY <1>6 DEF SharedIsKnown
<1>8. \A i \in Jobs : jobs'[i].at = "none" <=> jobs[i].at = "none"
  BY <1>2 DEF Working, Ended
<1> QED BY <1>1, <1>5, <1>6, <1>7, <1>8 DEF World

-----------------------------------------------------------------------------
(* The creator *)

Creator == CreatorTyped /\ RunOK

LEMMA UnusedAreStillThere ==
  ASSUME NEW j \in Unused, Unused' = Unused \ {j}
  PROVE  Cardinality(Unused') = Cardinality(Unused) - 1 /\ Cardinality(Unused) > 0
<1>1. IsFiniteSet(Unused) /\ Cardinality(Unused) \in Nat
  BY UnusedIsFinite
<1>2. Cardinality(Unused \ {j}) = Cardinality(Unused) - 1
  BY <1>1, FS_RemoveElement
<1>3. Cardinality(Unused) # 0
  BY <1>1, FS_EmptySet
<1> QED BY <1>1, <1>2, <1>3

(* A step of others: registrations go on or start, as long as enough are    *)
(* left for the run.                                                       *)
LEMMA CreatorStays ==
  ASSUME Creator, UNCHANGED creator, run.left <= Cardinality(Unused'),
         \A i \in Jobs : jobs[i].at = "completed" =>
           jobs'[i].at = "completed" /\ (i \in table => i \in table')
  PROVE  Creator'
<1>1. CreatorTyped'
  BY DEF Creator, CreatorTyped, Running, creator
<1>2. ASSUME NEW c \in Callers, callers[c] \in {"auths", "checks"}
      PROVE  run.job \in Jobs
  <2>1. c \in Running
    BY <1>2 DEF Running
  <2> QED BY <2>1 DEF Creator, CreatorTyped
<1>3. RunOK'
  BY <1>2 DEF Creator, RunOK, creator
<1> QED BY <1>1, <1>3 DEF Creator

(* The caller that carries out the run is the only one.                     *)
LEMMA OneRuns ==
  ASSUME Creator, NEW c \in Callers, callers[c] \in {"runs", "auths", "checks"}
  PROVE  run.busy /\ run.job \in Jobs /\ Running = {c}
         /\ \A d \in Callers \ {c} : callers[d] \in Free \cup {"waits"}
<1>1. c \in Running
  BY DEF Running
<1>2. run.busy /\ run.job \in Jobs /\ Running = {c}
  BY <1>1 DEF Creator, CreatorTyped
<1>3. \A d \in Callers : callers[d] \in CallerAt
  BY DEF Creator, CreatorTyped
<1> QED BY <1>2, <1>3 DEF Running, CallerAt

(* It goes from one of its waits to the next,                               *)
LEMMA RunGoesOn ==
  ASSUME Creator, NEW c \in Callers, callers[c] \in {"runs", "auths", "checks"},
         NEW at \in {"runs", "auths", "checks"}, callers' = [callers EXCEPT ![c] = at],
         UNCHANGED waiters,
         run' \in [busy : {TRUE}, job : Jobs, left : 0 .. MaxBatch],
         run'.left <= Cardinality(Unused'),
         at \in {"auths", "checks"} => jobs'[run'.job].at = "completed",
         at = "checks" => run'.job \in table'
  PROVE  Creator'
<1>1. /\ Running = {c} /\ callers \in [Callers -> CallerAt]
      /\ \A d \in Callers \ {c} : callers[d] \in Free \cup {"waits"}
  BY OneRuns DEF Creator, CreatorTyped
<1>2. callers' \in [Callers -> CallerAt] /\ callers'[c] = at
      /\ \A d \in Callers \ {c} : callers'[d] = callers[d]
  BY <1>1 DEF CallerAt
<1>3. Running' = {c}
  BY <1>1, <1>2 DEF Running, Free
<1>4. {d \in Callers : callers'[d] = "waits"} = {d \in Callers : callers[d] = "waits"}
  BY <1>2
<1>5. /\ run' \in [busy : BOOLEAN, job : Jobs \cup {NoOne}, left : 0 .. MaxBatch]
      /\ run'.busy /\ run'.job \in Jobs
  OBVIOUS
<1>6. CreatorTyped'
  BY <1>2, <1>3, <1>4, <1>5 DEF Creator, CreatorTyped
<1>7. RunOK'
  BY <1>1, <1>2 DEF RunOK, Free
<1> QED BY <1>6, <1>7 DEF Creator

(* or ends the run, which answers all.                                      *)
LEMMA RunEnds ==
  ASSUME Creator, NEW c \in Callers, callers[c] \in {"runs", "auths", "checks"},
         NEW j, Finishes(c, j), Cardinality(Unused') \in Nat
  PROVE  Creator'
<1>1. /\ callers \in [Callers -> CallerAt]
      /\ \A d \in Callers \ {c} : callers[d] \in Free \cup {"waits"}
      /\ ToSet(waiters) = {d \in Callers : callers[d] = "waits"}
  BY OneRuns DEF Creator, CreatorTyped
<1>2. PICK answer : answer = Answer(j)
  OBVIOUS
<1>3. answer \in Free
  BY <1>2 DEF Answer, Free
<1>4. callers' = [d \in Callers |-> IF d = c \/ d \in ToSet(waiters) THEN answer
                                    ELSE callers[d]]
  BY <1>2 DEF Finishes, Answers
<1>5. \A d \in Callers : callers'[d] \in Free
  BY <1>1, <1>3, <1>4
<1>6. callers' \in [Callers -> CallerAt]
  BY <1>4, <1>5 DEF CallerAt
<1>7. Running' = {} /\ {d \in Callers : callers'[d] = "waits"} = {}
  BY <1>5 DEF Running, Free
<1>8. waiters' = <<>> /\ <<>> \in Seq(Callers) /\ NoDuplicates(<<>>) /\ ToSet(<<>>) = {}
  BY DEF Finishes, NoDuplicates, ToSet
<1>9. run' = NoRun /\ NoRun.left = 0 /\ ~NoRun.busy
      /\ NoRun \in [busy : BOOLEAN, job : Jobs \cup {NoOne}, left : 0 .. MaxBatch]
  <2>1. 0 \in 0 .. MaxBatch
    BY CreationAssumption
  <2> QED BY <2>1 DEF Finishes, NoRun
<1>10. CreatorTyped'
  BY <1>6, <1>7, <1>8, <1>9 DEF CreatorTyped
<1>11. RunOK'
  BY <1>5, <1>9 DEF RunOK, Free
<1> QED BY <1>10, <1>11 DEF Creator

(* Somebody waits, and runs the creator or is turned away.                  *)
LEMMA AsksInv ==
  ASSUME World, Creator, NEW c \in Callers, NEW manual \in BOOLEAN, Asks(c, manual)
  PROVE  World' /\ Creator'
<1>1. /\ callers[c] \in Free /\ callers \in [Callers -> CallerAt]
      /\ UNCHANGED <<local, site, signedIn, table, usable, pool, headers>>
  BY DEF Asks, Creator, CreatorTyped
<1>2. headers' \subseteq Jobs /\ WorldTyped
  BY <1>1 DEF World, WorldTyped
<1>3. CASE run.busy /\ Waits(c)
  <2>1. UNCHANGED <<run, cooling, jobs>> /\ waiters' = Append(waiters, c)
        /\ callers' = [callers EXCEPT ![c] = "waits"]
    BY <1>3 DEF Waits
  <2>2. World'
    BY <1>1, <2>1 DEF World, WorldTyped, SavedOK, SessionOK, SharedIsKnown, InBrowser, Working
  <2>3. callers' \in [Callers -> CallerAt] /\ Running' = Running
    BY <1>1, <2>1 DEF Running, CallerAt, Free
  <2>4. /\ waiters' \in Seq(Callers) /\ NoDuplicates(waiters')
        /\ ToSet(waiters') = ToSet(waiters) \cup {c}
    <3>1. waiters \in Seq(Callers) /\ NoDuplicates(waiters) /\ c \notin ToSet(waiters)
      BY <1>1 DEF Creator, CreatorTyped, Free
    <3> QED BY <2>1, <3>1, AppendMembers
  <2>5. {d \in Callers : callers'[d] = "waits"} = {d \in Callers : callers[d] = "waits"} \cup {c}
    BY <1>1, <2>1
  <2>6. CreatorTyped'
    BY <2>1, <2>3, <2>4, <2>5 DEF Creator, CreatorTyped
  <2>7. RunOK'
    BY <1>1, <2>1 DEF Creator, RunOK, Unused
  <2> QED BY <2>2, <2>6, <2>7 DEF Creator
<1>4. CASE Skipped(c)
  <2>1. UNCHANGED <<run, waiters, cooling, jobs>> /\ callers' = [callers EXCEPT ![c] = "idle"]
    BY <1>4 DEF Skipped
  <2>2. World'
    BY <1>1, <2>1 DEF World, WorldTyped, SavedOK, SessionOK, SharedIsKnown, InBrowser, Working
  <2>3. /\ callers' \in [Callers -> CallerAt] /\ Running' = Running
        /\ {d \in Callers : callers'[d] = "waits"} = {d \in Callers : callers[d] = "waits"}
    BY <1>1, <2>1 DEF Running, CallerAt, Free
  <2>4. CreatorTyped'
    BY <2>1, <2>3 DEF Creator, CreatorTyped
  <2>5. RunOK'
    BY <1>1, <2>1 DEF Creator, RunOK, Unused
  <2> QED BY <2>2, <2>4, <2>5 DEF Creator
<1>5. CASE ~run.busy /\ \E total \in IF manual THEN 1 .. MaxBatch ELSE {1} : StartsRun(c, total)
  <2>1. PICK total \in 1 .. MaxBatch : StartsRun(c, total)
    BY <1>5, CreationAssumption
  <2>2. PICK j : j = Min(Unused)
    OBVIOUS
  <2>3. /\ Cardinality(Unused) >= total /\ run' = [busy |-> TRUE, job |-> j, left |-> total - 1]
        /\ callers' = [callers EXCEPT ![c] = "runs"] /\ Starts(j, TRUE) /\ UNCHANGED waiters
    BY <2>1, <2>2 DEF StartsRun
  <2>4. Cardinality(Unused) \in Nat /\ Cardinality(Unused) > 0
    BY <2>3, UnusedIsFinite
  <2>5. j \in Unused /\ j \in Jobs
    BY <2>2, <2>4, NextUnused
  <2>6. World' /\ Unused' = Unused \ {j}
    BY <1>1, <1>2, <2>3, <2>5, StartsWorld
  <2>7. Cardinality(Unused') = Cardinality(Unused) - 1
    BY <2>5, <2>6, UnusedAreStillThere
  <2>8. Running = {}
    BY <1>5 DEF Creator, CreatorTyped
  <2>9. callers' \in [Callers -> CallerAt] /\ Running' = {c}
        /\ {d \in Callers : callers'[d] = "waits"} = {d \in Callers : callers[d] = "waits"}
    BY <1>1, <2>3, <2>8 DEF Running, CallerAt, Free
  <2>10. run' \in [busy : BOOLEAN, job : Jobs \cup {NoOne}, left : 0 .. MaxBatch]
         /\ run'.busy /\ run'.job = j /\ run'.left = total - 1
    <3>1. total - 1 \in 0 .. MaxBatch
      BY CreationAssumption
    <3> QED BY <2>3, <2>5, <3>1
  <2>11. CreatorTyped'
    BY <2>3, <2>5, <2>9, <2>10 DEF Creator, CreatorTyped
  <2>12. \A d \in Callers : callers'[d] \notin {"auths", "checks"}
    BY <1>1, <2>3, <2>8 DEF Running
  <2>13. run'.left <= Cardinality(Unused')
    BY <2>3, <2>4, <2>7, <2>10
  <2>14. RunOK'
    BY <2>12, <2>13 DEF RunOK
  <2> QED BY <2>6, <2>11, <2>14 DEF Creator
<1> QED BY <1>3, <1>4, <1>5 DEF Asks

(* A step that leaves the registrations, accounts and contexts alone.       *)
LEMMA WorldUntouched ==
  ASSUME World, UNCHANGED <<local, jobs, site, signedIn, table, usable, pool>>,
         headers' \subseteq Jobs
  PROVE  World' /\ Unused' = Unused
BY DEF World, WorldTyped, SavedOK, SessionOK, SharedIsKnown, InBrowser, Working, Unused

LEMMA RunStepInv ==
  ASSUME World, Creator, NEW c \in Callers, RunStep(c)
  PROVE  World' /\ Creator'
<1>1. /\ run \in [busy : BOOLEAN, job : Jobs \cup {NoOne}, left : 0 .. MaxBatch]
      /\ run.left <= Cardinality(Unused) /\ WorldTyped /\ headers \subseteq Jobs
      /\ Cardinality(Unused) \in Nat /\ callers[c] \in {"runs", "auths", "checks"}
  BY UnusedIsFinite DEF Creator, CreatorTyped, RunOK, World, WorldTyped, RunStep, JobIsReady,
     RunFails, Reopens, Authenticates, AuthFails
<1>2. run.busy /\ run.job \in Jobs
  BY <1>1, OneRuns
<1>3. run \in [busy : {TRUE}, job : Jobs, left : 0 .. MaxBatch]
  BY <1>1, <1>2
<1>4. CASE JobIsReady(c)
  <2>1. World' /\ Unused' = Unused
    BY <1>1, <1>4, WorldUntouched DEF JobIsReady, world
  <2>2. Creator'
    BY <1>1, <1>3, <1>4, <2>1, RunGoesOn DEF JobIsReady, world
  <2> QED BY <2>1, <2>2
<1>5. CASE RunFails(c) \/ AuthFails(c)
  <2>1. World' /\ Unused' = Unused
    BY <1>1, <1>5, WorldUntouched DEF RunFails, AuthFails, world
  <2>2. Creator'
    BY <1>1, <1>5, <2>1, RunEnds DEF RunFails, AuthFails
  <2> QED BY <2>1, <2>2
<1>6. CASE Reopens(c)
  <2>1. PICK j : j = run.job
    OBVIOUS
  <2>2. j \in table /\ jobs[j].at = "completed"
    BY <1>6, <2>1 DEF Reopens, Creator, RunOK
  <2>3. headers' \subseteq Jobs /\ usable' \subseteq table
    BY <1>1, <1>6 DEF Reopens, Opens, WorldTyped
  <2>4. World'
    BY <1>2, <1>6, <2>1, <2>2, <2>3, ContextWorld DEF Reopens
  <2>5. Unused' = Unused
    BY <1>6 DEF Reopens, Unused
  <2>6. Creator'
    BY <1>1, <1>3, <1>6, <2>1, <2>2, <2>5, RunGoesOn DEF Reopens
  <2> QED BY <2>4, <2>6
<1>7. CASE Authenticates(c)
  <2>1. headers' \subseteq Jobs
    BY <1>1, <1>2, <1>7 DEF Authenticates
  <2>2. UNCHANGED <<local, site, signedIn, table, usable, pool>>
    BY <1>7 DEF Authenticates
  <2>3. CASE run.left = 0
    <3>1. Finishes(c, run.job) /\ UNCHANGED jobs
      BY <1>7, <2>3 DEF Authenticates
    <3>2. World' /\ Unused' = Unused
      BY <2>1, <2>2, <3>1, WorldUntouched
    <3>3. Creator'
      BY <1>1, <3>1, <3>2, RunEnds
    <3> QED BY <3>2, <3>3
  <2>4. CASE run.left # 0
    <3>1. PICK j : j = Min(Unused)
      OBVIOUS
    <3>2. /\ run' = [run EXCEPT !.job = j, !.left = @ - 1] /\ Starts(j, TRUE)
          /\ callers' = [callers EXCEPT ![c] = "runs"] /\ UNCHANGED waiters
      BY <1>7, <2>4, <3>1 DEF Authenticates
    <3>3. Cardinality(Unused) > 0 /\ run.left \in 1 .. MaxBatch
      BY <1>1, <2>4
    <3>4. j \in Unused /\ j \in Jobs
      BY <3>1, <3>3, NextUnused
    <3>5. World' /\ Unused' = Unused \ {j}
      BY <2>1, <2>2, <3>2, <3>4, StartsWorld
    <3>6. Cardinality(Unused') = Cardinality(Unused) - 1
      BY <3>4, <3>5, UnusedAreStillThere
    <3>7. run' \in [busy : {TRUE}, job : Jobs, left : 0 .. MaxBatch]
          /\ run'.left = run.left - 1
      <4>1. run.left - 1 \in 0 .. MaxBatch
        BY <3>3, CreationAssumption
      <4> QED BY <1>3, <3>2, <3>4, <4>1
    <3>8. run'.left <= Cardinality(Unused')
      BY <1>1, <3>3, <3>6, <3>7
    <3>9. Creator'
      BY <1>1, <3>2, <3>7, <3>8, RunGoesOn
    <3> QED BY <3>5, <3>9
  <2> QED BY <2>3, <2>4
<1> QED BY <1>4, <1>5, <1>6, <1>7 DEF RunStep

LEMMA AdminStartsInv ==
  ASSUME World, Creator, AdminStarts
  PROVE  World' /\ Creator'
<1>1. PICK temp \in BOOLEAN : Starts(Min(Unused), temp)
  BY DEF AdminStarts
<1>2. PICK j : j = Min(Unused)
  OBVIOUS
<1>3. run.left \in Nat /\ Cardinality(Unused) \in Nat /\ Cardinality(Unused) > run.left
  BY UnusedIsFinite DEF AdminStarts, Creator, CreatorTyped
<1>4. j \in Unused
  BY <1>2, <1>3, NextUnused
<1>5. headers' \subseteq Jobs
  BY DEF AdminStarts, World, WorldTyped
<1>6. World' /\ Unused' = Unused \ {j} /\ \A i \in Jobs \ {j} : jobs'[i] = jobs[i]
  BY <1>1, <1>2, <1>4, <1>5, StartsWorld DEF AdminStarts
<1>7. run.left <= Cardinality(Unused')
  BY <1>3, <1>4, <1>6, UnusedAreStillThere
<1>8. jobs[j].at # "completed"
  BY <1>4 DEF Unused
<1>9. Creator'
  BY <1>6, <1>7, <1>8, CreatorStays DEF AdminStarts
<1> QED BY <1>6, <1>9

LEMMA CrashInv ==
  ASSUME World, Creator, Crash
  PROVE  World' /\ Creator'
<1>1. World' /\ \A i \in Jobs : jobs'[i].at = "none" <=> jobs[i].at = "none"
  BY CrashWorld
<1>2. Unused' = Unused /\ Cardinality(Unused) \in Nat
  BY <1>1, UnusedIsFinite DEF Unused
<1>3. callers' = [d \in Callers |-> "idle"]
  BY DEF Crash
<1>4. callers' \in [Callers -> CallerAt] /\ Running' = {}
      /\ {d \in Callers : callers'[d] = "waits"} = {}
  BY <1>3 DEF Running, CallerAt, Free
<1>5. waiters' = <<>> /\ <<>> \in Seq(Callers) /\ NoDuplicates(<<>>) /\ ToSet(<<>>) = {}
  <2>1. <<>> \in Seq(Callers) /\ NoDuplicates(<<>>) /\ ToSet(<<>>) = {}
    BY DEF NoDuplicates, ToSet
  <2> QED BY <2>1 DEF Crash
<1>6. run' = NoRun /\ NoRun.left = 0 /\ ~NoRun.busy
      /\ NoRun \in [busy : BOOLEAN, job : Jobs \cup {NoOne}, left : 0 .. MaxBatch]
  <2>1. 0 \in 0 .. MaxBatch
    BY CreationAssumption
  <2> QED BY <2>1 DEF Crash, NoRun
<1>7. CreatorTyped'
  BY <1>4, <1>5, <1>6 DEF CreatorTyped
<1>8. RunOK'
  BY <1>2, <1>3, <1>6 DEF RunOK
<1> QED BY <1>1, <1>7, <1>8 DEF Creator

(* What requests, faults and errors do to the account of registration j.    *)
LEMMA OthersInv ==
  ASSUME World, Creator, NEW j \in Jobs,
         RequestInits(j) \/ RequestInitEnds(j) \/ CoolsDown(j) \/ PoolCloses(j),
         UNCHANGED <<local, creator>>
  PROVE  World' /\ Creator'
<1>1. WorldTyped
  BY DEF World
<1>2. UNCHANGED <<jobs, site, table>> /\ headers' \subseteq Jobs /\ usable' \subseteq table
  BY <1>1 DEF RequestInits, RequestInitEnds, CoolsDown, PoolCloses, Opens, WorldTyped
<1>3. j \in table \/ pool[j] # "closed"
  BY <1>1 DEF RequestInits, RequestInitEnds, CoolsDown, PoolCloses, WorldTyped
<1>4. \/ UNCHANGED <<signedIn, pool>>
      \/ Opens(j, NoOne)
      \/ pool' = [pool EXCEPT ![j] = "closed"] /\ UNCHANGED signedIn
      \/ pool' = [pool EXCEPT ![j] = "opening"] /\ UNCHANGED signedIn
  BY DEF RequestInits, RequestInitEnds, CoolsDown, PoolCloses
<1>5. World'
  BY <1>2, <1>3, <1>4, ContextWorld
<1>6. Unused' = Unused
  BY <1>2 DEF Unused
<1>7. Creator'
  BY <1>2, <1>6, CreatorStays DEF Creator, RunOK
<1> QED BY <1>5, <1>7

LEMMA JobStepInv ==
  ASSUME World, Creator, NEW j \in Jobs, JobStep(j)
  PROVE  World' /\ Creator'
<1>1. World' /\ JobGoesOn(j) /\ UNCHANGED creator
  BY JobStepWorld
<1>2. Unused' = Unused
  BY <1>1 DEF JobGoesOn, Unused
<1>3. Creator'
  BY <1>1, <1>2, CreatorStays DEF Creator, RunOK, JobGoesOn
<1> QED BY <1>1, <1>3

LEMMA StepInv ==
  ASSUME World, Creator, [Next]_vars
  PROVE  World' /\ Creator'
<1>1. CASE \E c \in Callers : RunStep(c)
  BY <1>1, RunStepInv
<1>2. CASE \E c \in Callers : \E manual \in BOOLEAN : Asks(c, manual)
  BY <1>2, AsksInv
<1>3. CASE AdminStarts
  BY <1>3, AdminStartsInv
<1>4. CASE CooldownPasses \/ UNCHANGED vars
  <2>1. UNCHANGED <<local, jobs, site, signedIn, table, usable, pool, headers,
                    run, waiters, callers>>
    BY <1>4 DEF CooldownPasses, vars, creator, world
  <2>2. headers' \subseteq Jobs
    BY <2>1 DEF World, WorldTyped
  <2>3. World' /\ Unused' = Unused
    BY <2>1, <2>2, WorldUntouched
  <2>4. Creator'
    BY <2>1, <2>3 DEF Creator, CreatorTyped, RunOK, Running
  <2> QED BY <2>3, <2>4
<1>5. CASE \E j \in Jobs : JobStep(j)
  BY <1>5, JobStepInv
<1>6. CASE \E j \in Jobs :
             \/ /\ RequestInits(j) \/ RequestInitEnds(j) \/ CoolsDown(j)
                /\ UNCHANGED <<local, creator, faults>>
             \/ PoolCloses(j) /\ UNCHANGED <<local, creator>>
  BY <1>6, OthersInv
<1>7. CASE Crash
  BY <1>7, CrashInv
<1> QED BY <1>1, <1>2, <1>3, <1>4, <1>5, <1>6, <1>7 DEF Next

-----------------------------------------------------------------------------
(* The theorems *)

LEMMA InvariantInit ==
  ASSUME Init
  PROVE  IInv
<1>1. /\ local \in BOOLEAN /\ run = NoRun /\ waiters = <<>>
      /\ callers = [c \in Callers |-> "idle"] /\ jobs = [j \in Jobs |-> NotStarted]
      /\ site = [j \in Jobs |-> "none"]
      /\ signedIn = [b \in Jobs \cup {Chrome} |-> NoOne]
      /\ table = {} /\ usable = {} /\ pool = [j \in Jobs |-> "closed"] /\ headers = {}
  BY DEF Init
<1>2. NotStarted \in Job /\ NotStarted.at = "none" /\ NotStarted.cookies = NoOne
      /\ ~NotStarted.persisted /\ NotStarted.alone
  BY DEF NotStarted, Job, JobAt, Ended
<1>3. WorldTyped
  BY <1>1, <1>2 DEF WorldTyped
<1>4. callers \in [Callers -> CallerAt] /\ Running = {}
      /\ {d \in Callers : callers[d] = "waits"} = {}
  BY <1>1 DEF Running, CallerAt, Free
<1>5. <<>> \in Seq(Callers) /\ NoDuplicates(<<>>) /\ ToSet(<<>>) = {}
  BY DEF NoDuplicates, ToSet
<1>6. NoRun.left = 0 /\ ~NoRun.busy
      /\ NoRun \in [busy : BOOLEAN, job : Jobs \cup {NoOne}, left : 0 .. MaxBatch]
  <2>1. 0 \in 0 .. MaxBatch
    BY CreationAssumption
  <2> QED BY <2>1 DEF NoRun
<1>7. CreatorTyped
  BY <1>1, <1>4, <1>5, <1>6 DEF CreatorTyped
<1>8. RunOK
  BY <1>1, <1>6, UnusedIsFinite DEF RunOK
<1>9. ASSUME NEW j \in Jobs
      PROVE  ~InBrowser(j) /\ SavedOK(j) /\ SessionOK(j)
  <2>1. jobs[j] = NotStarted /\ signedIn[j] = NoOne /\ pool[j] = "closed" /\ j \notin table
    BY <1>1
  <2>2. ~InBrowser(j)
    BY <1>2, <2>1 DEF InBrowser, Working, Ended
  <2>3. SavedOK(j)
    BY <1>2, <2>1 DEF SavedOK
  <2>4. SessionOK(j)
    BY <1>2, <2>1, <2>2 DEF SessionOK
  <2> QED BY <2>2, <2>3, <2>4
<1>10. SharedIsKnown
  BY <1>9 DEF SharedIsKnown
<1> QED BY <1>1, <1>3, <1>7, <1>8, <1>9, <1>10 DEF IInv

LEMMA InvariantStep ==
  IInv /\ [Next]_vars => IInv'
BY StepInv DEF IInv, World, Creator

(* In every reachable state an account is in the table only if its          *)
(* registration knows that it wrote it, or the process crashed; one caller  *)
(* at most carries out the run and knows a registration that is complete;   *)
(* registrations that share the Chrome know that they do, and one that was  *)
(* alone saw no session but its own.                                       *)
THEOREM CreationInvariant == Spec => []IInv
<1>1. Init => IInv
  BY InvariantInit
<1> QED BY <1>1, InvariantStep, PTL DEF Spec

LEMMA Typed == IInv => TypeOK
<1>1. SUFFICES ASSUME IInv
               PROVE  TypeOK
  OBVIOUS
<1>2. Cardinality(Running) = IF run.busy THEN 1 ELSE 0
  <2>1. CASE run.busy
    <3>1. PICK c \in Callers : Running = {c}
      BY <1>1, <2>1 DEF IInv, CreatorTyped
    <3> QED BY <2>1, <3>1, FS_Singleton
  <2>2. CASE ~run.busy
    <3>1. Running = {}
      BY <1>1, <2>2 DEF IInv, CreatorTyped
    <3> QED BY <2>2, <3>1, FS_EmptySet
  <2> QED BY <2>1, <2>2
<1>3. IsInjective(waiters)
  BY <1>1 DEF IInv, CreatorTyped, IsInjective, NoDuplicates
<1> QED BY <1>1, <1>2, <1>3 DEF IInv, WorldTyped, CreatorTyped, Job, Running, TypeOK

(* A failed registration leaves no account in the table, whatever step of   *)
(* it failed and whoever else works on accounts meanwhile: it removes the   *)
(* account exactly if it wrote it (the catch block of runRegistration).     *)
THEOREM FailuresLeaveNothing == Spec => []FailedJobsLeaveNoAccount
<1>1. IInv => FailedJobsLeaveNoAccount
  <2>1. SUFFICES ASSUME IInv
                 PROVE  FailedJobsLeaveNoAccount
    OBVIOUS
  <2>2. ASSUME NEW j \in Jobs, jobs[j].at = "failed"
        PROVE  j \notin table
    BY <2>1, <2>2 DEF IInv, SavedOK
  <2> QED BY <2>1, <2>2, Typed DEF FailedJobsLeaveNoAccount
<1> QED BY <1>1, CreationInvariant, PTL

(* The context of an account is signed in with the session of the account's *)
(* own sign-up, unless another registration was in the Chrome of the PC at  *)
(* the same time; also when a request initialises the account first, and    *)
(* when a guest's cookies looked like a session.                           *)
THEOREM SessionsAreOwn == Spec => []AccountsUseTheirOwnSession
<1>1. IInv => AccountsUseTheirOwnSession
  BY DEF IInv, SessionOK, AccountsUseTheirOwnSession
<1> QED BY <1>1, CreationInvariant, PTL

(* Only the end of a run that made its accounts serves anybody.             *)
LEMMA ServedByTheRun ==
  ASSUME IInv, [Next]_vars, NEW c \in Callers, callers[c] \notin Free,
         callers'[c] = "served"
  PROVE  \E d \in Callers : Authenticates(d)
<1>1. callers \in [Callers -> CallerAt] /\ callers[c] # "served"
  BY DEF IInv, CreatorTyped, Free
<1>2. CASE UNCHANGED callers
  BY <1>1, <1>2
<1>3. ASSUME NEW d \in Callers, NEW at, at # "served", callers' = [callers EXCEPT ![d] = at]
      PROVE  FALSE
  BY <1>1, <1>3
<1>4. ASSUME NEW d \in Callers, Finishes(d, NoOne)
      PROVE  FALSE
  BY <1>1, <1>4 DEF Finishes, Answers, Answer
<1>5. ASSUME NEW d \in Callers, RunStep(d)
      PROVE  Authenticates(d)
  BY <1>3, <1>4, <1>5 DEF RunStep, JobIsReady, RunFails, Reopens, AuthFails
<1>6. ASSUME NEW d \in Callers, NEW manual \in BOOLEAN, Asks(d, manual)
      PROVE  FALSE
  <2>1. \E at \in {"waits", "idle", "runs"} : callers' = [callers EXCEPT ![d] = at]
    BY <1>6 DEF Asks, Waits, Skipped, StartsRun
  <2> QED BY <1>3, <2>1
<1>7. CASE AdminStarts \/ CooldownPasses \/ UNCHANGED vars
  BY <1>2, <1>7 DEF AdminStarts, CooldownPasses, vars, creator
<1>8. CASE \E j \in Jobs :
             \/ JobStep(j)
             \/ /\ RequestInits(j) \/ RequestInitEnds(j) \/ CoolsDown(j)
                /\ UNCHANGED <<local, creator, faults>>
             \/ PoolCloses(j) /\ UNCHANGED <<local, creator>>
  BY <1>2, <1>8 DEF JobStep, creator
<1>9. CASE Crash
  BY <1>1, <1>9 DEF Crash
<1> QED BY <1>5, <1>6, <1>7, <1>8, <1>9 DEF Next

(* A caller that is answered with an account, the run's own or one that     *)
(* waited, is answered at a moment when the account is in the table, its    *)
(* context open and its headers captured (ensurePoolAuth).                 *)
THEOREM AnsweredWithUsable == Spec => AnswersAreUsable
<1>1. ASSUME IInv, [Next]_vars
      PROVE  \A c \in Callers : callers[c] \notin Free /\ callers'[c] = "served" =>
               run.job \in table' /\ pool'[run.job] = "open" /\ run.job \in headers'
  <2>1. SUFFICES ASSUME NEW c \in Callers, callers[c] \notin Free, callers'[c] = "served"
                 PROVE  run.job \in table' /\ pool'[run.job] = "open" /\ run.job \in headers'
    OBVIOUS
  <2>2. PICK d \in Callers : Authenticates(d)
    BY <1>1, <2>1, ServedByTheRun
  <2>3. run.job \in table
    BY <1>1, <2>2 DEF IInv, RunOK, Authenticates
  <2> QED BY <2>2, <2>3 DEF Authenticates, PoolAuth
<1>2. IInv /\ [Next]_vars =>
        [\A c \in Callers : callers[c] \notin Free /\ callers'[c] = "served" =>
           run.job \in table' /\ pool'[run.job] = "open" /\ run.job \in headers']_vars
  BY <1>1
<1> QED BY <1>2, CreationInvariant, PTL DEF Spec, AnswersAreUsable
=============================================================================
