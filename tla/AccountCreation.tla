-------------------------- MODULE AccountCreation --------------------------
(***************************************************************************)
(* Creating accounts: the single run of auto-account-creator.ts, which      *)
(* requests and the admin API ask for, and the registrations of             *)
(* account-registration.ts, which the runs and the admin API start.         *)
(*                                                                         *)
(* A registration drives the sign-up form of the Qwen site in a browser,    *)
(* has the e-mail address confirmed, takes the session over and writes the  *)
(* account into the table before it is initialised for the pool.  With a    *)
(* browser of its own the profile belongs to the registration; with the     *)
(* Chrome of the operator's PC (ACCOUNT_CREATOR_CDP_URL) all registrations  *)
(* share one browser, and each clears it when it begins.                    *)
(*                                                                         *)
(* Nothing limits how many registrations run: a run that waits too long     *)
(* gives up its job, which goes on.  Every wait of a registration has a     *)
(* time limit, so that a step of it may always fail instead.               *)
(*                                                                         *)
(* Registrations and the accounts they make have one name, a number.        *)
(***************************************************************************)
EXTENDS Naturals, Sequences, FiniteSets, FiniteSetsExt, SequencesExt

CONSTANTS
  Callers,   \* requests that find no usable account, and admin calls
  MaxJobs,   \* bound: registrations that are started
  MaxBatch,  \* config.accountCreator.maxBatch
  MaxFaults  \* bound: crashes of the process and contexts that are closed

ASSUME CreationAssumption ==
  MaxJobs \in Nat \ {0} /\ MaxBatch \in Nat \ {0} /\ MaxFaults \in Nat

Jobs == 1..MaxJobs
NoOne == 0
Chrome == MaxJobs + 1   \* the browser of the operator's PC

VARIABLES
  local,     \* whether the Chrome of the operator's PC is configured
  run,       \* busy, the active job and how many accounts are still to be made
  waiters,   \* pendingWaiters
  cooling,   \* whether the last run began less than the cooldown ago
  callers,   \* what each caller does, and whether it was answered an account
  jobs,      \* the registrations
  site,      \* the accounts at Qwen
  signedIn,  \* the account that each profile, and the Chrome, is signed in with
  table,     \* the accounts table
  usable,    \* accounts of the table that are not on cooldown
  pool,      \* the Playwright contexts of the accounts
  headers,   \* accounts whose bx headers are captured
  faults

creator == <<run, waiters, cooling, callers>>
world == <<jobs, site, signedIn, table, usable, pool, headers>>
vars == <<local, creator, world, faults>>

NotStarted == [at |-> "none", temp |-> TRUE, page |-> FALSE, cookies |-> NoOne,
               persisted |-> FALSE, alone |-> TRUE]
NoRun == [busy |-> FALSE, job |-> NoOne, left |-> 0]

Init ==
  /\ local \in BOOLEAN
  /\ run = NoRun
  /\ waiters = <<>>
  /\ cooling = FALSE
  /\ callers = [c \in Callers |-> "idle"]
  /\ jobs = [j \in Jobs |-> NotStarted]
  /\ site = [j \in Jobs |-> "none"]
  /\ signedIn = [b \in Jobs \cup {Chrome} |-> NoOne]
  /\ table = {}
  /\ usable = {}
  /\ pool = [j \in Jobs |-> "closed"]
  /\ headers = {}
  /\ faults = 0

(***************************************************************************)
(* Starting registrations                                                  *)
(***************************************************************************)
Ended == {"none", "completed", "failed", "lost"}
Working(j) == jobs[j].at \notin Ended
Unused == {j \in Jobs : jobs[j].at = "none"}
Browser(j) == IF local THEN Chrome ELSE j

(* startRegistration: the job is queued and runs in the background. *)
Starts(j, temp) == jobs' = [jobs EXCEPT ![j] = [NotStarted EXCEPT !.at = "queued", !.temp = temp]]

(* POST /api/admin/registrations.  Jobs the current run still needs are     *)
(* left to it, so that the bound does not block it.                        *)
AdminStarts ==
  /\ Cardinality(Unused) > run.left
  /\ \E temp \in BOOLEAN : Starts(Min(Unused), temp)
  /\ UNCHANGED <<local, creator, site, signedIn, table, usable, pool, headers, faults>>

(***************************************************************************)
(* The run of the creator                                                  *)
(***************************************************************************)
Free == {"idle", "served"}

StartsRun(c, total) ==
  /\ Cardinality(Unused) >= total
  /\ run' = [busy |-> TRUE, job |-> Min(Unused), left |-> total - 1]
  /\ callers' = [callers EXCEPT ![c] = "runs"]
  /\ Starts(Min(Unused), TRUE)
  /\ cooling' = TRUE
  /\ UNCHANGED waiters

Waits(c) ==
  /\ waiters' = Append(waiters, c)
  /\ callers' = [callers EXCEPT ![c] = "waits"]
  /\ UNCHANGED <<run, cooling, jobs>>

Skipped(c) ==
  /\ callers' = [callers EXCEPT ![c] = "idle"]
  /\ UNCHANGED <<run, waiters, cooling, jobs>>

(* ensureAccountForRateLimit of a request, and createAccountsManually,      *)
(* which asks neither for the state of the pool nor for the cooldown.       *)
Asks(c, manual) ==
  /\ callers[c] \in Free
  /\ manual \/ usable = {}
  /\ \/ run.busy /\ Waits(c)
     \/ ~run.busy /\ cooling /\ ~manual /\ Skipped(c)
     \/ ~run.busy /\ (manual \/ ~cooling)
        /\ \E total \in IF manual THEN 1..MaxBatch ELSE {1} : StartsRun(c, total)
  /\ UNCHANGED <<local, site, signedIn, table, usable, pool, headers, faults>>

Answer(j) == IF j = NoOne THEN "idle" ELSE "served"

(* Mutant of Answers: a failure is not told to those who wait. *)
AnswersSuccess(c, j) ==
  callers' = [d \in Callers |->
                IF d = c \/ (j # NoOne /\ d \in ToSet(waiters))
                THEN Answer(j) ELSE callers[d]]

(* The caller of the run and all waiters get its result. *)
Answers(c, j) ==
  callers' = [d \in Callers |-> IF d = c \/ d \in ToSet(waiters)
                                THEN Answer(j) ELSE callers[d]]

(* The finally block of runAutoCreate. *)
Finishes(c, j) ==
  /\ run' = NoRun
  /\ waiters' = <<>>
  /\ Answers(c, j)
  /\ UNCHANGED cooling

(* waitForReadyJob: the job is ready; its failure and the time limit end    *)
(* the run, the job itself goes on.                                        *)
JobIsReady(c) ==
  /\ callers[c] = "runs"
  /\ jobs[run.job].at = "completed"
  /\ callers' = [callers EXCEPT ![c] = "auths"]
  /\ UNCHANGED <<local, run, waiters, cooling, world, faults>>

RunFails(c) ==
  /\ callers[c] = "runs" /\ jobs[run.job].at # "completed"
  /\ Finishes(c, NoOne)
  /\ UNCHANGED <<local, world, faults>>

(* initPlaywrightForAccount on the profile of the account: the session of   *)
(* the profile or the given cookies are good, or the login makes a session, *)
(* which needs an account that Qwen has activated.                         *)
Opens(j, cookies) ==
  /\ cookies # NoOne \/ signedIn[j] # NoOne \/ site[j] = "active"
  /\ signedIn' = [signedIn EXCEPT ![j] = IF cookies # NoOne THEN cookies
                                         ELSE IF @ # NoOne THEN @ ELSE j]
  /\ pool' = [pool EXCEPT ![j] = "open"]
  /\ headers' \in {headers, headers \cup {j}}

(* ensurePoolAuth: the account is in the table, and its context is          *)
(* initialised again if it was closed since the job was ready ...           *)
Reopens(c) ==
  /\ callers[c] = "auths"
  /\ run.job \in table
  /\ \/ pool[run.job] = "closed" /\ Opens(run.job, NoOne)
     \/ pool[run.job] # "closed" /\ UNCHANGED <<signedIn, pool, headers>>
  /\ callers' = [callers EXCEPT ![c] = "checks"]
  /\ UNCHANGED <<local, run, waiters, cooling, jobs, site, table, usable, faults>>

(* Mutant of PoolAuth: what the job says is enough. *)
PoolAuthOfJob(j) == jobs[j].at = "completed"

(* ... and its headers are there, or captured now behind whoever has the    *)
(* account's mutex.                                                        *)
PoolAuth(j) == pool[j] = "open"

Authenticates(c) ==
  /\ callers[c] = "checks"
  /\ PoolAuth(run.job)
  /\ headers' = headers \cup {run.job}
  /\ IF run.left = 0
       THEN Finishes(c, run.job) /\ UNCHANGED jobs
       ELSE /\ run' = [run EXCEPT !.job = Min(Unused), !.left = @ - 1]
            /\ Starts(Min(Unused), TRUE)
            /\ callers' = [callers EXCEPT ![c] = "runs"]
            /\ UNCHANGED <<waiters, cooling>>
  /\ UNCHANGED <<local, site, signedIn, table, usable, pool, faults>>

AuthFails(c) ==
  /\ callers[c] \in {"auths", "checks"}
  /\ Finishes(c, NoOne)
  /\ UNCHANGED <<local, world, faults>>

CooldownPasses ==
  /\ cooling /\ cooling' = FALSE
  /\ UNCHANGED <<local, run, waiters, callers, world, faults>>

RunStep(c) == JobIsReady(c) \/ RunFails(c) \/ Reopens(c) \/ Authenticates(c) \/ AuthFails(c)

(***************************************************************************)
(* A registration                                                          *)
(***************************************************************************)
Goes(j, at) == jobs' = [jobs EXCEPT ![j].at = at]

(* pageShowsActivationPending reads nothing from a closed page. *)
ShowsPending(j) == jobs[j].page /\ site[j] = "pending"

(* pageLooksAuthenticated: a session, of whichever account; on the chat     *)
(* page the cookies and the text field of a guest will do.                 *)
MayLookSignedIn(j) ==
  ~ShowsPending(j) /\ (signedIn[Browser(j)] # NoOne \/ jobs[j].at = "session")

(* Mutant of Launched: the Chrome is not cleared. *)
LaunchedUncleared(j) == signedIn

(* connectLocalBrowser clears the cookies of the one Chrome; a profile of   *)
(* its own is new.                                                         *)
Launched(j) == [signedIn EXCEPT ![Browser(j)] = NoOne]

(* The pages of other registrations in the Chrome are closed. *)
Launches(j) ==
  LET others == {i \in Jobs \ {j} : local /\ Working(i) /\ jobs[i].at # "queued"} IN
    /\ jobs[j].at = "queued"
    /\ signedIn' = Launched(j)
    /\ jobs' = [i \in Jobs |->
         IF i = j THEN [jobs[j] EXCEPT !.at = IF jobs[j].temp THEN "mailbox" ELSE "form",
                                       !.page = TRUE, !.alone = others = {}]
         ELSE IF i \in others THEN [jobs[i] EXCEPT !.page = FALSE, !.alone = FALSE]
         ELSE jobs[i]]
    /\ UNCHANGED <<site, table, usable, pool, headers>>

(* createTempMailbox: one of four providers has an address. *)
GetsMailbox(j) ==
  /\ jobs[j].at = "mailbox"
  /\ Goes(j, "form")
  /\ UNCHANGED <<site, signedIn, table, usable, pool, headers>>

(* What the site makes of the form: nothing yet, an account that has to be  *)
(* activated, or one that is signed in at once.                            *)
SiteAnswers(j) ==
  \/ UNCHANGED <<site, signedIn>>
  \/ /\ site[j] = "none" /\ jobs[j].page
     /\ site' = [site EXCEPT ![j] = "pending"]
     /\ UNCHANGED signedIn
  \/ /\ site[j] = "none" /\ jobs[j].page
     /\ site' = [site EXCEPT ![j] = "active"]
     /\ signedIn' = [signedIn EXCEPT ![Browser(j)] = j]

(* openSignupAndFill *)
Submits(j) ==
  /\ jobs[j].at = "form" /\ jobs[j].page
  /\ SiteAnswers(j)
  /\ Goes(j, "captcha")
  /\ UNCHANGED <<table, usable, pool, headers>>

(* handleCaptcha: nothing to solve, solved by a person, or the page shows   *)
(* that the sign-up went on; the form may be sent once more.                *)
PassesCaptcha(j) ==
  /\ jobs[j].at = "captcha"
  /\ SiteAnswers(j)
  /\ Goes(j, "gate")
  /\ UNCHANGED <<table, usable, pool, headers>>

(* The gates after the form: activation pending or signed in, or, with an   *)
(* address of the operator, simply no longer on the form.                  *)
PassesGate(j) ==
  /\ jobs[j].at = "gate"
  /\ \/ jobs[j].temp /\ (ShowsPending(j) \/ MayLookSignedIn(j)) /\ Goes(j, "verify")
     \/ ~jobs[j].temp /\ ShowsPending(j) /\ Goes(j, "activate")
     \/ ~jobs[j].temp /\ ~ShowsPending(j) /\ Goes(j, "session")
  /\ UNCHANGED <<site, signedIn, table, usable, pool, headers>>

(* openActivationLink, in a new tab: also when the sign-up page is gone.    *)
OpensLink(j) ==
  /\ jobs[j].at = "verify"
  /\ site[j] = "pending"
  /\ site' = [site EXCEPT ![j] = "active"]
  /\ signedIn' \in {signedIn, [signedIn EXCEPT ![Browser(j)] = j]}
  /\ UNCHANGED <<jobs, table, usable, pool, headers>>

(* applyVerification returns as soon as the page looks signed in. *)
Verifies(j) ==
  /\ jobs[j].at = "verify" /\ MayLookSignedIn(j)
  /\ Goes(j, "authenticate")
  /\ UNCHANGED <<site, signedIn, table, usable, pool, headers>>

(* The login form on the chat page, if it is there. *)
LogsIn(j) ==
  /\ jobs[j].at = "authenticate"
  /\ \/ UNCHANGED signedIn
     \/ /\ jobs[j].page /\ site[j] = "active" /\ signedIn[Browser(j)] = NoOne
        /\ signedIn' = [signedIn EXCEPT ![Browser(j)] = j]
  /\ Goes(j, "session")
  /\ UNCHANGED <<site, table, usable, pool, headers>>

(* The operator opens the link of an e-mail of his own, or does not. *)
Activates(j) ==
  /\ jobs[j].at = "activate"
  /\ \/ /\ site[j] = "pending"
        /\ site' = [site EXCEPT ![j] = "active"]
        /\ signedIn' \in {signedIn, [signedIn EXCEPT ![Browser(j)] = j]}
        /\ UNCHANGED jobs
     \/ ~ShowsPending(j) /\ Goes(j, "session") /\ UNCHANGED <<site, signedIn>>
  /\ UNCHANGED <<table, usable, pool, headers>>

(* waitSession *)
GetsSession(j) ==
  /\ jobs[j].at = "session" /\ MayLookSignedIn(j)
  /\ Goes(j, "settle")
  /\ UNCHANGED <<site, signedIn, table, usable, pool, headers>>

(* Three seconds later the cookies of the Chrome are copied; a profile of   *)
(* its own keeps its session on disk.  The browser is let go.              *)
Settles(j) ==
  /\ jobs[j].at = "settle" /\ ~ShowsPending(j)
  /\ jobs' = [jobs EXCEPT ![j].at = "saving", ![j].page = FALSE,
                          ![j].cookies = IF local THEN signedIn[Chrome] ELSE NoOne]
  /\ UNCHANGED <<site, signedIn, table, usable, pool, headers>>

(* Mutant of Saves: the failure of a later step leaves the account. *)
SavesUnmarked(j) ==
  /\ jobs[j].at = "saving"
  /\ table' = table \cup {j}
  /\ usable' = usable \cup {j}
  /\ Goes(j, "init")
  /\ UNCHANGED <<site, signedIn, pool, headers>>

(* addAccount: from here on requests can choose the account. *)
Saves(j) ==
  /\ jobs[j].at = "saving"
  /\ table' = table \cup {j}
  /\ usable' = usable \cup {j}
  /\ jobs' = [jobs EXCEPT ![j].at = "init", ![j].persisted = TRUE]
  /\ UNCHANGED <<site, signedIn, pool, headers>>

(* initPlaywrightForAccount: somebody else's page is enough, even one whose *)
(* session is not validated yet.                                           *)
Initialises(j) ==
  /\ jobs[j].at = "init"
  /\ \/ pool[j] = "closed" /\ Opens(j, jobs[j].cookies)
     \/ pool[j] # "closed" /\ UNCHANGED <<signedIn, pool, headers>>
  /\ jobs' = [jobs EXCEPT ![j].at = "headers", ![j].cookies = NoOne]
  /\ UNCHANGED <<site, table, usable>>

(* ensureAccountHeaders, behind whoever has the account's mutex. *)
CapturesHeaders(j) ==
  /\ jobs[j].at = "headers" /\ pool[j] = "open" /\ j \notin headers
  /\ headers' = headers \cup {j}
  /\ UNCHANGED <<jobs, site, signedIn, table, usable, pool>>

Ready(j) == j \in headers

Completes(j) ==
  /\ jobs[j].at = "headers"
  /\ Ready(j)
  /\ Goes(j, "completed")
  /\ UNCHANGED <<site, signedIn, table, usable, pool, headers>>

(* The catch block: the account leaves the table if it was written, the     *)
(* browser of the registration is closed and its profile deleted; the       *)
(* context of the account, if there is one, stays open.                    *)
Fails(j) ==
  /\ Working(j)
  /\ table' = IF jobs[j].persisted THEN table \ {j} ELSE table
  /\ usable' = usable \cap table'
  /\ signedIn' = IF pool[j] = "closed" THEN [signedIn EXCEPT ![j] = NoOne] ELSE signedIn
  /\ jobs' = [jobs EXCEPT ![j] = [NotStarted EXCEPT !.at = "failed", !.alone = jobs[j].alone]]
  /\ UNCHANGED <<site, pool, headers>>

JobStep(j) ==
  /\ \/ Launches(j) \/ GetsMailbox(j) \/ Submits(j) \/ PassesCaptcha(j) \/ PassesGate(j)
     \/ OpensLink(j) \/ Verifies(j) \/ LogsIn(j) \/ Activates(j) \/ GetsSession(j)
     \/ Settles(j) \/ Saves(j) \/ Initialises(j) \/ CapturesHeaders(j) \/ Completes(j)
     \/ Fails(j)
  /\ UNCHANGED <<local, creator, faults>>

(***************************************************************************)
(* Others                                                                  *)
(***************************************************************************)
(* A request chooses an account of the table and initialises it, without    *)
(* the cookies of a registration.                                          *)
RequestInits(j) ==
  /\ j \in usable /\ pool[j] = "closed"
  /\ pool' = [pool EXCEPT ![j] = "opening"]
  /\ UNCHANGED <<jobs, site, signedIn, table, usable, headers>>

RequestInitEnds(j) ==
  /\ pool[j] = "opening"
  /\ \/ Opens(j, NoOne)
     \/ pool' = [pool EXCEPT ![j] = "closed"] /\ UNCHANGED <<signedIn, headers>>
  /\ UNCHANGED <<jobs, site, table, usable>>

(* The context is closed: idle, reset, or its browser crashed. *)
PoolCloses(j) ==
  /\ faults < MaxFaults /\ faults' = faults + 1
  /\ pool[j] = "open"
  /\ pool' = [pool EXCEPT ![j] = "closed"]
  /\ headers' = headers \ {j}
  /\ UNCHANGED <<jobs, site, signedIn, table, usable>>

CoolsDown(j) ==
  /\ j \in usable /\ jobs[j].at = "completed"
  /\ usable' = usable \ {j}
  /\ UNCHANGED <<jobs, site, signedIn, table, pool, headers>>

(* The process crashes: the creator, the registrations and the contexts are *)
(* gone, the table, the profiles and the Chrome of the PC are not.  The     *)
(* accounts of unfinished registrations stay in the table, if they are      *)
(* there.                                                                  *)
Crash ==
  /\ faults < MaxFaults /\ faults' = faults + 1
  /\ run' = NoRun /\ waiters' = <<>> /\ cooling' = FALSE
  /\ callers' = [c \in Callers |-> "idle"]
  /\ jobs' = [j \in Jobs |-> IF Working(j) THEN [NotStarted EXCEPT !.at = "lost", !.alone = jobs[j].alone]
                                           ELSE jobs[j]]
  /\ pool' = [j \in Jobs |-> "closed"] /\ headers' = {}
  /\ usable' = table
  /\ UNCHANGED <<local, site, signedIn, table>>

Next ==
  \/ \E c \in Callers : RunStep(c) \/ \E manual \in BOOLEAN : Asks(c, manual)
  \/ AdminStarts
  \/ CooldownPasses
  \/ \E j \in Jobs :
       \/ JobStep(j)
       \/ /\ RequestInits(j) \/ RequestInitEnds(j) \/ CoolsDown(j)
          /\ UNCHANGED <<local, creator, faults>>
       \/ PoolCloses(j) /\ UNCHANGED <<local, creator>>
  \/ Crash

(* The run polls its job and gives it up at the time limit; the awaits of   *)
(* ensurePoolAuth have limits of their own.  Only one caller runs at a time. *)
Fairness == WF_vars(\E c \in Callers : RunStep(c))

Spec == Init /\ [][Next]_vars /\ Fairness

(***************************************************************************)
(* Properties                                                              *)
(***************************************************************************)
CallerAt == Free \cup {"waits", "runs", "auths", "checks"}
JobAt == Ended \cup {"queued", "mailbox", "form", "captcha", "gate", "verify",
                     "activate", "authenticate", "session", "settle", "saving",
                     "init", "headers"}

(* The type invariant.  The creator is busy exactly while one caller runs   *)
(* it; those that wait are the queued ones, each once.                     *)
TypeOK ==
  /\ run \in [busy : BOOLEAN, job : Jobs \cup {NoOne}, left : 0..MaxBatch]
  /\ callers \in [Callers -> CallerAt]
  /\ jobs \in [Jobs -> [at : JobAt, temp : BOOLEAN, page : BOOLEAN,
                        cookies : Jobs \cup {NoOne}, persisted : BOOLEAN, alone : BOOLEAN]]
  /\ site \in [Jobs -> {"none", "pending", "active"}]
  /\ signedIn \in [Jobs \cup {Chrome} -> Jobs \cup {NoOne}]
  /\ usable \subseteq table /\ table \subseteq Jobs /\ headers \subseteq Jobs
  /\ pool \in [Jobs -> {"closed", "opening", "open"}]
  /\ Cardinality({c \in Callers : callers[c] \in {"runs", "auths", "checks"}})
       = (IF run.busy THEN 1 ELSE 0)
  /\ ToSet(waiters) = {c \in Callers : callers[c] = "waits"}
  /\ IsInjective(waiters)

(* A failed registration leaves no account behind, whatever step failed.   *)
(* (The variables have their types, and who waits is in the queue.)        *)
FailedJobsLeaveNoAccount ==
  TypeOK /\ \A j \in Jobs : jobs[j].at = "failed" => j \notin table

(* An account uses the session of its own sign-up, unless two registrations *)
(* were in the Chrome of the PC at the same time.                          *)
AccountsUseTheirOwnSession ==
  \A j \in Jobs : pool[j] = "open" /\ jobs[j].alone => signedIn[j] = j

(* A run answers with an account that requests can use at that moment, to   *)
(* its own caller and to all that waited for it.                           *)
AnswersAreUsable ==
  [][\A c \in Callers : callers[c] \notin Free /\ callers'[c] = "served" =>
       run.job \in table' /\ pool'[run.job] = "open" /\ run.job \in headers']_vars

(* Whoever runs the creator or waits for it gets an answer, also when the   *)
(* registration fails or takes too long.                                   *)
EveryCallerIsAnswered ==
  \A c \in Callers : callers[c] \notin Free ~> callers[c] \in Free
=============================================================================
