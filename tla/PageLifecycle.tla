--------------------------- MODULE PageLifecycle ---------------------------
(***************************************************************************)
(* The browsers of the accounts: src/services/playwright.ts with its        *)
(* callers in session-keeper.ts, auth-playwright.ts and the admin API.      *)
(*                                                                         *)
(* Every account has a profile on disk, at most one registered browser      *)
(* context (accountContexts) and one registered page (accountPages).        *)
(* Initialising, refreshing, keeping alive, closing and resetting run under *)
(* the account's mutex, step by step between awaits; looking a page up and  *)
(* reopening it (getPageForAccount, ensurePageForAccount) run without it.   *)
(* Resets are chained: one at a time over all accounts.  A reset gives its   *)
(* own initialisation 45 seconds and closes the account after that, while   *)
(* the initialisation goes on and still holds the mutex.                    *)
(*                                                                         *)
(* A context is named by a number that is free again when nothing refers to *)
(* it.  A page is the context it belongs to and whether it was closed alone *)
(* (by the site or by a person at the window).                              *)
(***************************************************************************)
EXTENDS Naturals, Sequences, FiniteSets, FiniteSetsExt, SequencesExt, Functions, Mutex

CONSTANTS
  Accounts,     \* accounts with a profile
  Callers,      \* requests, admin handlers, start-up and the session keeper
  MaxContexts,  \* bound: browsers of one account that are open at a time
  MaxResets,    \* bound: profile resets that are scheduled
  MaxCrashes    \* bound: browsers that crash and pages closed by others

ASSUME BrowserAssumption ==
  /\ MaxContexts \in Nat \ {0}
  /\ MaxResets \in Nat
  /\ MaxCrashes \in Nat
  /\ {"resetter", "resetInit"} \cap Callers = {}

(* "resetter" is the chain of resets, "resetInit" the initialisation that   *)
(* a reset started, which outlives it when it takes too long.               *)
Tasks == Callers \cup {"resetter", "resetInit"}
Context == 1..MaxContexts
None == 0
NoAccount == "no account"

VARIABLES
  mutex,      \* accountMutexes
  contexts,   \* accountContexts: the registered context
  pages,      \* accountPages: the registered page
  browsers,   \* the contexts that are open, and whether their session is validated
  headers,    \* headerCaches: the profile the captured bx-ua comes from
  profile,    \* how often the profile on disk was deleted
  resets,     \* profileResetQueue, in the order of profileResetChain
  tasks,      \* where each asynchronous operation is
  scheduled,  \* resets scheduled so far
  crashes     \* crashes so far

vars == <<mutex, contexts, pages, browsers, headers, profile, resets,
          tasks, scheduled, crashes>>
maps == <<contexts, pages, headers>>
bounds == <<scheduled, crashes>>

Op == {"init", "refresh", "headers", "keepAlive", "close", "closeAll", "reset", "reopen"}
Idle == [op |-> "none", at |-> "idle", acct |-> NoAccount, ctx |-> None, todo |-> {}]
NoPage == [ctx |-> None, closed |-> FALSE]

Init ==
  /\ mutex = [a \in Accounts |-> NewMutex]
  /\ contexts = [a \in Accounts |-> None]
  /\ pages = [a \in Accounts |-> NoPage]
  /\ browsers = [a \in Accounts |-> [c \in {} |-> "new"]]
  /\ headers = [a \in Accounts |-> None]
  /\ profile = [a \in Accounts |-> 1]
  /\ resets = <<>>
  /\ tasks = [t \in Tasks |-> Idle]
  /\ scheduled = 0
  /\ crashes = 0

(***************************************************************************)
(* Reading the maps                                                        *)
(***************************************************************************)
Open(a) == DOMAIN browsers[a]
HasPage(a) == pages[a] # NoPage
PageIsOpen(a) == HasPage(a) /\ ~pages[a].closed /\ pages[a].ctx \in Open(a)
ClosingAll == \E t \in Tasks : tasks[t].op = "closeAll"

(* A number no map and no operation refers to. *)
Free(a) ==
  Context \ (Open(a) \cup {contexts[a], pages[a].ctx}
               \cup {tasks[t].ctx : t \in {s \in Tasks : tasks[s].acct = a}})

(* The context, the page and the headers are forgotten together. *)
Cleanup(a) ==
  /\ contexts' = [contexts EXCEPT ![a] = None]
  /\ pages' = [pages EXCEPT ![a] = NoPage]
  /\ headers' = [headers EXCEPT ![a] = None]

(* Mutant of CleanupOf: the captured headers are kept. *)
CleanupKeepingHeaders(a) ==
  /\ contexts' = [contexts EXCEPT ![a] = None]
  /\ pages' = [pages EXCEPT ![a] = NoPage]
  /\ UNCHANGED headers

CleanupOf(a) == Cleanup(a)

Closes(a, c) == browsers' = [browsers EXCEPT ![a] = [d \in DOMAIN @ \ {c} |-> @[d]]]
At(t, op, at) == tasks[t].op = op /\ tasks[t].at = at
Reaches(t, at) == tasks' = [tasks EXCEPT ![t].at = at]

(***************************************************************************)
(* The account mutex.  A task enters at once when it is free and waits      *)
(* behind the others when it is not.                                        *)
(***************************************************************************)
Acquires(t, task) ==
  LET a == task.acct IN
    IF mutex[a].locked
      THEN /\ mutex' = [mutex EXCEPT ![a] = Enqueue(@, t)]
           /\ tasks' = [tasks EXCEPT ![t] = [task EXCEPT !.at = "waits"]]
      ELSE /\ mutex' = [mutex EXCEPT ![a] = Lock(@)]
           /\ tasks' = [tasks EXCEPT ![t] = [task EXCEPT !.at = "entered"]]

(* The task releases the mutex and becomes `next`; the first waiter enters. *)
Releases(t, next) ==
  LET a == tasks[t].acct IN
    /\ mutex' = [mutex EXCEPT ![a] = Release(@)]
    /\ tasks' = [s \in Tasks |-> IF s = t THEN next
                                 ELSE IF s \in Woken(mutex[a])
                                      THEN [tasks[s] EXCEPT !.at = "entered"]
                                      ELSE tasks[s]]

(* What a task is when its operation is over: "resetInit" keeps its outcome *)
(* for the reset that awaits it, closeAllPlaywright takes the next account   *)
(* unless this one failed.                                                 *)
After(t, ok) ==
  CASE t = "resetInit" -> [Idle EXCEPT !.at = IF ok THEN "idle" ELSE "failed"]
    [] ok /\ tasks[t].op = "closeAll" /\ tasks[t].todo # {} ->
         [tasks[t] EXCEPT !.at = "next", !.acct = NoAccount, !.ctx = None]
    [] t = "resetter" -> [Idle EXCEPT !.at = "ended"]
    [] OTHER -> Idle

(* An abort or the 300 seconds of Mutex.acquire end a wait; the operation   *)
(* fails.                                                                  *)
GivesUp(t) ==
  /\ tasks[t].at = "waits"
  /\ LET a == tasks[t].acct IN
       mutex' = [mutex EXCEPT ![a] =
                   Withdraw(@, CHOOSE i \in 1..Len(@.queue) : @.queue[i] = t)]
  /\ tasks' = [tasks EXCEPT ![t] = After(t, FALSE)]
  /\ UNCHANGED <<maps, browsers, profile, resets, bounds>>

(***************************************************************************)
(* Operations begin.  Each has the checks its function makes before it      *)
(* waits for the mutex.                                                    *)
(***************************************************************************)
Task(op, a) == [Idle EXCEPT !.op = op, !.acct = a]

(* initPlaywrightForAccount: nothing to do for an account with a page. *)
BeginsInit(t, a) == ~HasPage(a) /\ Acquires(t, Task("init", a))

(* Mutant of BeginsClose: the account is closed without its mutex. *)
BeginsCloseUnlocked(t, a) ==
  /\ tasks' = [tasks EXCEPT ![t] = [Task("close", a) EXCEPT
                                      !.at = "closing", !.ctx = contexts[a]]]
  /\ UNCHANGED mutex

(* refreshHeaders and closePlaywrightForAccount ask nothing first. *)
BeginsRefresh(t, a) == Acquires(t, Task("refresh", a))
BeginsClose(t, a) == Acquires(t, Task("close", a))

(* ensureAccountHeaders *)
BeginsHeaders(t, a) == HasPage(a) /\ Acquires(t, Task("headers", a))

(* keepAlivePlaywrightAccount: only when nobody has or wants the mutex, so   *)
(* that it never waits.  Whether the account was used lately is left open:  *)
(* lastAccountActivity is not modelled.                                    *)
BeginsKeepAlive(t, a) ==
  HasPage(a) /\ IsIdle(mutex[a]) /\ Acquires(t, Task("keepAlive", a))

(* closeIdlePlaywrightAccounts: the accounts are listed first, and closed   *)
(* one after the other when their mutex is idle then.  Whether they are      *)
(* still unused is not asked again, so the list is not kept: any account    *)
(* with an idle mutex can be one that was listed.                           *)
BeginsIdleClose(t, a) == IsIdle(mutex[a]) /\ BeginsClose(t, a)

(* ensurePageForAccount: a new page in the registered context, without the  *)
(* mutex.                                                                  *)
BeginsReopen(t, a) ==
  /\ ~PageIsOpen(a)
  /\ contexts[a] # None
  /\ pages' = [pages EXCEPT ![a] = NoPage]
  /\ tasks' = [tasks EXCEPT ![t] = [Task("reopen", a) EXCEPT
                                      !.at = "newPage", !.ctx = contexts[a]]]
  /\ UNCHANGED <<mutex, contexts, headers>>

Begins(t, a) ==
  /\ tasks[t] = Idle
  /\ \/ /\ \/ BeginsInit(t, a)
           \/ BeginsRefresh(t, a)
           \/ BeginsHeaders(t, a)
           \/ BeginsKeepAlive(t, a)
           \/ BeginsIdleClose(t, a)
           \/ BeginsClose(t, a)
        /\ UNCHANGED maps
     \/ BeginsReopen(t, a)
  /\ UNCHANGED <<browsers, profile, resets, bounds>>

(* closeAllPlaywright: the accounts that have any state, one after another. *)
BeginsCloseAll(t) ==
  /\ tasks[t] = Idle
  /\ ~ClosingAll
  /\ LET known == {a \in Accounts : contexts[a] # None \/ HasPage(a)
                                       \/ headers[a] # None}
     IN known # {} /\ tasks' = [tasks EXCEPT ![t] =
                         [Idle EXCEPT !.op = "closeAll", !.at = "next", !.todo = known]]
  /\ UNCHANGED <<mutex, maps, browsers, profile, resets, bounds>>

ClosesNext(t) ==
  /\ At(t, "closeAll", "next")
  /\ \E a \in tasks[t].todo :
       Acquires(t, [tasks[t] EXCEPT !.acct = a, !.todo = @ \ {a}])
  /\ UNCHANGED <<maps, browsers, profile, resets, bounds>>

(***************************************************************************)
(* initPlaywrightForAccount under the mutex                                *)
(***************************************************************************)
(* Another task has initialised the account in the meantime. *)
InitFinds(t) ==
  /\ At(t, "init", "entered")
  /\ HasPage(tasks[t].acct)
  /\ Releases(t, After(t, TRUE))
  /\ UNCHANGED <<maps, browsers, profile, resets, bounds>>

(* launchPersistentContext ends with a browser on the account's profile ... *)
Launches(t) ==
  LET a == tasks[t].acct IN
    /\ At(t, "init", "entered")
    /\ ~HasPage(a)
    /\ Free(a) # {}
    /\ LET c == Min(Free(a)) IN
         /\ browsers' = [browsers EXCEPT ![a] =
                            [d \in Open(a) \cup {c} |-> IF d = c THEN "new" ELSE @[d]]]
         /\ tasks' = [tasks EXCEPT ![t].at = "setup", ![t].ctx = c]
    /\ UNCHANGED <<mutex, maps, profile, resets, bounds>>

(* ... or without one, before there is anything to clean up. *)
LaunchFails(t) ==
  /\ At(t, "init", "entered")
  /\ ~HasPage(tasks[t].acct)
  /\ Releases(t, After(t, FALSE))
  /\ UNCHANGED <<maps, browsers, profile, resets, bounds>>

(* The first page has the stream bridge: context and page are registered,   *)
(* before anybody knows whether the session is still good.                 *)
Registers(t) ==
  LET a == tasks[t].acct
      c == tasks[t].ctx IN
    /\ At(t, "init", "setup")
    /\ c \in Open(a)
    /\ contexts' = [contexts EXCEPT ![a] = c]
    /\ pages' = [pages EXCEPT ![a] = [ctx |-> c, closed |-> FALSE]]
    /\ Reaches(t, "validate")
    /\ UNCHANGED <<mutex, headers, browsers, profile, resets, bounds>>

(* The home page shows a session, or the login made one. *)
Validates(t) ==
  LET a == tasks[t].acct
      c == tasks[t].ctx IN
    /\ At(t, "init", "validate")
    /\ c \in Open(a)
    /\ browsers' = [browsers EXCEPT ![a][c] = "valid"]
    /\ Reaches(t, "capture")
    /\ UNCHANGED <<mutex, maps, profile, resets, bounds>>

(* Mutant of InitFails: the error is thrown on without closing anything. *)
InitFailsOpen(t) ==
  /\ At(t, "init", "setup") \/ At(t, "init", "validate")
  /\ Releases(t, After(t, FALSE))
  /\ UNCHANGED <<maps, browsers, profile, resets, bounds>>

InitFails(t) ==
  /\ At(t, "init", "setup") \/ At(t, "init", "validate")
  /\ Reaches(t, "closing")
  /\ UNCHANGED <<mutex, maps, browsers, profile, resets, bounds>>

(***************************************************************************)
(* Headers, refresh and keep-alive under the mutex                         *)
(***************************************************************************)
(* captureHeaders: the registered page's requests show bx-ua, or the time   *)
(* limit passes; without a page there is nothing to capture.               *)
Captures(t) ==
  LET a == tasks[t].acct IN
    /\ tasks[t].at = "capture"
    /\ \/ /\ PageIsOpen(a)
          /\ headers' = [headers EXCEPT ![a] = profile[a]]
       \/ UNCHANGED headers
    /\ Releases(t, After(t, TRUE))
    /\ UNCHANGED <<contexts, pages, browsers, profile, resets, bounds>>

(* ensureAccountHeaders captures at once; refreshHeadersInternal opens the  *)
(* home page first, if there is a page.                                    *)
Enters(t) ==
  LET a == tasks[t].acct IN
    /\ tasks[t].at = "entered"
    /\ \/ /\ tasks[t].op = "headers"
          /\ Reaches(t, "capture")
       \/ /\ tasks[t].op = "refresh"
          /\ Reaches(t, IF HasPage(a) THEN "navigate" ELSE "capture")
    /\ UNCHANGED <<mutex, maps, browsers, profile, resets, bounds>>

(* Navigation and, where needed, the login end well or badly: the headers   *)
(* are captured either way.                                                *)
Refreshes(t) ==
  /\ At(t, "refresh", "navigate")
  /\ Reaches(t, "capture")
  /\ UNCHANGED <<mutex, maps, browsers, profile, resets, bounds>>

(* The keep-alive navigates or moves the mouse, well or badly. *)
KeepsAlive(t) ==
  LET a == tasks[t].acct IN
    /\ \/ /\ At(t, "keepAlive", "entered")
          /\ IF PageIsOpen(a)
               THEN UNCHANGED mutex /\ Reaches(t, "navigate")
               ELSE Releases(t, After(t, FALSE))
       \/ /\ At(t, "keepAlive", "navigate")
          /\ Releases(t, After(t, TRUE))
    /\ UNCHANGED <<maps, browsers, profile, resets, bounds>>

(***************************************************************************)
(* Closing: closePlaywrightForAccountLocked and the failed initialisation.  *)
(***************************************************************************)
StartsClosing(t) ==
  LET a == tasks[t].acct IN
    /\ tasks[t].at = "entered"
    /\ tasks[t].op \in {"close", "closeAll", "reset"}
    /\ tasks' = [tasks EXCEPT ![t].at = "closing", ![t].ctx = contexts[a]]
    /\ UNCHANGED <<mutex, maps, browsers, profile, resets, bounds>>

(* Mutant of ResetLets: the reset keeps the mutex for its initialisation. *)
ResetKeeps(t) ==
  /\ tasks' = [tasks EXCEPT ![t].at = "inits", ![t].ctx = None]
  /\ UNCHANGED mutex

(* The reset gives the mutex back before it initialises the account, or     *)
(* ends because the account was removed in the meantime.                   *)
ResetLets(t) ==
  \/ Releases(t, [tasks[t] EXCEPT !.at = "inits", !.ctx = None])
  \/ Releases(t, After(t, FALSE))

(* Pages and context are closed, or the browser's process is killed; what   *)
(* is remembered of the account is forgotten.  A reset deletes the profile  *)
(* in the same breath.                                                     *)
Closed(t) ==
  LET a == tasks[t].acct IN
    /\ tasks[t].at = "closing"
    /\ Closes(a, tasks[t].ctx)
    /\ CleanupOf(a)
    /\ IF tasks[t].op = "reset"
         THEN /\ profile' = [profile EXCEPT ![a] = @ + 1]
              /\ ResetLets(t)
         ELSE UNCHANGED profile /\ Releases(t, After(t, tasks[t].op # "init"))
    /\ UNCHANGED <<resets, bounds>>

(***************************************************************************)
(* Profile resets                                                          *)
(***************************************************************************)
(* schedulePlaywrightProfileReset: once per account, not while everything   *)
(* is being closed.                                                        *)
Schedule(a) ==
  /\ scheduled < MaxResets
  /\ ~ClosingAll
  /\ a \notin ToSet(resets)
  /\ resets' = Append(resets, a)
  /\ scheduled' = scheduled + 1
  /\ UNCHANGED <<mutex, maps, browsers, profile, tasks, crashes>>

(* The next link of the chain; a reset that finds everything being closed   *)
(* is over at once.                                                        *)
BeginsReset ==
  /\ tasks["resetter"] = Idle
  /\ resets # <<>>
  /\ IF ClosingAll
       THEN UNCHANGED mutex /\ tasks' = [tasks EXCEPT !["resetter"].at = "ended"]
       ELSE Acquires("resetter", Task("reset", Head(resets)))
  /\ UNCHANGED <<maps, browsers, profile, resets, bounds>>

(* initPlaywrightForAccount of the reset.  Two of them never run at a time  *)
(* here: a reset waits for one that an earlier reset left behind.          *)
ResetInits ==
  LET a == tasks["resetter"].acct
      waiting == [tasks EXCEPT !["resetter"].at = "awaits"] IN
    /\ At("resetter", "reset", "inits")
    /\ tasks["resetInit"].at \in {"idle", "failed"}
    /\ IF HasPage(a)
         THEN UNCHANGED mutex /\ tasks' = [waiting EXCEPT !["resetInit"] = Idle]
         ELSE LET init == Task("init", a) IN
                IF mutex[a].locked
                  THEN /\ mutex' = [mutex EXCEPT ![a] = Enqueue(@, "resetInit")]
                       /\ tasks' = [waiting EXCEPT !["resetInit"] =
                                      [init EXCEPT !.at = "waits"]]
                  ELSE /\ mutex' = [mutex EXCEPT ![a] = Lock(@)]
                       /\ tasks' = [waiting EXCEPT !["resetInit"] =
                                      [init EXCEPT !.at = "entered"]]
    /\ UNCHANGED <<maps, browsers, profile, resets, bounds>>

(* The initialisation is done and the reset with it; or it failed, or takes  *)
(* longer than the limit: the account is closed, behind whoever holds the   *)
(* mutex, the initialisation included.                                     *)
ResetAwaits ==
  LET a == tasks["resetter"].acct IN
    /\ At("resetter", "reset", "awaits")
    /\ IF tasks["resetInit"] = Idle
         THEN /\ tasks' = [tasks EXCEPT !["resetter"] = [Idle EXCEPT !.at = "ended"]]
              /\ UNCHANGED mutex
         ELSE Acquires("resetter", Task("close", a))
    /\ UNCHANGED <<maps, browsers, profile, resets, bounds>>

(* The entry leaves the queue; the next reset may begin. *)
ResetEnds ==
  /\ tasks["resetter"].at = "ended"
  /\ tasks' = [tasks EXCEPT !["resetter"] = Idle]
  /\ resets' = Tail(resets)
  /\ UNCHANGED <<mutex, maps, browsers, profile, bounds>>

(***************************************************************************)
(* Without the mutex: reopening a page and looking it up                   *)
(***************************************************************************)
(* ensurePageForAccount: newPage and the navigation fail when the context   *)
(* is closed, dismissing the modals after that does not; the page is        *)
(* registered last, whatever has happened to the account.                  *)
Reopens(t) ==
  LET a == tasks[t].acct
      c == tasks[t].ctx IN
    /\ tasks[t].op = "reopen"
    /\ \/ /\ tasks[t].at = "newPage"
          /\ \/ c \in Open(a) /\ Reaches(t, "dismiss")
             \/ tasks' = [tasks EXCEPT ![t] = Idle]
          /\ UNCHANGED pages
       \/ /\ tasks[t].at = "dismiss"
          /\ pages' = [pages EXCEPT ![a] = [ctx |-> c, closed |-> FALSE]]
          /\ tasks' = [tasks EXCEPT ![t] = Idle]
    /\ UNCHANGED <<mutex, contexts, headers, browsers, profile, resets, bounds>>

(* getPageForAccount: the entry of a closed page is dropped. *)
LooksUp(a) ==
  /\ HasPage(a) /\ ~PageIsOpen(a)
  /\ pages' = [pages EXCEPT ![a] = NoPage]
  /\ UNCHANGED <<mutex, contexts, headers, browsers, profile, resets, tasks, bounds>>

(***************************************************************************)
(* The environment                                                         *)
(***************************************************************************)
BrowserCrashes(a) ==
  /\ crashes < MaxCrashes
  /\ \E c \in Open(a) : Closes(a, c)
  /\ crashes' = crashes + 1
  /\ UNCHANGED <<mutex, maps, profile, resets, tasks, scheduled>>

PageCloses(a) ==
  /\ crashes < MaxCrashes
  /\ PageIsOpen(a)
  /\ pages' = [pages EXCEPT ![a].closed = TRUE]
  /\ crashes' = crashes + 1
  /\ UNCHANGED <<mutex, contexts, headers, browsers, profile, resets, tasks, scheduled>>

(***************************************************************************)
(* The system                                                              *)
(***************************************************************************)
InitStep(t) == InitFinds(t) \/ Launches(t) \/ LaunchFails(t) \/ Registers(t)
              \/ Validates(t) \/ InitFails(t)

Step(t) ==
  \/ InitStep(t)
  \/ Captures(t)
  \/ Enters(t)
  \/ Refreshes(t)
  \/ KeepsAlive(t)
  \/ StartsClosing(t)
  \/ Closed(t)
  \/ ClosesNext(t)
  \/ Reopens(t)

ResetStep == BeginsReset \/ ResetInits \/ ResetAwaits \/ ResetEnds

Next ==
  \/ \E t \in Tasks : Step(t) \/ GivesUp(t)
  \/ \E t \in Callers : BeginsCloseAll(t) \/ \E a \in Accounts : Begins(t, a)
  \/ ResetStep
  \/ \E a \in Accounts :
       Schedule(a) \/ LooksUp(a) \/ BrowserCrashes(a) \/ PageCloses(a)

(* Everything that is awaited has a time limit of its own: launches,        *)
(* navigations, captures and the closing of contexts end.  Nobody has to    *)
(* begin an operation, to give up or to crash.                             *)
Fairness == WF_vars(ResetStep) /\ \A t \in Tasks : WF_vars(Step(t))

Spec == Init /\ [][Next]_vars /\ Fairness

(***************************************************************************)
(* Properties                                                              *)
(***************************************************************************)
TaskState ==
  [op : Op \cup {"none"},
   at : {"idle", "failed", "ended", "waits", "entered", "next", "setup", "validate",
         "capture", "navigate", "closing", "inits", "awaits", "newPage", "dismiss"},
   acct : Accounts \cup {NoAccount}, ctx : Context \cup {None}, todo : SUBSET Accounts]

Holds(t, a) == tasks[t].acct = a /\
  tasks[t].at \in {"entered", "setup", "validate", "capture", "navigate", "closing"}

(* The type invariant.  An account's mutex is locked exactly while one task *)
(* is between acquire and release; it is queued for by those that wait.     *)
TypeOK ==
  /\ mutex \in [Accounts -> MutexState(Tasks)]
  /\ contexts \in [Accounts -> Context \cup {None}]
  /\ pages \in [Accounts -> [ctx : Context \cup {None}, closed : BOOLEAN]]
  /\ \A a \in Accounts : Open(a) \subseteq Context /\ Range(browsers[a]) \subseteq {"new", "valid"}
  /\ headers \in [Accounts -> 0..(MaxResets + 1)]
  /\ profile \in [Accounts -> 1..(MaxResets + 1)]
  /\ resets \in Seq(Accounts)
  /\ tasks \in [Tasks -> TaskState]
  /\ \A a \in Accounts :
       /\ Cardinality({t \in Tasks : Holds(t, a)}) = (IF mutex[a].locked THEN 1 ELSE 0)
       /\ ToSet(mutex[a].queue) = {t \in Tasks : tasks[t].acct = a /\ tasks[t].at = "waits"}

(* A browser that a task is working in under the mutex is closed by that    *)
(* task or by a crash, never by another task: neither the idle closing, nor *)
(* a reset that ran out of time, nor closing everything takes the browser   *)
(* away from under an initialisation, a refresh or a keep-alive.           *)
WorkIsNotCutShort ==
  [][\A a \in Accounts : \A c \in Open(a) \ DOMAIN browsers'[a] :
       \/ crashes' # crashes
       \/ \A t \in Tasks : Holds(t, a) /\ c \in {tasks[t].ctx, contexts[a]} =>
            tasks[t].at = "closing"]_vars

(* An initialisation registers its browser before it knows that the session *)
(* is good; when it fails nothing of it stays.  Whenever nobody has the     *)
(* mutex, the registered browser of an account has a validated session or   *)
(* has crashed.  (The variables have their types.)                         *)
IdleAccountsAreWhole ==
  /\ TypeOK
  /\ \A a \in Accounts :
       IsIdle(mutex[a]) /\ contexts[a] \in Open(a) => browsers[a][contexts[a]] = "valid"

(* The headers an account's requests are sent with were captured from the   *)
(* profile that is on disk, never from one that a reset has deleted.       *)
HeadersAreOfTheProfile ==
  \A a \in Accounts : headers[a] \in {None, profile[a]}

(* A scheduled reset ends: until then the account counts as busy and is not *)
(* chosen for requests (getBusyPlaywrightAccountIds), and no other account  *)
(* is reset.                                                               *)
EveryResetEnds ==
  \A a \in Accounts : a \in ToSet(resets) ~> a \notin ToSet(resets)
=============================================================================
