----------------------------- MODULE ChatRequest -----------------------------
(***************************************************************************)
(* The life of a request through chatCompletions (src/routes/chat/index.ts) *)
(* and acquireUpstreamStream (src/routes/chat/account.ts), for requests     *)
(* that may continue a conversation: read the logical thread, lock its     *)
(* chat, choose an account, take a slot of it, create the upstream stream,  *)
(* remember the chat in the thread, stream, clean up; and the retries,      *)
(* rotations, timeouts and disconnections on the way.                      *)
(*                                                                         *)
(* The chat lock and the account slots appear as what ChatLocks and         *)
(* AccountSlots show them to be, first-come first-served lines whose head   *)
(* holds the resource (config.ts bounds the slots of an account to one).    *)
(* createQwenStream sends a message over HTTP into a chat, or types it on   *)
(* the account's page, which always opens a new conversation.  Every action *)
(* is what runs between two awaits.                                        *)
(***************************************************************************)
EXTENDS Naturals, Sequences, FiniteSets, SequencesExt

CONSTANTS
  Request, Session, Account, Chat,
  Home,        \* Home[c]: the account that chat c lives in, if it exists
  None,        \* no chat, account, thread or parent
  MaxRetries   \* streamProcessingRetries

ASSUME ChatRequestAssumption ==
  /\ None \notin Request \union Session \union Account \union Chat
  /\ Home \in [Chat -> Account]
  /\ MaxRetries \in Nat

VARIABLES
  thread,    \* logicalThreadStates
  lockLine,  \* lockLine[c]: the holder of chat c's lock and its waiters
  slotLine,  \* slotLine[a]: the holder of account a's slot and its waiters
  cooling,   \* accounts on cooldown
  req        \* req[r]: the local variables of request r

vars == <<thread, lockLine, slotLine, cooling, req>>

PC == {"new", "lockwait", "prepare", "reducing", "slotwait", "creating",
       "relock", "streaming", "retrying", "done"}

(* The parent of the next message is left out: no property here is about it. *)
Thread == [account : Account, chat : Chat]

Local ==
  [pc : PC,
   session : Session \union {None},
   lock : Chat \union {None},       \* what releaseChatLock releases
   snap : Thread \union {None},     \* existingThread
   tried : SUBSET Account,          \* triedAccountIds
   account : Account \union {None}, \* the account in use, or waited for
   chat : Chat \union {None},       \* uiSessionId
   verified : BOOLEAN,              \* verifiedPersistedCooldown
   reduced : BOOLEAN,               \* the prompt was reduced after anti-bot
   retries : 0 .. MaxRetries,       \* streamProcessingRetries
   aborted : BOOLEAN]               \* requestSignal.aborted

TypeOK ==
  /\ thread \in [Session -> Thread \union {None}]
  /\ lockLine \in [Chat -> Seq(Request)]
  /\ slotLine \in [Account -> Seq(Request)]
  /\ cooling \subseteq Account
  /\ req \in [Request -> Local]

NewLocal ==
  [pc |-> "new", session |-> None, lock |-> None, snap |-> None, tried |-> {},
   account |-> None, chat |-> None, verified |-> FALSE, reduced |-> FALSE,
   retries |-> MaxRetries, aborted |-> FALSE]

Init ==
  /\ thread = [s \in Session |-> None]
  /\ lockLine = [c \in Chat |-> <<>>]
  /\ slotLine = [a \in Account |-> <<>>]
  /\ cooling = {}
  /\ req = [r \in Request |-> NewLocal]

-----------------------------------------------------------------------------
(* Lines *)

IsHead(line, r) == line # <<>> /\ Head(line) = r
Without(line, r) == RemoveFirst(line, r)

(* Releasing, timing out and giving up all take the caller out of a line,  *)
(* and do nothing when it is in none.                                      *)
Unslotted(r) == [a \in Account |-> Without(slotLine[a], r)]
Unlocked(r) == [c \in Chat |-> Without(lockLine[c], r)]

(* A chat id nothing refers to stands for a new one. *)
Fresh(c) ==
  /\ \A s \in Session : thread[s] # None => thread[s].chat # c
  /\ \A r \in Request : /\ req[r].chat # c /\ req[r].lock # c
                        /\ req[r].snap # None => req[r].snap.chat # c
  /\ lockLine[c] = <<>>

-----------------------------------------------------------------------------
(* The end of a request *)

(* Mutant of Ends: the outer catch forgets the chat lock. *)
EndsHoldingTheLock(r) ==
  /\ slotLine' = Unslotted(r)
  /\ req' = [req EXCEPT ![r] = [NewLocal EXCEPT !.pc = "done"]]
  /\ UNCHANGED lockLine

(* Success and failure alike give the slot and the lock back: through       *)
(* onStreamComplete, the release on an error result, or the outer catch.    *)
Ends(r) ==
  /\ slotLine' = Unslotted(r)
  /\ lockLine' = Unlocked(r)
  /\ req' = [req EXCEPT ![r] = [NewLocal EXCEPT !.pc = "done"]]

-----------------------------------------------------------------------------
(* The lock step *)

(* The request reads the thread of its session and asks for the lock of its *)
(* chat, if there is one.                                                  *)
Start(r, s) ==
  /\ req[r].pc = "new"
  /\ LET c == IF thread[s] = None THEN None ELSE thread[s].chat IN
     /\ req' = [req EXCEPT ![r].session = s, ![r].lock = c,
                           ![r].pc = IF c = None \/ lockLine[c] = <<>>
                                     THEN "prepare" ELSE "lockwait"]
     /\ lockLine' = IF c = None THEN lockLine
                    ELSE [lockLine EXCEPT ![c] = Append(@, r)]
  /\ UNCHANGED <<thread, slotLine, cooling>>

LockGranted(r) ==
  /\ req[r].pc = "lockwait"
  /\ IsHead(lockLine[req[r].lock], r)
  /\ req' = [req EXCEPT ![r].pc = "prepare"]
  /\ UNCHANGED <<thread, lockLine, slotLine, cooling>>

(* The timer of a waiter for the lock; it cannot fire once it is served.    *)
LockTimeout(r) ==
  /\ req[r].pc \in {"lockwait", "relock"}
  /\ ~IsHead(lockLine[req[r].lock], r)
  /\ Ends(r)
  /\ UNCHANGED <<thread, cooling>>

-----------------------------------------------------------------------------
(* acquireUpstreamStream *)

(* Mutant of Tries: the loop forgets which accounts it tried. *)
TriesUnrecorded(local, a) ==
  [local EXCEPT !.account = a, !.tried = {}, !.pc = "slotwait"]

Tries(local, a) ==
  [local EXCEPT !.account = a, !.tried = @ \union {a}, !.pc = "slotwait"]

QueuesFor(r, local, a, lines, locks) ==
  /\ req' = [req EXCEPT ![r] = Tries(local, a)]
  /\ slotLine' = [lines EXCEPT ![a] = Append(@, r)]
  /\ lockLine' = locks

(* Every account cools down: either all cooldowns are cleared, once, and    *)
(* the loop goes on with account a, or the acquire fails, and with it the   *)
(* request, as config.accountCreator.enabled says.                         *)
AllCooling(r, local, a, lines, locks) ==
  \/ /\ QueuesFor(r, [local EXCEPT !.verified = TRUE], a, lines, locks)
     /\ cooling' = {}
  \/ Ends(r) /\ cooling' = Account

(* The loop moves on to another account: one that is not cooling if there   *)
(* is one; cooling ones are skipped.  `local` is the request as the loop    *)
(* finds it, `cool` the accounts on cooldown, `lines` and `locks` the lines *)
(* after what the request gave back.                                       *)
NextAccount(r, local, cool, lines, locks) ==
  LET untried == Account \ local.tried IN
  \/ /\ \E a \in untried \ cool : QueuesFor(r, local, a, lines, locks)
     /\ cooling' = cool
  \/ /\ cool = Account /\ ~local.verified
     /\ \E a \in untried : AllCooling(r, local, a, lines, locks)
  \/ /\ untried \subseteq cool
     /\ untried = {} \/ cool # Account \/ local.verified
     /\ Ends(r)
     /\ cooling' = cool

(* The account of the thread goes first, else the one that is preferred or  *)
(* that resolveInitialAccount finds.                                       *)
FirstAccount(r, local, cool, locks) ==
  \E a \in IF local.snap = None THEN Account ELSE {local.snap.account} :
    \/ /\ a \notin cool
       /\ QueuesFor(r, local, a, slotLine, locks)
       /\ cooling' = cool
    \/ /\ a \in cool /\ cool # Account
       /\ NextAccount(r, [local EXCEPT !.tried = {a}], cool, slotLine, locks)
    \/ cool = Account /\ AllCooling(r, local, a, slotLine, locks)

(* The thread is read again, unless a new chat is forced. *)
Snapshot(local, force) ==
  [local EXCEPT !.tried = {}, !.account = None, !.chat = None, !.verified = FALSE,
                !.snap = IF force THEN None ELSE thread[local.session]]

(* The first acquire; a rollover of the thread forces a new chat. *)
Acquire(r) ==
  /\ req[r].pc = "prepare"
  /\ IF req[r].aborted THEN Ends(r) /\ UNCHANGED cooling
     ELSE \E force \in BOOLEAN :
            FirstAccount(r, Snapshot(req[r], force), cooling, lockLine)
  /\ UNCHANGED thread

(* Every account answered with an anti-bot challenge: with a shorter prompt *)
(* and in a new chat, the acquire is tried once more.                      *)
Reduced(r) ==
  /\ req[r].pc = "reducing"
  /\ \/ Ends(r) /\ UNCHANGED cooling
     \/ /\ ~req[r].aborted
        /\ FirstAccount(r, Snapshot(req[r], TRUE), cooling, lockLine)
  /\ UNCHANGED thread

(* Mutant of SlotGranted: the slot is asked for and not awaited. *)
SlotNotAwaited(r) ==
  /\ req[r].pc = "slotwait"
  /\ req' = [req EXCEPT ![r].pc = "creating"]
  /\ UNCHANGED <<thread, slotLine, lockLine, cooling>>

(* The account may have started to cool down while the request waited. *)
SlotGranted(r) ==
  /\ req[r].pc = "slotwait"
  /\ IsHead(slotLine[req[r].account], r)
  /\ IF req[r].account \in cooling
     THEN NextAccount(r, req[r], cooling, Unslotted(r), lockLine)
     ELSE /\ req' = [req EXCEPT ![r].pc = "creating"]
          /\ UNCHANGED <<slotLine, lockLine, cooling>>
  /\ UNCHANGED thread

(* AccountCapacityError: the loop tries the next account. *)
SlotTimeout(r) ==
  /\ req[r].pc = "slotwait"
  /\ ~IsHead(slotLine[req[r].account], r)
  /\ NextAccount(r, req[r], cooling, Unslotted(r), lockLine)
  /\ UNCHANGED thread

-----------------------------------------------------------------------------
(* createStreamWithRetry *)

(* Mutant of Reusable: the thread's chat is used on whatever account. *)
ReusableAnywhere(local) == local.snap # None

(* The chat of the thread is continued only on its own account. *)
Reusable(local) == local.snap # None /\ local.snap.account = local.account

(* A request that was aborted while its stream was created throws; one on a *)
(* retry first locks the chat its thread has now, with the slot in hand.    *)
HasStream(r, local, wanted) ==
  \/ local.aborted /\ Ends(r)
  \/ /\ ~local.aborted
     /\ local.retries = MaxRetries \/ wanted = None
     /\ req' = [req EXCEPT ![r] = [local EXCEPT !.pc = "streaming"]]
     /\ UNCHANGED <<slotLine, lockLine>>
  \/ /\ ~local.aborted
     /\ local.retries # MaxRetries /\ wanted # None
     /\ req' = [req EXCEPT ![r] =
          [local EXCEPT !.lock = wanted,
             !.pc = IF lockLine[wanted] = <<>> THEN "streaming" ELSE "relock"]]
     /\ lockLine' = [lockLine EXCEPT ![wanted] = Append(@, r)]
     /\ UNCHANGED slotLine

(* The stream exists, on chat c if createQwenStream names one, and the      *)
(* thread takes c, before anything else happens.                           *)
Created(r, c) ==
  LET local == [req[r] EXCEPT !.chat = c, !.snap = None, !.tried = {},
                              !.verified = FALSE, !.reduced = FALSE]
      now == IF c = None THEN thread[local.session]
             ELSE [account |-> local.account, chat |-> c]
  IN  /\ thread' = [thread EXCEPT ![local.session] = now]
      /\ HasStream(r, local, IF now = None THEN None ELSE now.chat)

CreateOnThreadChat(r) ==
  /\ req[r].pc = "creating"
  /\ Reusable(req[r])
  /\ Created(r, req[r].snap.chat)
  /\ UNCHANGED cooling

(* A new chat over HTTP, or, even if the thread has a chat, the page's new  *)
(* conversation when its URL shows the id already.                         *)
CreateOnNewChat(r) ==
  /\ req[r].pc = "creating"
  /\ LET fresh == {c \in Chat : Fresh(c) /\ Home[c] = req[r].account}
         c == CHOOSE x \in fresh : TRUE
     IN  fresh # {} /\ Created(r, c)
  /\ UNCHANGED cooling

(* The page's new conversation has no id yet: browserUiStreamFetch answers  *)
(* with the chat it was asked to continue, or with none.                   *)
CreateOnPage(r) ==
  /\ req[r].pc = "creating"
  /\ Created(r, IF Reusable(req[r]) THEN req[r].snap.chat ELSE None)
  /\ UNCHANGED cooling

(* The upstream says that the chat does not exist any more, which it may do *)
(* at any time: the attempt goes on without the thread's chat.  The        *)
(* call that is to clear the chat in the thread passes an empty chat id,    *)
(* and updateLogicalThreadState returns at once when it sees one.          *)
ChatDoesNotExist(r) ==
  /\ req[r].pc = "creating" /\ ~req[r].aborted
  /\ Reusable(req[r])
  /\ req' = [req EXCEPT ![r].snap = None]
  /\ UNCHANGED <<thread, lockLine, slotLine, cooling>>

(* The threads of account a, forgotten. *)
Cleared(a) == [s \in Session |-> IF thread[s] # None /\ thread[s].account = a
                                 THEN None ELSE thread[s]]

(* The attempts fail: an unavailable account cools down, a persistent "chat *)
(* in progress" forgets every thread of the account, and the loop rotates.  *)
(* If all accounts met the anti-bot page the prompt is reduced, once.       *)
CreateFails(r) ==
  /\ req[r].pc = "creating" /\ ~req[r].aborted
  /\ thread' \in {thread, Cleared(req[r].account)}
  /\ \E cool \in {cooling, cooling \union {req[r].account}} :
       \/ NextAccount(r, req[r], cool, Unslotted(r), lockLine)
       \/ /\ Account \ req[r].tried \subseteq cool
          /\ req[r].account \in cool
          /\ req[r].retries = MaxRetries /\ ~req[r].reduced
          /\ req' = [req EXCEPT ![r] = [Snapshot(req[r], TRUE) EXCEPT
                                          !.pc = "reducing", !.reduced = TRUE]]
          /\ cooling' = cool
          /\ slotLine' = Unslotted(r)
          /\ UNCHANGED lockLine

-----------------------------------------------------------------------------
(* The response *)

(* A chunk with a response id: rememberParent, which also sets the thread's *)
(* chat and account again.                                                 *)
ResponseCreated(r) ==
  /\ req[r].pc = "streaming" /\ req[r].chat # None
  /\ thread' = [thread EXCEPT ![req[r].session] =
                  [account |-> req[r].account, chat |-> req[r].chat]]
  /\ UNCHANGED <<lockLine, slotLine, cooling, req>>

(* The stream ends, well or with an error that is not retried. *)
StreamEnds(r) ==
  /\ req[r].pc = "streaming"
  /\ Ends(r)
  /\ UNCHANGED <<thread, cooling>>

(* A quota or anti-bot error in the stream: the slot is given back at once, *)
(* and the lock too if processNonStreamingResponse throws, whose finally   *)
(* completes the stream.                                                   *)
StreamRetries(r) ==
  /\ req[r].pc = "streaming" /\ ~req[r].aborted
  /\ req[r].retries > 0
  /\ slotLine' = Unslotted(r)
  /\ \/ UNCHANGED lockLine
     \/ lockLine' = Unlocked(r)
  /\ req' = [req EXCEPT ![r].pc = "retrying", ![r].retries = @ - 1,
                        ![r].lock = IF lockLine' = lockLine THEN @ ELSE None]
  /\ UNCHANGED <<thread, cooling>>

(* Mutant of UnlockedForRetry: the lock is kept, and overwritten later. *)
StillLockedForRetry(r) == lockLine

UnlockedForRetry(r) == Unlocked(r)

(* After the import of the account manager: the account may cool down, the  *)
(* lock goes, and a stream is acquired again.                              *)
Retry(r) ==
  /\ req[r].pc = "retrying"
  /\ \E cool \in {cooling, cooling \union {req[r].account}} :
       IF req[r].aborted THEN Ends(r) /\ cooling' = cool
       ELSE \E force \in BOOLEAN :
              FirstAccount(r, [Snapshot(req[r], force) EXCEPT !.lock = None],
                           cool, UnlockedForRetry(r))
  /\ UNCHANGED thread

LockGrantedAgain(r) ==
  /\ req[r].pc = "relock"
  /\ IsHead(lockLine[req[r].lock], r)
  /\ req' = [req EXCEPT ![r].pc = "streaming"]
  /\ UNCHANGED <<thread, lockLine, slotLine, cooling>>

-----------------------------------------------------------------------------
(* The client and the world *)

(* The client disconnects.  Waiters reject and the request ends; a slot in  *)
(* use goes back at once, while the request goes on until it notices.       *)
ClientAborts(r) ==
  /\ req[r].pc \notin {"new", "done"}
  /\ ~req[r].aborted
  /\ IF req[r].pc \in {"lockwait", "relock", "slotwait"}
     THEN Ends(r)
     ELSE /\ slotLine' = Unslotted(r)
          /\ req' = [req EXCEPT ![r].aborted = TRUE]
          /\ UNCHANGED lockLine
  /\ UNCHANGED <<thread, cooling>>

(* createQwenStream rejects because its signal is aborted. *)
AbortNoticed(r) ==
  /\ req[r].pc = "creating" /\ req[r].aborted
  /\ Ends(r)
  /\ UNCHANGED <<thread, cooling>>

CooldownExpires(a) ==
  /\ a \in cooling
  /\ cooling' = cooling \ {a}
  /\ UNCHANGED <<thread, lockLine, slotLine, req>>

-----------------------------------------------------------------------------

(* What a request does by itself, given answers from upstream and timers. *)
Progress(r) ==
  \/ LockGranted(r) \/ LockTimeout(r)
  \/ Acquire(r) \/ Reduced(r)
  \/ SlotGranted(r) \/ SlotTimeout(r)
  \/ CreateOnThreadChat(r) \/ CreateOnPage(r)
  \/ CreateOnNewChat(r)
  \/ ChatDoesNotExist(r) \/ CreateFails(r)
  \/ StreamEnds(r) \/ StreamRetries(r) \/ Retry(r) \/ LockGrantedAgain(r)
  \/ AbortNoticed(r)

Next ==
  \/ \E r \in Request, s \in Session : Start(r, s)
  \/ \E r \in Request : Progress(r) \/ ResponseCreated(r) \/ ClientAborts(r)
  \/ \E a \in Account : CooldownExpires(a)

Spec == Init /\ [][Next]_vars

(* Every wait of a request is bounded: the lock by its own timeout, the     *)
(* slot by queueTimeoutMs, the upstream calls and the stream by theirs.     *)
FairSpec == Spec /\ \A r \in Request : WF_vars(Progress(r))

-----------------------------------------------------------------------------
(* Properties *)

(* A request that is over, however it ended, is in no line: no lock and no  *)
(* slot is left behind by a retry, a rotation, a timeout or a disconnection. *)
(* (The variables have their types.)                                       *)
DoneHoldsNothing ==
  /\ TypeOK
  /\ \A r \in Request : req[r].pc = "done" =>
       /\ \A c \in Chat : r \notin ToSet(lockLine[c])
       /\ \A a \in Account : r \notin ToSet(slotLine[a])

Line == INSTANCE ChatLine WITH line <- lockLine

(* A request asks for a chat lock only when it has none and waits for none, *)
(* through every retry: what the lock lines do is what ChatLine allows.     *)
LocksFollowTheLine == Line!LineSpec

(* Whoever talks to an account holds a slot of it, unless its client is     *)
(* gone: rotations and retries never carry on with the old account's slot.  *)
StreamingHoldsSlot ==
  \A r \in Request :
    req[r].pc \in {"creating", "relock", "streaming"} /\ ~req[r].aborted =>
      IsHead(slotLine[req[r].account], r)

(* A message goes to a chat on the account the chat belongs to, and the     *)
(* thread remembers the two together, whatever accounts the request visited. *)
ChatOnItsAccount ==
  /\ \A r \in Request : req[r].pc = "streaming" /\ req[r].chat # None =>
       Home[req[r].chat] = req[r].account
  /\ \A s \in Session : thread[s] # None => Home[thread[s].chat] = thread[s].account

(* Every request that starts comes to its end: rotations, retries and waits *)
(* are bounded.                                                            *)
EveryRequestFinishes ==
  \A r \in Request : req[r].pc # "new" ~> req[r].pc = "done"

(* "Acquire per-chat lock to prevent concurrent requests to the same Qwen   *)
(* chat" (index.ts:122): while one request streams into a chat, no other    *)
(* gets past the lock of that chat.                                        *)
LockedChatIsExclusive ==
  \A r, s \in Request :
    /\ req[r].pc = "streaming" /\ ~req[r].aborted
    /\ req[s].pc \in {"slotwait", "creating"}
    /\ req[r].chat # None /\ req[s].lock = req[r].chat
    => r = s
=============================================================================
