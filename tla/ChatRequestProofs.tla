-------------------------- MODULE ChatRequestProofs --------------------------
(***************************************************************************)
(* Proofs about ChatRequest, for any number of requests, sessions,          *)
(* accounts, chats and retries: a request that is over holds nothing, one   *)
(* that talks to an account holds its slot, a chat is continued on its own  *)
(* account, and the chat locks are used as ChatLine allows.  Then about     *)
(* ClientStream: a response is of one attempt, leaves nothing behind, says  *)
(* what the answer means, its text without tools and its thoughts, and      *)
(* calls declared tools only, each once.                                   *)
(***************************************************************************)
EXTENDS ChatRequest, ClientStream, QueueLemmas

-----------------------------------------------------------------------------
(* The inductive invariant *)

(* Where a request stands in the line of an account. *)
Using == {"slotwait", "creating", "relock", "streaming"}

(* What is true of the local variables of request r and of its places in    *)
(* the lines.  It stands in the line of one chat at most, the one that its  *)
(* release closure names, and in the line of one account at most, the one   *)
(* it uses; it comes back for the lock of a retry with empty hands; what it *)
(* knows of a chat is that the chat lives on the account it is used on.     *)
LockIsNamed(r) ==
  /\ \A c \in Chat : r \in ToSet(lockLine[c]) => req[r].lock = c
  /\ req[r].pc \in {"new", "done"} => req[r].lock = None
  /\ req[r].pc \in {"new", "prepare", "lockwait", "reducing"} =>
       req[r].retries = MaxRetries
  /\ req[r].pc \in {"slotwait", "creating"} /\ req[r].retries # MaxRetries =>
       req[r].lock = None

SlotIsNamed(r) ==
  /\ \A a \in Account : r \in ToSet(slotLine[a]) =>
       req[r].account = a /\ req[r].pc \in Using
  /\ req[r].pc \in Using \union {"retrying"} => req[r].account \in Account
  /\ req[r].pc \in {"creating", "relock", "streaming"} /\ ~req[r].aborted =>
       IsHead(slotLine[req[r].account], r)

ChatsAreKnown(r) ==
  /\ req[r].pc \notin {"new", "done"} => req[r].session \in Session
  /\ req[r].snap # None => Home[req[r].snap.chat] = req[r].snap.account
  /\ req[r].pc \in {"relock", "streaming"} /\ req[r].chat # None =>
       Home[req[r].chat] = req[r].account

RequestOK(r) ==
  /\ req[r] \in Local
  /\ LockIsNamed(r)
  /\ SlotIsNamed(r)
  /\ ChatsAreKnown(r)

(* Nobody stands in a line twice. *)
LinesOK ==
  /\ \A c \in Chat : lockLine[c] \in Seq(Request) /\ NoDuplicates(lockLine[c])
  /\ \A a \in Account : slotLine[a] \in Seq(Request) /\ NoDuplicates(slotLine[a])

(* A thread remembers a chat together with the account it lives on. *)
ThreadsOK ==
  \A s \in Session : thread[s] # None => Home[thread[s].chat] = thread[s].account

IInv ==
  /\ TypeOK
  /\ LinesOK
  /\ ThreadsOK
  /\ \A r \in Request : RequestOK(r)

-----------------------------------------------------------------------------
(* What a step of request r does to a line: the others keep their places,   *)
(* and whoever is first stays first.                                       *)
OthersKept(r, line, next) ==
  /\ next \in Seq(Request) /\ NoDuplicates(next)
  /\ \A p \in Request \ {r} :
       /\ p \in ToSet(next) <=> p \in ToSet(line)
       /\ IsHead(line, p) => IsHead(next, p)

LEMMA LineUnchanged ==
  ASSUME NEW r \in Request, NEW q \in Seq(Request), NoDuplicates(q)
  PROVE  OthersKept(r, q, q)
BY DEF OthersKept

LEMMA LineLeft ==
  ASSUME NEW r \in Request, NEW q \in Seq(Request), NoDuplicates(q)
  PROVE  OthersKept(r, q, Without(q, r)) /\ r \notin ToSet(Without(q, r))
<1>1. PICK w : w = RemoveFirst(q, r)
  OBVIOUS
<1>2. w \in Seq(Request) /\ NoDuplicates(w) /\ ToSet(w) = ToSet(q) \ {r}
  BY <1>1, RemoveFirstMembers
<1>3. ASSUME NEW p \in Request \ {r}, IsHead(q, p) PROVE IsHead(w, p)
  <2>1. q # <<>> /\ Head(q) = p /\ p # r
    BY <1>3 DEF IsHead
  <2>2. w # <<>> /\ Head(w) = Head(q)
    BY <1>1, <2>1, FirstStaysFirst
  <2> QED BY <2>1, <2>2 DEF IsHead
<1>4. OthersKept(r, q, w)
  BY <1>2, <1>3 DEF OthersKept
<1> QED BY <1>1, <1>2, <1>4 DEF Without

LEMMA LineJoinedBy ==
  ASSUME NEW r \in Request, NEW q \in Seq(Request), NoDuplicates(q), r \notin ToSet(q)
  PROVE  /\ OthersKept(r, q, Append(q, r))
         /\ q = <<>> => IsHead(Append(q, r), r)
<1>1. PICK w : w = Append(q, r)
  OBVIOUS
<1>2. w \in Seq(Request) /\ NoDuplicates(w) /\ ToSet(w) = ToSet(q) \union {r}
  BY <1>1, AppendMembers
<1>3. /\ w # <<>>
      /\ q # <<>> => Head(w) = Head(q)
      /\ q = <<>> => Head(w) = r
  BY <1>1, AppendKeepsFirst
<1>4. OthersKept(r, q, w)
  BY <1>2, <1>3 DEF OthersKept, IsHead
<1>5. q = <<>> => IsHead(w, r)
  BY <1>3 DEF IsHead
<1> QED BY <1>1, <1>4, <1>5

LEMMA LineRejoined ==
  ASSUME NEW r \in Request, NEW q \in Seq(Request), NoDuplicates(q)
  PROVE  OthersKept(r, q, Append(Without(q, r), r))
<1>1. PICK w : w = Without(q, r)
  OBVIOUS
<1>2. OthersKept(r, q, w) /\ r \notin ToSet(w)
  BY <1>1, LineLeft
<1>3. w \in Seq(Request) /\ NoDuplicates(w)
  BY <1>2 DEF OthersKept
<1>4. OthersKept(r, w, Append(w, r))
  BY <1>2, <1>3, LineJoinedBy
<1>5. OthersKept(r, q, Append(w, r))
  BY <1>2, <1>4 DEF OthersKept
<1> QED BY <1>1, <1>5

-----------------------------------------------------------------------------
(* A step of one request, as the others see it *)

LocksKept(r) ==
  /\ lockLine' \in [Chat -> Seq(Request)]
  /\ \A c \in Chat : OthersKept(r, lockLine[c], lockLine'[c])

SlotsKept(r) ==
  /\ slotLine' \in [Account -> Seq(Request)]
  /\ \A a \in Account : OthersKept(r, slotLine[a], slotLine'[a])

ActsAlone(r) ==
  /\ req' \in [Request -> Local]
  /\ \A p \in Request \ {r} : req'[p] = req[p]
  /\ LocksKept(r)
  /\ SlotsKept(r)

ThreadsKept ==
  /\ thread' \in [Session -> Thread \union {None}]
  /\ ThreadsOK'

LEMMA StepOfOne ==
  ASSUME IInv, NEW r \in Request, ActsAlone(r), ThreadsKept,
         cooling' \in SUBSET Account, RequestOK(r)'
  PROVE  IInv'
<1>1. TypeOK'
  BY DEF ActsAlone, LocksKept, SlotsKept, ThreadsKept, TypeOK
<1>2. LinesOK'
  BY DEF ActsAlone, LocksKept, SlotsKept, OthersKept, LinesOK
<1>3. ASSUME NEW p \in Request, p # r PROVE RequestOK(p)'
  <2>1. /\ p \in Request \ {r} /\ req'[p] = req[p] /\ RequestOK(p)
    BY <1>3 DEF ActsAlone, IInv
  <2>2. \A c \in Chat : p \in ToSet(lockLine'[c]) => p \in ToSet(lockLine[c])
    BY <2>1 DEF ActsAlone, LocksKept, SlotsKept, OthersKept
  <2>3. \A a \in Account : p \in ToSet(slotLine'[a]) => p \in ToSet(slotLine[a])
    BY <2>1 DEF ActsAlone, LocksKept, SlotsKept, OthersKept
  <2>4. \A a \in Account : IsHead(slotLine[a], p) => IsHead(slotLine'[a], p)
    BY <2>1 DEF ActsAlone, LocksKept, SlotsKept, OthersKept
  <2>5. LockIsNamed(p)'
    BY <2>1, <2>2 DEF RequestOK, LockIsNamed
  <2>6. SlotIsNamed(p)'
    BY <2>1, <2>3, <2>4 DEF RequestOK, SlotIsNamed, Using
  <2>7. ChatsAreKnown(p)'
    BY <2>1 DEF RequestOK, ChatsAreKnown
  <2> QED BY <2>1, <2>5, <2>6, <2>7 DEF RequestOK
<1> QED BY <1>1, <1>2, <1>3 DEF ThreadsKept, IInv

LEMMA ThreadsUntouched ==
  ASSUME IInv, UNCHANGED thread
  PROVE  ThreadsKept
BY DEF IInv, TypeOK, ThreadsKept, ThreadsOK

-----------------------------------------------------------------------------
(* What the steps do to the lines *)

LEMMA LocksUnchanged ==
  ASSUME IInv, NEW r \in Request, lockLine' = lockLine
  PROVE  LocksKept(r) /\ \A c \in Chat : r \in ToSet(lockLine'[c]) => req[r].lock = c
<1>1. \A c \in Chat : OthersKept(r, lockLine[c], lockLine[c])
  BY LineUnchanged DEF IInv, LinesOK
<1>2. \A c \in Chat : r \in ToSet(lockLine[c]) => req[r].lock = c
  BY DEF IInv, RequestOK, LockIsNamed
<1> QED BY <1>1, <1>2 DEF IInv, TypeOK, LocksKept

LEMMA LocksLeft ==
  ASSUME IInv, NEW r \in Request, lockLine' = Unlocked(r)
  PROVE  LocksKept(r) /\ \A c \in Chat : r \notin ToSet(lockLine'[c])
<1>1. \A c \in Chat : /\ OthersKept(r, lockLine[c], Without(lockLine[c], r))
                      /\ r \notin ToSet(Without(lockLine[c], r))
  BY LineLeft DEF IInv, LinesOK
<1>2. lockLine' = [c \in Chat |-> Without(lockLine[c], r)]
  BY DEF Unlocked
<1>3. \A c \in Chat : OthersKept(r, lockLine[c], lockLine'[c]) /\ r \notin ToSet(lockLine'[c])
  BY <1>1, <1>2
<1>4. \A c \in Chat : lockLine'[c] \in Seq(Request)
  BY <1>3 DEF OthersKept
<1> QED BY <1>2, <1>3, <1>4 DEF LocksKept

LEMMA LocksJoined ==
  ASSUME IInv, NEW r \in Request, NEW c \in Chat, req[r].lock = None,
         lockLine' = [lockLine EXCEPT ![c] = Append(@, r)]
  PROVE  LocksKept(r) /\ \A d \in Chat : r \in ToSet(lockLine'[d]) => d = c
<1>1. \A d \in Chat : r \notin ToSet(lockLine[d])
  BY ChatRequestAssumption DEF IInv, RequestOK, LockIsNamed
<1>2. lockLine \in [Chat -> Seq(Request)]
  BY DEF IInv, TypeOK
<1>3. lockLine'[c] = Append(lockLine[c], r)
  BY <1>2
<1>4. \A d \in Chat \ {c} : lockLine'[d] = lockLine[d]
  BY <1>2
<1>5. OthersKept(r, lockLine[c], Append(lockLine[c], r))
  BY <1>1, LineJoinedBy DEF IInv, LinesOK
<1>6. \A d \in Chat \ {c} : OthersKept(r, lockLine[d], lockLine[d])
  BY LineUnchanged DEF IInv, LinesOK
<1>7. \A d \in Chat : OthersKept(r, lockLine[d], lockLine'[d])
  BY <1>3, <1>4, <1>5, <1>6
<1>8. \A d \in Chat : lockLine'[d] \in Seq(Request)
  BY <1>7 DEF OthersKept
<1>9. lockLine' \in [Chat -> Seq(Request)]
  BY <1>2, <1>8
<1> QED BY <1>1, <1>4, <1>7, <1>9 DEF LocksKept

LEMMA SlotsUnchanged ==
  ASSUME IInv, NEW r \in Request, slotLine' = slotLine
  PROVE  /\ SlotsKept(r)
         /\ \A a \in Account : r \in ToSet(slotLine'[a]) =>
              req[r].account = a /\ req[r].pc \in Using
<1>1. \A a \in Account : OthersKept(r, slotLine[a], slotLine[a])
  BY LineUnchanged DEF IInv, LinesOK
<1>2. \A a \in Account : r \in ToSet(slotLine[a]) => req[r].account = a /\ req[r].pc \in Using
  BY DEF IInv, RequestOK, SlotIsNamed
<1> QED BY <1>1, <1>2 DEF IInv, TypeOK, SlotsKept

LEMMA SlotsLeft ==
  ASSUME IInv, NEW r \in Request, slotLine' = Unslotted(r)
  PROVE  SlotsKept(r) /\ \A a \in Account : r \notin ToSet(slotLine'[a])
<1>1. \A a \in Account : /\ OthersKept(r, slotLine[a], Without(slotLine[a], r))
                         /\ r \notin ToSet(Without(slotLine[a], r))
  BY LineLeft DEF IInv, LinesOK
<1>2. slotLine' = [a \in Account |-> Without(slotLine[a], r)]
  BY DEF Unslotted
<1>3. \A a \in Account : OthersKept(r, slotLine[a], slotLine'[a]) /\ r \notin ToSet(slotLine'[a])
  BY <1>1, <1>2
<1>4. \A a \in Account : slotLine'[a] \in Seq(Request)
  BY <1>3 DEF OthersKept
<1> QED BY <1>2, <1>3, <1>4 DEF SlotsKept

(* A request queues for an account after it gave its slot back, or when it  *)
(* had none.                                                               *)
LEMMA SlotsJoined ==
  ASSUME IInv, NEW r \in Request, NEW a \in Account, NEW lines,
         \/ lines = Unslotted(r)
         \/ lines = slotLine /\ req[r].pc \notin Using,
         slotLine' = [lines EXCEPT ![a] = Append(@, r)]
  PROVE  SlotsKept(r) /\ \A b \in Account : r \in ToSet(slotLine'[b]) => b = a
<1>1. ASSUME NEW b \in Account
      PROVE  /\ lines[b] \in Seq(Request) /\ r \notin ToSet(lines[b])
             /\ OthersKept(r, slotLine[b], lines[b])
             /\ OthersKept(r, slotLine[b], Append(lines[b], r))
  <2>1. slotLine[b] \in Seq(Request) /\ NoDuplicates(slotLine[b])
    BY DEF IInv, LinesOK
  <2>2. CASE lines = Unslotted(r)
    <3>1. lines[b] = Without(slotLine[b], r)
      BY <2>2 DEF Unslotted
    <3>2. OthersKept(r, slotLine[b], lines[b]) /\ r \notin ToSet(lines[b])
      BY <2>1, <3>1, LineLeft
    <3>3. OthersKept(r, slotLine[b], Append(lines[b], r))
      BY <2>1, <3>1, LineRejoined
    <3> QED BY <3>2, <3>3 DEF OthersKept
  <2>3. CASE lines = slotLine /\ req[r].pc \notin Using
    <3>1. r \notin ToSet(slotLine[b])
      BY <2>3 DEF IInv, RequestOK, SlotIsNamed
    <3> QED BY <2>1, <2>3, <3>1, LineUnchanged, LineJoinedBy
  <2> QED BY <2>2, <2>3
<1>2. DOMAIN lines = Account /\ lines = [b \in Account |-> lines[b]]
  BY DEF IInv, TypeOK, Unslotted
<1>3. /\ slotLine'[a] = Append(lines[a], r)
      /\ \A b \in Account \ {a} : slotLine'[b] = lines[b]
      /\ slotLine' = [b \in Account |-> slotLine'[b]]
  BY <1>2
<1>4. \A b \in Account : OthersKept(r, slotLine[b], slotLine'[b])
  BY <1>1, <1>3
<1>5. \A b \in Account : slotLine'[b] \in Seq(Request)
  BY <1>4 DEF OthersKept
<1>6. slotLine' \in [Account -> Seq(Request)]
  BY <1>3, <1>5
<1> QED BY <1>1, <1>3, <1>4, <1>6 DEF SlotsKept

-----------------------------------------------------------------------------
(* How the handlers leave the request: it ends, *)

LEMMA OverIsLocal ==
  /\ [NewLocal EXCEPT !.pc = "done"] \in Local
  /\ [NewLocal EXCEPT !.pc = "done"].pc = "done"
  /\ [NewLocal EXCEPT !.pc = "done"].lock = None
  /\ [NewLocal EXCEPT !.pc = "done"].snap = None
<1>1. MaxRetries \in 0 .. MaxRetries
  BY ChatRequestAssumption
<1>2. PICK m : m = [NewLocal EXCEPT !.pc = "done"]
  OBVIOUS
<1>3. m = [pc |-> "done", session |-> None, lock |-> None, snap |-> None, tried |-> {},
           account |-> None, chat |-> None, verified |-> FALSE, reduced |-> FALSE,
           retries |-> MaxRetries, aborted |-> FALSE]
  BY <1>2 DEF NewLocal
<1>4. m \in Local
  BY <1>1, <1>3 DEF Local, PC
<1> QED BY <1>2, <1>3, <1>4

LEMMA EndsInv ==
  ASSUME IInv, NEW r \in Request, Ends(r), ThreadsKept, cooling' \in SUBSET Account
  PROVE  IInv'
<1>1. PICK m \in Local : /\ req' = [req EXCEPT ![r] = m]
                         /\ m.pc = "done" /\ m.lock = None /\ m.snap = None
  BY OverIsLocal DEF Ends
<1>2. LocksKept(r) /\ \A c \in Chat : r \notin ToSet(lockLine'[c])
  BY LocksLeft DEF Ends
<1>3. SlotsKept(r) /\ \A a \in Account : r \notin ToSet(slotLine'[a])
  BY SlotsLeft DEF Ends
<1>4. req \in [Request -> Local]
  BY DEF IInv, TypeOK
<1>5. /\ req' \in [Request -> Local] /\ req'[r] = m
      /\ \A p \in Request \ {r} : req'[p] = req[p]
  BY <1>1, <1>4
<1>6. ActsAlone(r)
  BY <1>2, <1>3, <1>5 DEF ActsAlone
<1>7. LockIsNamed(r)'
  BY <1>1, <1>2, <1>5 DEF LockIsNamed
<1>8. SlotIsNamed(r)'
  BY <1>1, <1>3, <1>5 DEF SlotIsNamed, Using
<1>9. ChatsAreKnown(r)'
  BY <1>1, <1>5 DEF ChatsAreKnown
<1>10. RequestOK(r)'
  BY <1>5, <1>7, <1>8, <1>9 DEF RequestOK
<1> QED BY <1>6, <1>10, StepOfOne

(* or it queues for an account, with the local variables l as they are but  *)
(* for the account, the accounts it tried and verifiedPersistedCooldown.    *)
QueuesWith(r, l, lines, locks) ==
  \E m \in Local :
    /\ m.pc = "slotwait" /\ m.account \in Account
    /\ m.session = l.session /\ m.lock = l.lock /\ m.snap = l.snap
    /\ m.retries = l.retries
    /\ req' = [req EXCEPT ![r] = m]
    /\ slotLine' = [lines EXCEPT ![m.account] = Append(@, r)]
    /\ lockLine' = locks

LEMMA QueuesForOutcome ==
  ASSUME NEW r, NEW l \in Local, NEW a \in Account, NEW lines, NEW locks,
         QueuesFor(r, l, a, lines, locks)
  PROVE  QueuesWith(r, l, lines, locks)
<1>1. PICK m : m = Tries(l, a)
  OBVIOUS
<1>2. /\ m \in Local /\ m.pc = "slotwait" /\ m.account = a
      /\ m.session = l.session /\ m.lock = l.lock /\ m.snap = l.snap
      /\ m.retries = l.retries
  BY <1>1 DEF Tries, Local, PC
<1>3. /\ req' = [req EXCEPT ![r] = m]
      /\ slotLine' = [lines EXCEPT ![m.account] = Append(@, r)]
      /\ lockLine' = locks
  BY <1>1, <1>2 DEF QueuesFor
<1> QED BY <1>2, <1>3 DEF QueuesWith

LEMMA AllCoolingOutcome ==
  ASSUME NEW r, NEW l \in Local, NEW a \in Account, NEW lines, NEW locks,
         AllCooling(r, l, a, lines, locks)
  PROVE  /\ cooling' \in SUBSET Account
         /\ Ends(r) \/ QueuesWith(r, l, lines, locks)
<1>1. PICK k : k = [l EXCEPT !.verified = TRUE]
  OBVIOUS
<1>2. /\ k \in Local /\ k.session = l.session /\ k.lock = l.lock /\ k.snap = l.snap
      /\ k.retries = l.retries
  BY <1>1 DEF Local
<1>3. ASSUME QueuesFor(r, k, a, lines, locks)
      PROVE  QueuesWith(r, l, lines, locks)
  <2>1. QueuesWith(r, k, lines, locks)
    BY <1>2, <1>3, QueuesForOutcome
  <2> QED BY <1>2, <2>1 DEF QueuesWith
<1>4. \/ QueuesFor(r, k, a, lines, locks) /\ cooling' = {}
      \/ Ends(r) /\ cooling' = Account
  BY <1>1 DEF AllCooling
<1>5. cooling' \in SUBSET Account
  BY <1>4
<1> QED BY <1>3, <1>4, <1>5

LEMMA NextAccountOutcome ==
  ASSUME NEW r, NEW l \in Local, NEW cool \in SUBSET Account, NEW lines, NEW locks,
         NextAccount(r, l, cool, lines, locks)
  PROVE  /\ cooling' \in SUBSET Account
         /\ Ends(r) \/ QueuesWith(r, l, lines, locks)
<1>1. CASE /\ \E a \in (Account \ l.tried) \ cool : QueuesFor(r, l, a, lines, locks)
           /\ cooling' = cool
  BY <1>1, QueuesForOutcome
<1>2. CASE \E a \in Account \ l.tried : AllCooling(r, l, a, lines, locks)
  BY <1>2, AllCoolingOutcome
<1>3. CASE Ends(r) /\ cooling' = cool
  BY <1>3
<1> QED BY <1>1, <1>2, <1>3 DEF NextAccount

LEMMA FirstAccountOutcome ==
  ASSUME NEW r, NEW l \in Local, NEW cool \in SUBSET Account, NEW locks,
         FirstAccount(r, l, cool, locks)
  PROVE  /\ cooling' \in SUBSET Account
         /\ Ends(r) \/ QueuesWith(r, l, slotLine, locks)
<1>1. PICK a \in Account :
        \/ QueuesFor(r, l, a, slotLine, locks) /\ cooling' = cool
        \/ NextAccount(r, [l EXCEPT !.tried = {a}], cool, slotLine, locks)
        \/ AllCooling(r, l, a, slotLine, locks)
  <2>1. l.snap # None => l.snap.account \in Account
    BY DEF Local, Thread
  <2> QED BY <2>1 DEF FirstAccount
<1>2. PICK k : k = [l EXCEPT !.tried = {a}]
  OBVIOUS
<1>3. /\ k \in Local /\ k.session = l.session /\ k.lock = l.lock /\ k.snap = l.snap
      /\ k.retries = l.retries
  BY <1>2 DEF Local
<1>4. CASE QueuesFor(r, l, a, slotLine, locks) /\ cooling' = cool
  BY <1>4, QueuesForOutcome
<1>5. CASE NextAccount(r, k, cool, slotLine, locks)
  <2>1. /\ cooling' \in SUBSET Account
        /\ Ends(r) \/ QueuesWith(r, k, slotLine, locks)
    BY <1>3, <1>5, NextAccountOutcome
  <2> QED BY <1>3, <2>1 DEF QueuesWith
<1>6. CASE AllCooling(r, l, a, slotLine, locks)
  BY <1>6, AllCoolingOutcome
<1> QED BY <1>1, <1>2, <1>4, <1>5, <1>6

LEMMA QueuesInv ==
  ASSUME IInv, NEW r \in Request, NEW l \in Local, NEW lines, NEW locks,
         QueuesWith(r, l, lines, locks), ThreadsKept, cooling' \in SUBSET Account,
         \/ lines = Unslotted(r)
         \/ lines = slotLine /\ req[r].pc \notin Using,
         \/ locks = Unlocked(r)
         \/ locks = lockLine /\ l.lock = req[r].lock,
         l.retries # MaxRetries => l.lock = None,
         l.session \in Session,
         l.snap # None => Home[l.snap.chat] = l.snap.account
  PROVE  IInv'
<1>1. PICK m \in Local :
        /\ m.pc = "slotwait" /\ m.account \in Account
        /\ m.session = l.session /\ m.lock = l.lock /\ m.snap = l.snap
        /\ m.retries = l.retries
        /\ req' = [req EXCEPT ![r] = m]
        /\ slotLine' = [lines EXCEPT ![m.account] = Append(@, r)]
        /\ lockLine' = locks
  BY DEF QueuesWith
<1>2. LocksKept(r) /\ \A c \in Chat : r \in ToSet(lockLine'[c]) => m.lock = c
  BY <1>1, LocksLeft, LocksUnchanged
<1>3. SlotsKept(r) /\ \A a \in Account : r \in ToSet(slotLine'[a]) => a = m.account
  BY <1>1, SlotsJoined
<1>4. req \in [Request -> Local]
  BY DEF IInv, TypeOK
<1>5. /\ req' \in [Request -> Local] /\ req'[r] = m
      /\ \A p \in Request \ {r} : req'[p] = req[p]
  BY <1>1, <1>4
<1>6. ActsAlone(r)
  BY <1>2, <1>3, <1>5 DEF ActsAlone
<1>7. LockIsNamed(r)'
  BY <1>1, <1>2, <1>5 DEF LockIsNamed
<1>8. SlotIsNamed(r)'
  BY <1>1, <1>3, <1>5 DEF SlotIsNamed, Using
<1>9. ChatsAreKnown(r)'
  BY <1>1, <1>5 DEF ChatsAreKnown
<1>10. RequestOK(r)'
  BY <1>5, <1>7, <1>8, <1>9 DEF RequestOK
<1> QED BY <1>6, <1>10, StepOfOne

-----------------------------------------------------------------------------
(* One lemma per handler *)

(* What is left to show when a step changes the request alone, and its      *)
(* place in the lines not at all.                                          *)
LEMMA LocalStepInv ==
  ASSUME IInv, NEW r \in Request, NEW m \in Local, req' = [req EXCEPT ![r] = m],
         lockLine' = lockLine, slotLine' = slotLine,
         ThreadsKept, cooling' \in SUBSET Account,
         LockIsNamed(r)', SlotIsNamed(r)', ChatsAreKnown(r)'
  PROVE  IInv'
<1>1. LocksKept(r) /\ SlotsKept(r)
  BY LocksUnchanged, SlotsUnchanged
<1>2. req \in [Request -> Local]
  BY DEF IInv, TypeOK
<1>3. /\ req' \in [Request -> Local] /\ req'[r] = m
      /\ \A p \in Request \ {r} : req'[p] = req[p]
  BY <1>2
<1>4. ActsAlone(r)
  BY <1>1, <1>3 DEF ActsAlone
<1>5. RequestOK(r)'
  BY <1>3 DEF RequestOK
<1> QED BY <1>4, <1>5, StepOfOne

LEMMA StartInv ==
  ASSUME IInv, NEW r \in Request, NEW s \in Session, Start(r, s)
  PROVE  IInv'
<1>1. /\ req \in [Request -> Local] /\ req[r] \in Local /\ req[r].pc = "new"
      /\ req[r].lock = None /\ thread \in [Session -> Thread \union {None}]
      /\ cooling \in SUBSET Account
      /\ LockIsNamed(r) /\ SlotIsNamed(r) /\ ChatsAreKnown(r)
  BY DEF IInv, TypeOK, RequestOK, LockIsNamed, Start
<1>2. PICK c : c = IF thread[s] = None THEN None ELSE thread[s].chat
  OBVIOUS
<1>3. c \in Chat \union {None}
  BY <1>1, <1>2 DEF Thread
<1>4. PICK pc \in {"prepare", "lockwait"} :
        req' = [req EXCEPT ![r].session = s, ![r].lock = c, ![r].pc = pc]
  BY <1>2 DEF Start
<1>5. /\ lockLine' = IF c = None THEN lockLine ELSE [lockLine EXCEPT ![c] = Append(@, r)]
      /\ thread' = thread /\ slotLine' = slotLine /\ cooling' = cooling
  BY <1>2 DEF Start
<1>6. LocksKept(r) /\ \A d \in Chat : r \in ToSet(lockLine'[d]) => d = c
  <2>1. CASE c = None
    <3>1. lockLine' = lockLine
      BY <1>5, <2>1
    <3>2. LocksKept(r) /\ \A d \in Chat : r \in ToSet(lockLine'[d]) => req[r].lock = d
      BY <3>1, LocksUnchanged
    <3> QED BY <1>1, <2>1, <3>2
  <2>2. CASE c # None
    <3>1. c \in Chat /\ lockLine' = [lockLine EXCEPT ![c] = Append(@, r)]
      BY <1>3, <1>5, <2>2
    <3> QED BY <1>1, <3>1, LocksJoined
  <2> QED BY <2>1, <2>2
<1>7. SlotsKept(r) /\ \A a \in Account : r \notin ToSet(slotLine'[a])
  BY <1>1, <1>5, SlotsUnchanged DEF Using
<1>8. PICK m \in Local : /\ req' = [req EXCEPT ![r] = m]
                         /\ m.session = s /\ m.lock = c /\ m.pc = pc
                         /\ m.snap = req[r].snap /\ m.retries = req[r].retries
  <2>1. PICK m : m = [req[r] EXCEPT !.session = s, !.lock = c, !.pc = pc]
    OBVIOUS
  <2>2. /\ m \in Local /\ m.session = s /\ m.lock = c /\ m.pc = pc
        /\ m.snap = req[r].snap /\ m.retries = req[r].retries
    BY <1>1, <1>3, <2>1 DEF Local, PC
  <2>3. req' = [req EXCEPT ![r] = m]
    BY <1>1, <1>4, <2>1
  <2> QED BY <2>2, <2>3
<1>9. /\ req' \in [Request -> Local] /\ req'[r] = m
      /\ \A p \in Request \ {r} : req'[p] = req[p]
  BY <1>1, <1>8
<1>10. ActsAlone(r)
  BY <1>6, <1>7, <1>9 DEF ActsAlone
<1>11. req[r].retries = MaxRetries
  BY <1>1 DEF LockIsNamed
<1>12. LockIsNamed(r)'
  BY <1>6, <1>8, <1>9, <1>11 DEF LockIsNamed
<1>13. SlotIsNamed(r)'
  BY <1>7, <1>8, <1>9 DEF SlotIsNamed, Using
<1>14. ChatsAreKnown(r)'
  BY <1>1, <1>8, <1>9 DEF ChatsAreKnown
<1>15. RequestOK(r)'
  BY <1>9, <1>12, <1>13, <1>14 DEF RequestOK
<1> QED BY <1>1, <1>5, <1>10, <1>15, StepOfOne, ThreadsUntouched

(* LockGranted and LockGrantedAgain *)
LEMMA LockGrantedInv ==
  ASSUME IInv, NEW r \in Request, LockGranted(r) \/ LockGrantedAgain(r)
  PROVE  IInv'
<1>1. /\ req \in [Request -> Local] /\ req[r] \in Local /\ cooling \in SUBSET Account
      /\ LockIsNamed(r) /\ SlotIsNamed(r) /\ ChatsAreKnown(r)
      /\ UNCHANGED <<thread, lockLine, slotLine, cooling>>
  BY DEF IInv, TypeOK, RequestOK, LockGranted, LockGrantedAgain
<1>2. PICK pc : /\ \/ req[r].pc = "lockwait" /\ pc = "prepare"
                   \/ req[r].pc = "relock" /\ pc = "streaming"
                /\ req' = [req EXCEPT ![r].pc = pc]
  BY DEF LockGranted, LockGrantedAgain
<1>3. PICK m : m = [req[r] EXCEPT !.pc = pc]
  OBVIOUS
<1>4. /\ m \in Local /\ m.pc = pc /\ m.lock = req[r].lock /\ m.retries = req[r].retries
      /\ m.account = req[r].account /\ m.aborted = req[r].aborted
      /\ m.session = req[r].session /\ m.snap = req[r].snap /\ m.chat = req[r].chat
  BY <1>1, <1>2, <1>3 DEF Local, PC
<1>5. req' = [req EXCEPT ![r] = m] /\ req'[r] = m
  BY <1>1, <1>2, <1>3
<1>6. LockIsNamed(r)'
  BY <1>1, <1>2, <1>4, <1>5 DEF LockIsNamed
<1>7. SlotIsNamed(r)'
  BY <1>1, <1>2, <1>4, <1>5 DEF SlotIsNamed, Using
<1>8. ChatsAreKnown(r)'
  BY <1>1, <1>2, <1>4, <1>5 DEF ChatsAreKnown
<1> QED BY <1>1, <1>4, <1>5, <1>6, <1>7, <1>8, LocalStepInv, ThreadsUntouched

(* Every handler that only ends the request. *)
LEMMA OnlyEndsInv ==
  ASSUME IInv, NEW r \in Request, LockTimeout(r) \/ StreamEnds(r) \/ AbortNoticed(r)
  PROVE  IInv'
<1>1. Ends(r) /\ thread' = thread /\ cooling' = cooling /\ cooling \in SUBSET Account
  BY DEF LockTimeout, StreamEnds, AbortNoticed, IInv, TypeOK
<1> QED BY <1>1, EndsInv, ThreadsUntouched

(* A snapshot keeps the lock and the retries, and reads a chat together     *)
(* with its account.                                                       *)
LEMMA SnapshotProperties ==
  ASSUME IInv, NEW l \in Local, l.session \in Session, NEW force \in BOOLEAN
  PROVE  LET k == Snapshot(l, force) IN
         /\ k \in Local /\ k.lock = l.lock /\ k.retries = l.retries
         /\ k.session = l.session /\ k.pc = l.pc
         /\ k.snap # None => Home[k.snap.chat] = k.snap.account
<1>1. PICK x : x = IF force THEN None ELSE thread[l.session]
  OBVIOUS
<1>2. x \in Thread \union {None} /\ (x # None => Home[x.chat] = x.account)
  BY <1>1 DEF IInv, TypeOK, ThreadsOK
<1>3. PICK k : k = Snapshot(l, force)
  OBVIOUS
<1>4. k = [l EXCEPT !.tried = {}, !.account = None, !.chat = None, !.verified = FALSE,
                    !.snap = x]
  BY <1>1, <1>3 DEF Snapshot
<1>5. /\ k \in Local /\ k.lock = l.lock /\ k.retries = l.retries
      /\ k.session = l.session /\ k.pc = l.pc /\ k.snap = x
  BY <1>2, <1>4 DEF Local
<1> QED BY <1>2, <1>3, <1>5

LEMMA AcquireInv ==
  ASSUME IInv, NEW r \in Request, Acquire(r) \/ Reduced(r)
  PROVE  IInv'
<1>1. /\ req[r] \in Local /\ req[r].pc \in {"prepare", "reducing"}
      /\ cooling \in SUBSET Account /\ thread' = thread
  BY DEF IInv, RequestOK, TypeOK, Acquire, Reduced
<1>2. req[r].retries = MaxRetries /\ req[r].session \in Session /\ req[r].pc \notin Using
  BY <1>1 DEF IInv, RequestOK, LockIsNamed, ChatsAreKnown, Using
<1>3. CASE Ends(r) /\ cooling' = cooling
  BY <1>1, <1>3, EndsInv, ThreadsUntouched
<1>4. CASE \E force \in BOOLEAN : FirstAccount(r, Snapshot(req[r], force), cooling, lockLine)
  <2>1. PICK force \in BOOLEAN : FirstAccount(r, Snapshot(req[r], force), cooling, lockLine)
    BY <1>4
  <2>2. PICK k : k = Snapshot(req[r], force)
    OBVIOUS
  <2>3. /\ k \in Local /\ k.lock = req[r].lock /\ k.retries = req[r].retries
        /\ k.session = req[r].session
        /\ k.snap # None => Home[k.snap.chat] = k.snap.account
    BY <1>1, <1>2, <2>2, SnapshotProperties
  <2>4. FirstAccount(r, k, cooling, lockLine)
    BY <2>1, <2>2
  <2>5. /\ cooling' \in SUBSET Account
        /\ Ends(r) \/ QueuesWith(r, k, slotLine, lockLine)
    BY <1>1, <2>3, <2>4, FirstAccountOutcome
  <2>6. CASE Ends(r)
    BY <1>1, <2>5, <2>6, EndsInv, ThreadsUntouched
  <2>7. CASE QueuesWith(r, k, slotLine, lockLine)
    BY <1>1, <1>2, <2>3, <2>5, <2>7, QueuesInv, ThreadsUntouched
  <2> QED BY <2>5, <2>6, <2>7
<1>5. \/ Ends(r) /\ cooling' = cooling
      \/ \E force \in BOOLEAN : FirstAccount(r, Snapshot(req[r], force), cooling, lockLine)
  BY DEF Acquire, Reduced
<1> QED BY <1>3, <1>4, <1>5

(* The loop moves on from an account the request waited for or tried. *)
LEMMA MovesOnInv ==
  ASSUME IInv, NEW r \in Request, NEW cool \in SUBSET Account,
         req[r].pc \in {"slotwait", "creating"},
         NextAccount(r, req[r], cool, Unslotted(r), lockLine), ThreadsKept
  PROVE  IInv'
<1>1. /\ req[r] \in Local /\ req[r].session \in Session
      /\ req[r].retries # MaxRetries => req[r].lock = None
      /\ req[r].snap # None => Home[req[r].snap.chat] = req[r].snap.account
  BY DEF IInv, RequestOK, LockIsNamed, ChatsAreKnown
<1>2. PICK l : l = req[r]
  OBVIOUS
<1>3. NextAccount(r, l, cool, Unslotted(r), lockLine)
  BY <1>2
<1>4. /\ cooling' \in SUBSET Account
      /\ Ends(r) \/ QueuesWith(r, l, Unslotted(r), lockLine)
  BY <1>1, <1>2, <1>3, NextAccountOutcome
<1>5. CASE Ends(r)
  BY <1>4, <1>5, EndsInv
<1>6. CASE QueuesWith(r, l, Unslotted(r), lockLine)
  BY <1>1, <1>2, <1>4, <1>6, QueuesInv
<1> QED BY <1>4, <1>5, <1>6

LEMMA SlotTimeoutInv ==
  ASSUME IInv, NEW r \in Request, SlotTimeout(r)
  PROVE  IInv'
<1>1. /\ req[r].pc = "slotwait" /\ cooling \in SUBSET Account /\ thread' = thread
      /\ NextAccount(r, req[r], cooling, Unslotted(r), lockLine)
  BY DEF SlotTimeout, IInv, TypeOK
<1> QED BY <1>1, MovesOnInv, ThreadsUntouched

LEMMA SlotGrantedInv ==
  ASSUME IInv, NEW r \in Request, SlotGranted(r)
  PROVE  IInv'
<1>1. /\ req \in [Request -> Local] /\ req[r] \in Local /\ cooling \in SUBSET Account
      /\ req[r].pc = "slotwait" /\ thread' = thread
      /\ IsHead(slotLine[req[r].account], r)
      /\ LockIsNamed(r) /\ SlotIsNamed(r) /\ ChatsAreKnown(r)
  BY DEF SlotGranted, IInv, TypeOK, RequestOK
<1>2. CASE NextAccount(r, req[r], cooling, Unslotted(r), lockLine)
  BY <1>1, <1>2, MovesOnInv, ThreadsUntouched
<1>3. CASE /\ req' = [req EXCEPT ![r].pc = "creating"]
           /\ UNCHANGED <<slotLine, lockLine, cooling>>
  <2>1. PICK m : m = [req[r] EXCEPT !.pc = "creating"]
    OBVIOUS
  <2>2. /\ m \in Local /\ m.pc = "creating" /\ m.lock = req[r].lock
        /\ m.retries = req[r].retries /\ m.account = req[r].account
        /\ m.session = req[r].session /\ m.snap = req[r].snap
    BY <1>1, <2>1 DEF Local, PC
  <2>3. req' = [req EXCEPT ![r] = m] /\ req'[r] = m
    BY <1>1, <1>3, <2>1
  <2>4. LockIsNamed(r)'
    BY <1>1, <1>3, <2>2, <2>3 DEF LockIsNamed
  <2>5. SlotIsNamed(r)'
    BY <1>1, <1>3, <2>2, <2>3 DEF SlotIsNamed, Using
  <2>6. ChatsAreKnown(r)'
    BY <1>1, <2>2, <2>3 DEF ChatsAreKnown
  <2> QED BY <1>1, <1>3, <2>2, <2>3, <2>4, <2>5, <2>6, LocalStepInv, ThreadsUntouched
<1> QED BY <1>2, <1>3 DEF SlotGranted

(* A stream exists: its chat, if it has one, lives on the account in use.   *)
LEMMA CreatedInv ==
  ASSUME IInv, NEW r \in Request, NEW c \in Chat \union {None},
         req[r].pc = "creating", Created(r, c), cooling' = cooling,
         c # None => Home[c] = req[r].account
  PROVE  IInv'
<1>1. /\ req \in [Request -> Local] /\ req[r] \in Local /\ cooling \in SUBSET Account
      /\ thread \in [Session -> Thread \union {None}] /\ ThreadsOK
      /\ req[r].session \in Session /\ req[r].account \in Account
      /\ LockIsNamed(r) /\ SlotIsNamed(r) /\ ChatsAreKnown(r)
  BY DEF IInv, TypeOK, RequestOK, SlotIsNamed, ChatsAreKnown, Using
<1>2. PICK l : l = [req[r] EXCEPT !.chat = c, !.snap = None, !.tried = {},
                                  !.verified = FALSE, !.reduced = FALSE]
  OBVIOUS
<1>3. /\ l \in Local /\ l.chat = c /\ l.snap = None /\ l.lock = req[r].lock
      /\ l.retries = req[r].retries /\ l.account = req[r].account
      /\ l.aborted = req[r].aborted /\ l.session = req[r].session
  BY <1>1, <1>2 DEF Local
<1>4. PICK t : t = IF c = None THEN thread[l.session]
                   ELSE [account |-> l.account, chat |-> c]
  OBVIOUS
<1>5. t \in Thread \union {None} /\ (t # None => Home[t.chat] = t.account)
  BY <1>1, <1>3, <1>4 DEF Thread, ThreadsOK
<1>6. PICK wanted : wanted = IF t = None THEN None ELSE t.chat
  OBVIOUS
<1>7. wanted \in Chat \union {None}
  BY <1>5, <1>6 DEF Thread
<1>8. thread' = [thread EXCEPT ![l.session] = t]
  BY <1>1, <1>2, <1>3, <1>4 DEF Created
<1>9. ThreadsKept
  BY <1>1, <1>3, <1>5, <1>8 DEF ThreadsKept, ThreadsOK
<1>10. CASE Ends(r)
  BY <1>1, <1>9, <1>10, EndsInv
\* The request streams with the lock it has, or without one.
<1>11. CASE /\ req' = [req EXCEPT ![r] = [l EXCEPT !.pc = "streaming"]]
            /\ UNCHANGED <<slotLine, lockLine>>
  <2>1. PICK m : m = [l EXCEPT !.pc = "streaming"]
    OBVIOUS
  <2>2. /\ m \in Local /\ m.pc = "streaming" /\ m.lock = req[r].lock
        /\ m.retries = req[r].retries /\ m.account = req[r].account
        /\ m.session = req[r].session /\ m.snap = None /\ m.chat = c
        /\ m.aborted = req[r].aborted
    BY <1>3, <2>1 DEF Local, PC
  <2>3. req' = [req EXCEPT ![r] = m] /\ req'[r] = m
    BY <1>1, <1>11, <2>1
  <2>4. LockIsNamed(r)'
    BY <1>1, <1>11, <2>2, <2>3 DEF LockIsNamed
  <2>5. SlotIsNamed(r)'
    BY <1>1, <1>11, <2>2, <2>3 DEF SlotIsNamed, Using
  <2>6. ChatsAreKnown(r)'
    BY <1>1, <2>2, <2>3 DEF ChatsAreKnown
  <2> QED BY <1>1, <1>9, <1>11, <2>2, <2>3, <2>4, <2>5, <2>6, LocalStepInv
\* On a retry it asks for the lock of its thread's chat, with the slot in hand.
<1>12. CASE /\ l.retries # MaxRetries /\ wanted # None
            /\ \E pc \in {"streaming", "relock"} :
                 req' = [req EXCEPT ![r] = [l EXCEPT !.lock = wanted, !.pc = pc]]
            /\ lockLine' = [lockLine EXCEPT ![wanted] = Append(@, r)]
            /\ UNCHANGED slotLine
  <2>1. PICK pc \in {"streaming", "relock"} :
          req' = [req EXCEPT ![r] = [l EXCEPT !.lock = wanted, !.pc = pc]]
    BY <1>12
  <2>2. PICK m : m = [l EXCEPT !.lock = wanted, !.pc = pc]
    OBVIOUS
  <2>3. /\ m \in Local /\ m.pc = pc /\ m.lock = wanted
        /\ m.retries = req[r].retries /\ m.account = req[r].account
        /\ m.session = req[r].session /\ m.snap = None /\ m.chat = c
        /\ m.aborted = req[r].aborted
    BY <1>3, <1>7, <2>2 DEF Local, PC
  <2>4. /\ req' \in [Request -> Local] /\ req'[r] = m
        /\ \A p \in Request \ {r} : req'[p] = req[p]
    BY <1>1, <2>1, <2>2, <2>3
  <2>5. req[r].lock = None /\ wanted \in Chat
    BY <1>1, <1>3, <1>7, <1>12 DEF LockIsNamed
  <2>6. LocksKept(r) /\ \A d \in Chat : r \in ToSet(lockLine'[d]) => d = wanted
    BY <1>12, <2>5, LocksJoined
  <2>7. SlotsKept(r)
    BY <1>12, SlotsUnchanged
  <2>8. ActsAlone(r)
    BY <2>4, <2>6, <2>7 DEF ActsAlone
  <2>9. LockIsNamed(r)'
    BY <2>3, <2>4, <2>6 DEF LockIsNamed
  <2>10. SlotIsNamed(r)'
    BY <1>1, <1>12, <2>3, <2>4 DEF SlotIsNamed, Using
  <2>11. ChatsAreKnown(r)'
    BY <1>1, <2>3, <2>4 DEF ChatsAreKnown
  <2>12. RequestOK(r)'
    BY <2>3, <2>4, <2>9, <2>10, <2>11 DEF RequestOK
  <2> QED BY <1>1, <1>9, <2>8, <2>12, StepOfOne
<1>13. \/ Ends(r)
       \/ /\ req' = [req EXCEPT ![r] = [l EXCEPT !.pc = "streaming"]]
          /\ UNCHANGED <<slotLine, lockLine>>
       \/ /\ l.retries # MaxRetries /\ wanted # None
          /\ \E pc \in {"streaming", "relock"} :
               req' = [req EXCEPT ![r] = [l EXCEPT !.lock = wanted, !.pc = pc]]
          /\ lockLine' = [lockLine EXCEPT ![wanted] = Append(@, r)]
          /\ UNCHANGED slotLine
  <2>1. HasStream(r, l, wanted)
    BY <1>2, <1>3, <1>4, <1>6 DEF Created
  <2>2. PICK pc \in {"streaming", "relock"} :
          pc = IF lockLine[wanted] = <<>> THEN "streaming" ELSE "relock"
    OBVIOUS
  <2> QED BY <2>1, <2>2 DEF HasStream
<1> QED BY <1>10, <1>11, <1>12, <1>13

LEMMA CreateInv ==
  ASSUME IInv, NEW r \in Request,
         CreateOnThreadChat(r) \/ CreateOnNewChat(r) \/ CreateOnPage(r)
  PROVE  IInv'
<1>1. /\ req[r] \in Local /\ ChatsAreKnown(r) /\ req[r].pc = "creating"
      /\ cooling' = cooling
  BY DEF IInv, RequestOK, CreateOnThreadChat, CreateOnNewChat, CreateOnPage
<1>2. Reusable(req[r]) => /\ req[r].snap.chat \in Chat
                          /\ Home[req[r].snap.chat] = req[r].account
  <2>1. SUFFICES ASSUME Reusable(req[r])
                 PROVE  /\ req[r].snap.chat \in Chat
                        /\ Home[req[r].snap.chat] = req[r].account
    OBVIOUS
  <2>2. req[r].snap # None /\ req[r].snap.account = req[r].account
    BY <2>1 DEF Reusable
  <2>3. req[r].snap \in Thread
    BY <1>1, <2>2 DEF Local
  <2> QED BY <1>1, <2>2, <2>3 DEF ChatsAreKnown, Thread
<1>3. CASE CreateOnThreadChat(r)
  <2>1. Reusable(req[r]) /\ Created(r, req[r].snap.chat)
    BY <1>3 DEF CreateOnThreadChat
  <2> QED BY <1>1, <1>2, <2>1, CreatedInv
<1>4. CASE CreateOnNewChat(r)
  <2>1. PICK fresh : fresh = {c \in Chat : Fresh(c) /\ Home[c] = req[r].account}
    OBVIOUS
  <2>2. PICK c : c = CHOOSE x \in fresh : TRUE
    OBVIOUS
  <2>3. fresh # {} /\ Created(r, c)
    BY <1>4, <2>1, <2>2 DEF CreateOnNewChat
  <2>4. c \in fresh
    BY <2>2, <2>3
  <2>5. c \in Chat /\ Home[c] = req[r].account
    BY <2>1, <2>4
  <2> QED BY <1>1, <2>3, <2>5, CreatedInv
<1>5. CASE CreateOnPage(r)
  <2>1. PICK c : c = IF Reusable(req[r]) THEN req[r].snap.chat ELSE None
    OBVIOUS
  <2>2. Created(r, c)
    BY <1>5, <2>1 DEF CreateOnPage
  <2>3. c \in Chat \union {None} /\ (c # None => Home[c] = req[r].account)
    BY <1>2, <2>1
  <2> QED BY <1>1, <2>2, <2>3, CreatedInv
<1> QED BY <1>3, <1>4, <1>5

LEMMA ChatDoesNotExistInv ==
  ASSUME IInv, NEW r \in Request, ChatDoesNotExist(r)
  PROVE  IInv'
<1>1. /\ req \in [Request -> Local] /\ req[r] \in Local /\ cooling \in SUBSET Account
      /\ req[r].pc = "creating" /\ UNCHANGED <<thread, lockLine, slotLine, cooling>>
      /\ LockIsNamed(r) /\ SlotIsNamed(r) /\ ChatsAreKnown(r)
  BY DEF ChatDoesNotExist, IInv, TypeOK, RequestOK
<1>2. PICK m : m = [req[r] EXCEPT !.snap = None]
  OBVIOUS
<1>3. /\ m \in Local /\ m.pc = "creating" /\ m.lock = req[r].lock
      /\ m.retries = req[r].retries /\ m.account = req[r].account
      /\ m.session = req[r].session /\ m.snap = None /\ m.aborted = req[r].aborted
  BY <1>1, <1>2 DEF Local
<1>4. req' = [req EXCEPT ![r] = m] /\ req'[r] = m
  BY <1>1, <1>2 DEF ChatDoesNotExist
<1>5. LockIsNamed(r)'
  BY <1>1, <1>3, <1>4 DEF LockIsNamed
<1>6. SlotIsNamed(r)'
  BY <1>1, <1>3, <1>4 DEF SlotIsNamed, Using
<1>7. ChatsAreKnown(r)'
  BY <1>1, <1>3, <1>4 DEF ChatsAreKnown
<1> QED BY <1>1, <1>3, <1>4, <1>5, <1>6, <1>7, LocalStepInv, ThreadsUntouched

(* A request gives its slot back and stays in its lock line, or leaves both. *)
LEMMA SlotBackInv ==
  ASSUME IInv, NEW r \in Request, NEW m \in Local, req' = [req EXCEPT ![r] = m],
         slotLine' = Unslotted(r), ThreadsKept, cooling' \in SUBSET Account,
         \/ lockLine' = lockLine /\ m.lock = req[r].lock
         \/ lockLine' = Unlocked(r),
         m.pc \in {"new", "done"} => m.lock = None,
         m.pc \in {"new", "prepare", "lockwait", "reducing"} => m.retries = MaxRetries,
         m.pc \in {"slotwait", "creating"} /\ m.retries # MaxRetries => m.lock = None,
         m.pc \in Using \union {"retrying"} => m.account \in Account,
         m.pc \in {"creating", "relock", "streaming"} => m.aborted,
         m.session \in Session,
         m.snap # None => Home[m.snap.chat] = m.snap.account,
         m.pc \in {"relock", "streaming"} /\ m.chat # None => Home[m.chat] = m.account
  PROVE  IInv'
<1>1. req \in [Request -> Local]
  BY DEF IInv, TypeOK
<1>2. /\ req' \in [Request -> Local] /\ req'[r] = m
      /\ \A p \in Request \ {r} : req'[p] = req[p]
  BY <1>1
<1>3. SlotsKept(r) /\ \A a \in Account : r \notin ToSet(slotLine'[a])
  BY SlotsLeft
<1>4. LocksKept(r) /\ \A c \in Chat : r \in ToSet(lockLine'[c]) => m.lock = c
  BY LocksLeft, LocksUnchanged
<1>5. ActsAlone(r)
  BY <1>2, <1>3, <1>4 DEF ActsAlone
<1>6. LockIsNamed(r)'
  BY <1>2, <1>4 DEF LockIsNamed
<1>7. SlotIsNamed(r)'
  BY <1>2, <1>3 DEF SlotIsNamed
<1>8. ChatsAreKnown(r)'
  BY <1>2 DEF ChatsAreKnown
<1>9. RequestOK(r)'
  BY <1>2, <1>6, <1>7, <1>8 DEF RequestOK
<1> QED BY <1>5, <1>9, StepOfOne

LEMMA CreateFailsInv ==
  ASSUME IInv, NEW r \in Request, CreateFails(r)
  PROVE  IInv'
<1>1. /\ req \in [Request -> Local] /\ req[r] \in Local /\ cooling \in SUBSET Account
      /\ req[r].pc = "creating" /\ req[r].session \in Session /\ req[r].account \in Account
      /\ thread' \in {thread, Cleared(req[r].account)}
  BY DEF CreateFails, IInv, TypeOK, RequestOK, SlotIsNamed, ChatsAreKnown, Using
<1>2. ThreadsKept
  BY <1>1 DEF ThreadsKept, ThreadsOK, IInv, TypeOK, Cleared
<1>3. PICK cool \in SUBSET Account :
        \/ NextAccount(r, req[r], cool, Unslotted(r), lockLine)
        \/ /\ req[r].retries = MaxRetries
           /\ req' = [req EXCEPT ![r] = [Snapshot(req[r], TRUE) EXCEPT
                                           !.pc = "reducing", !.reduced = TRUE]]
           /\ cooling' = cool /\ slotLine' = Unslotted(r) /\ lockLine' = lockLine
  <2>1. PICK cool \in {cooling, cooling \union {req[r].account}} :
          \/ NextAccount(r, req[r], cool, Unslotted(r), lockLine)
          \/ /\ req[r].retries = MaxRetries
             /\ req' = [req EXCEPT ![r] = [Snapshot(req[r], TRUE) EXCEPT
                                             !.pc = "reducing", !.reduced = TRUE]]
             /\ cooling' = cool /\ slotLine' = Unslotted(r) /\ lockLine' = lockLine
    BY DEF CreateFails
  <2>2. cool \in SUBSET Account
    BY <1>1
  <2> QED BY <2>1, <2>2
<1>4. CASE NextAccount(r, req[r], cool, Unslotted(r), lockLine)
  BY <1>1, <1>2, <1>4, MovesOnInv
<1>5. CASE /\ req[r].retries = MaxRetries
           /\ req' = [req EXCEPT ![r] = [Snapshot(req[r], TRUE) EXCEPT
                                           !.pc = "reducing", !.reduced = TRUE]]
           /\ cooling' = cool /\ slotLine' = Unslotted(r) /\ lockLine' = lockLine
  <2>1. PICK k : k = Snapshot(req[r], TRUE)
    OBVIOUS
  <2>2. /\ k \in Local /\ k.lock = req[r].lock /\ k.retries = req[r].retries
        /\ k.session = req[r].session
        /\ k.snap # None => Home[k.snap.chat] = k.snap.account
    BY <1>1, <2>1, SnapshotProperties
  <2>3. PICK m : m = [k EXCEPT !.pc = "reducing", !.reduced = TRUE]
    OBVIOUS
  <2>4. /\ m \in Local /\ m.pc = "reducing" /\ m.lock = req[r].lock
        /\ m.retries = MaxRetries /\ m.session \in Session
        /\ m.snap # None => Home[m.snap.chat] = m.snap.account
    BY <1>1, <1>5, <2>2, <2>3 DEF Local, PC
  <2>5. req' = [req EXCEPT ![r] = m]
    BY <1>5, <2>1, <2>3
  <2> QED BY <1>2, <1>5, <2>4, <2>5, SlotBackInv DEF Using
<1> QED BY <1>3, <1>4, <1>5

LEMMA ResponseCreatedInv ==
  ASSUME IInv, NEW r \in Request, ResponseCreated(r)
  PROVE  IInv'
<1>1. /\ TypeOK /\ LinesOK /\ \A p \in Request : RequestOK(p)
      /\ ThreadsOK /\ UNCHANGED <<lockLine, slotLine, cooling, req>>
  BY DEF IInv, ResponseCreated
<1>2. \A p \in Request : RequestOK(p)'
  BY <1>1 DEF RequestOK, LockIsNamed, SlotIsNamed, ChatsAreKnown
<1>3. /\ req[r] \in Local /\ req[r].pc = "streaming" /\ req[r].chat # None
      /\ req[r].session \in Session /\ req[r].account \in Account
      /\ Home[req[r].chat] = req[r].account
  BY <1>1 DEF ResponseCreated, RequestOK, SlotIsNamed, ChatsAreKnown, Using
<1>4. PICK t : t = [account |-> req[r].account, chat |-> req[r].chat]
  OBVIOUS
<1>5. t \in Thread /\ Home[t.chat] = t.account
  BY <1>3, <1>4 DEF Local, Thread
<1>6. thread' = [thread EXCEPT ![req[r].session] = t]
  BY <1>4 DEF ResponseCreated
<1>7. /\ thread' \in [Session -> Thread \union {None}] /\ ThreadsOK'
  BY <1>1, <1>3, <1>5, <1>6 DEF TypeOK, ThreadsOK
<1>8. TypeOK' /\ LinesOK'
  BY <1>1, <1>7 DEF TypeOK, LinesOK
<1> QED BY <1>2, <1>7, <1>8 DEF IInv

LEMMA StreamRetriesInv ==
  ASSUME IInv, NEW r \in Request, StreamRetries(r)
  PROVE  IInv'
<1>1. /\ req \in [Request -> Local] /\ req[r] \in Local /\ cooling \in SUBSET Account
      /\ req[r].pc = "streaming" /\ req[r].session \in Session /\ req[r].account \in Account
      /\ req[r].snap # None => Home[req[r].snap.chat] = req[r].snap.account
  BY DEF StreamRetries, IInv, TypeOK, RequestOK, SlotIsNamed, ChatsAreKnown, Using
<1>2. /\ req[r].retries > 0 /\ slotLine' = Unslotted(r)
      /\ lockLine' = lockLine \/ lockLine' = Unlocked(r)
      /\ thread' = thread /\ cooling' = cooling
  BY DEF StreamRetries
<1>3. PICK lock \in {req[r].lock, None} :
        /\ lockLine' = lockLine => lock = req[r].lock
        /\ req' = [req EXCEPT ![r].pc = "retrying", ![r].retries = @ - 1, ![r].lock = lock]
  <2>1. PICK lock : lock = IF lockLine' = lockLine THEN req[r].lock ELSE None
    OBVIOUS
  <2>2. req' = [req EXCEPT ![r].pc = "retrying", ![r].retries = @ - 1, ![r].lock = lock]
    BY <1>1, <2>1 DEF StreamRetries
  <2> QED BY <2>1, <2>2
<1>4. PICK m : m = [req[r] EXCEPT !.pc = "retrying", !.retries = req[r].retries - 1,
                                  !.lock = lock]
  OBVIOUS
<1>5. req[r].retries - 1 \in 0 .. MaxRetries /\ lock \in Chat \union {None}
  BY <1>1, <1>2, ChatRequestAssumption DEF Local
<1>6. /\ m \in Local /\ m.pc = "retrying" /\ m.lock = lock /\ m.account \in Account
      /\ m.session \in Session
      /\ m.snap # None => Home[m.snap.chat] = m.snap.account
  BY <1>1, <1>4, <1>5 DEF Local, PC
<1>7. req' = [req EXCEPT ![r] = m]
  BY <1>1, <1>3, <1>4
<1> QED BY <1>1, <1>2, <1>3, <1>6, <1>7, SlotBackInv, ThreadsUntouched DEF Using

LEMMA RetryInv ==
  ASSUME IInv, NEW r \in Request, Retry(r)
  PROVE  IInv'
<1>1. /\ req[r] \in Local /\ cooling \in SUBSET Account /\ thread' = thread
      /\ req[r].pc = "retrying" /\ req[r].session \in Session /\ req[r].account \in Account
  BY DEF Retry, IInv, TypeOK, RequestOK, SlotIsNamed, ChatsAreKnown, Using
<1>2. PICK cool \in {cooling, cooling \union {req[r].account}} :
        \/ Ends(r) /\ cooling' = cool
        \/ \E force \in BOOLEAN :
             FirstAccount(r, [Snapshot(req[r], force) EXCEPT !.lock = None], cool, Unlocked(r))
  BY DEF Retry, UnlockedForRetry
<1>3. cool \in SUBSET Account
  BY <1>1
<1>4. CASE Ends(r) /\ cooling' = cool
  BY <1>1, <1>3, <1>4, EndsInv, ThreadsUntouched
<1>5. CASE \E force \in BOOLEAN :
             FirstAccount(r, [Snapshot(req[r], force) EXCEPT !.lock = None], cool, Unlocked(r))
  <2>1. PICK force \in BOOLEAN :
          FirstAccount(r, [Snapshot(req[r], force) EXCEPT !.lock = None], cool, Unlocked(r))
    BY <1>5
  <2>2. PICK k : k = Snapshot(req[r], force)
    OBVIOUS
  <2>3. /\ k \in Local /\ k.retries = req[r].retries /\ k.session = req[r].session
        /\ k.snap # None => Home[k.snap.chat] = k.snap.account
    BY <1>1, <2>2, SnapshotProperties
  <2>4. PICK l : l = [k EXCEPT !.lock = None]
    OBVIOUS
  <2>5. /\ l \in Local /\ l.lock = None /\ l.session \in Session
        /\ l.snap # None => Home[l.snap.chat] = l.snap.account
    BY <1>1, <2>3, <2>4 DEF Local
  <2>6. FirstAccount(r, l, cool, Unlocked(r))
    BY <2>1, <2>2, <2>4
  <2>7. /\ cooling' \in SUBSET Account
        /\ Ends(r) \/ QueuesWith(r, l, slotLine, Unlocked(r))
    BY <1>3, <2>5, <2>6, FirstAccountOutcome
  <2>8. CASE Ends(r)
    BY <1>1, <2>7, <2>8, EndsInv, ThreadsUntouched
  <2>9. CASE QueuesWith(r, l, slotLine, Unlocked(r))
    BY <1>1, <2>5, <2>7, <2>9, QueuesInv, ThreadsUntouched DEF Using
  <2> QED BY <2>7, <2>8, <2>9
<1> QED BY <1>2, <1>4, <1>5

LEMMA ClientAbortsInv ==
  ASSUME IInv, NEW r \in Request, ClientAborts(r)
  PROVE  IInv'
<1>1. /\ req \in [Request -> Local] /\ req[r] \in Local /\ cooling \in SUBSET Account
      /\ req[r].pc \notin {"new", "done"} /\ UNCHANGED <<thread, cooling>>
      /\ LockIsNamed(r) /\ SlotIsNamed(r) /\ ChatsAreKnown(r)
  BY DEF ClientAborts, IInv, TypeOK, RequestOK
<1>2. CASE Ends(r)
  BY <1>1, <1>2, EndsInv, ThreadsUntouched
<1>3. CASE /\ slotLine' = Unslotted(r) /\ lockLine' = lockLine
           /\ req' = [req EXCEPT ![r].aborted = TRUE]
  <2>1. PICK m : m = [req[r] EXCEPT !.aborted = TRUE]
    OBVIOUS
  <2>2. /\ m \in Local /\ m.pc = req[r].pc /\ m.lock = req[r].lock
        /\ m.retries = req[r].retries /\ m.account = req[r].account
        /\ m.session = req[r].session /\ m.snap = req[r].snap /\ m.chat = req[r].chat
        /\ m.aborted
    BY <1>1, <2>1 DEF Local
  <2>3. req' = [req EXCEPT ![r] = m]
    BY <1>1, <1>3, <2>1
  <2> QED BY <1>1, <1>3, <2>2, <2>3, SlotBackInv, ThreadsUntouched
          DEF LockIsNamed, SlotIsNamed, ChatsAreKnown
<1> QED BY <1>2, <1>3 DEF ClientAborts

LEMMA QuietInv ==
  ASSUME IInv, UNCHANGED <<thread, lockLine, slotLine, req>>, cooling' \in SUBSET Account
  PROVE  IInv'
<1>1. TypeOK /\ LinesOK /\ ThreadsOK /\ \A p \in Request : RequestOK(p)
  BY DEF IInv
<1>2. \A p \in Request : RequestOK(p)'
  BY <1>1 DEF RequestOK, LockIsNamed, SlotIsNamed, ChatsAreKnown
<1>3. TypeOK' /\ LinesOK' /\ ThreadsOK'
  BY <1>1 DEF TypeOK, LinesOK, ThreadsOK
<1> QED BY <1>2, <1>3 DEF IInv

LEMMA InitInv == Init => IInv
<1> SUFFICES ASSUME Init PROVE IInv
  OBVIOUS
<1>1. PICK m : m = NewLocal
  OBVIOUS
<1>2. m = [pc |-> "new", session |-> None, lock |-> None, snap |-> None, tried |-> {},
           account |-> None, chat |-> None, verified |-> FALSE, reduced |-> FALSE,
           retries |-> MaxRetries, aborted |-> FALSE]
  BY <1>1 DEF NewLocal
<1>3. MaxRetries \in 0 .. MaxRetries
  BY ChatRequestAssumption
<1>4. m \in Local
  BY <1>2, <1>3 DEF Local, PC
<1>5. req = [r \in Request |-> m]
  BY <1>1 DEF Init
<1>6. <<>> \in Seq(Request) /\ NoDuplicates(<<>>) /\ ToSet(<<>>) = {}
  BY DEF NoDuplicates, ToSet
<1>7. /\ lockLine = [c \in Chat |-> <<>>] /\ slotLine = [a \in Account |-> <<>>]
      /\ cooling = {} /\ thread = [s \in Session |-> None]
  BY DEF Init
<1>8. TypeOK /\ LinesOK /\ ThreadsOK
  BY <1>4, <1>5, <1>6, <1>7 DEF TypeOK, LinesOK, ThreadsOK
<1>9. \A r \in Request : RequestOK(r)
  BY <1>2, <1>4, <1>5, <1>6, <1>7
     DEF RequestOK, LockIsNamed, SlotIsNamed, ChatsAreKnown, Using
<1> QED BY <1>8, <1>9 DEF IInv

LEMMA ProgressInv ==
  ASSUME IInv, NEW r \in Request, Progress(r)
  PROVE  IInv'
<1>1. CASE LockGranted(r) \/ LockGrantedAgain(r)
  BY <1>1, LockGrantedInv
<1>2. CASE LockTimeout(r) \/ StreamEnds(r) \/ AbortNoticed(r)
  BY <1>2, OnlyEndsInv
<1>3. CASE Acquire(r) \/ Reduced(r)
  BY <1>3, AcquireInv
<1>4. CASE SlotGranted(r)
  BY <1>4, SlotGrantedInv
<1>5. CASE SlotTimeout(r)
  BY <1>5, SlotTimeoutInv
<1>6. CASE CreateOnThreadChat(r) \/ CreateOnPage(r) \/ CreateOnNewChat(r)
  BY <1>6, CreateInv
<1>7. CASE ChatDoesNotExist(r)
  BY <1>7, ChatDoesNotExistInv
<1>8. CASE CreateFails(r)
  BY <1>8, CreateFailsInv
<1>9. CASE StreamRetries(r)
  BY <1>9, StreamRetriesInv
<1>10. CASE Retry(r)
  BY <1>10, RetryInv
<1> QED BY <1>1, <1>2, <1>3, <1>4, <1>5, <1>6, <1>7, <1>8, <1>9, <1>10 DEF Progress

LEMMA NextInv ==
  ASSUME IInv, [Next]_vars
  PROVE  IInv'
<1>0. cooling \in SUBSET Account
  BY DEF IInv, TypeOK
<1>1. CASE UNCHANGED vars
  <2>1. UNCHANGED <<thread, lockLine, slotLine, req>> /\ cooling' = cooling
    BY <1>1 DEF vars
  <2> QED BY <1>0, <2>1, QuietInv
<1>2. CASE \E r \in Request, s \in Session : Start(r, s)
  BY <1>2, StartInv
<1>3. CASE \E r \in Request : Progress(r) \/ ResponseCreated(r) \/ ClientAborts(r)
  BY <1>3, ProgressInv, ResponseCreatedInv, ClientAbortsInv
<1>4. CASE \E a \in Account : CooldownExpires(a)
  <2>1. UNCHANGED <<thread, lockLine, slotLine, req>> /\ cooling' \in SUBSET Account
    BY <1>0, <1>4 DEF CooldownExpires
  <2> QED BY <2>1, QuietInv
<1> QED BY <1>1, <1>2, <1>3, <1>4 DEF Next

(* The invariant of the life of a request: it stands in one lock line and   *)
(* in one slot line at most, the ones its local variables name, and knows   *)
(* chats only together with their account.                                 *)
THEOREM RequestInvariant == Spec => []IInv
<1>1. IInv /\ [Next]_vars => IInv'
  BY NextInv
<1> QED BY InitInv, <1>1, PTL DEF Spec

(* A request that is over, on whichever of the many paths, stands in no     *)
(* line: no lock and no slot is left behind.                               *)
THEOREM DoneRequestsHoldNothing == Spec => []DoneHoldsNothing
<1>1. ASSUME IInv PROVE DoneHoldsNothing
  BY <1>1, ChatRequestAssumption
     DEF IInv, RequestOK, LockIsNamed, SlotIsNamed, Using, DoneHoldsNothing
<1> QED BY RequestInvariant, <1>1, PTL

(* Whoever talks to an account holds its slot, unless its client is gone:   *)
(* through every rotation and every retry.                                 *)
THEOREM StreamsHoldSlots == Spec => []StreamingHoldsSlot
<1>1. ASSUME IInv PROVE StreamingHoldsSlot
  BY <1>1 DEF IInv, RequestOK, SlotIsNamed, StreamingHoldsSlot
<1> QED BY RequestInvariant, <1>1, PTL

(* A message goes to a chat on the account the chat lives on, and a thread  *)
(* remembers the two together.                                             *)
THEOREM ChatsStayOnTheirAccount == Spec => []ChatOnItsAccount
<1>1. ASSUME IInv PROVE ChatOnItsAccount
  BY <1>1 DEF IInv, ThreadsOK, RequestOK, ChatsAreKnown, ChatOnItsAccount
<1> QED BY RequestInvariant, <1>1, PTL

-----------------------------------------------------------------------------
(* The chat locks are used as ChatLine allows *)

(* What a step does to the lock lines: nothing, or one request leaves those *)
(* it stands in, or one that stands in none joins one.                      *)
LocksDo(r) ==
  \/ lockLine' = lockLine
  \/ lockLine' = Unlocked(r)
  \/ \E c \in Chat : /\ req[r].lock = None
                     /\ lockLine' = [lockLine EXCEPT ![c] = Append(@, r)]

LEMMA LeavingFollowsLine ==
  ASSUME IInv, NEW r \in Request, lockLine' = Unlocked(r)
  PROVE  Line!LineNext \/ lockLine' = lockLine
<1>1. /\ lockLine \in [Chat -> Seq(Request)]
      /\ \A c \in Chat : lockLine[c] \in Seq(Request) /\ NoDuplicates(lockLine[c])
      /\ \A c \in Chat : r \in ToSet(lockLine[c]) => req[r].lock = c
  BY DEF IInv, TypeOK, LinesOK, RequestOK, LockIsNamed
<1>2. lockLine' = [c \in Chat |-> RemoveFirst(lockLine[c], r)]
  BY DEF Unlocked, Without
<1>3. \A c \in Chat : r \notin ToSet(lockLine[c]) => RemoveFirst(lockLine[c], r) = lockLine[c]
  BY <1>1, RemoveFirstStranger
<1>4. CASE \A c \in Chat : r \notin ToSet(lockLine[c])
  BY <1>1, <1>2, <1>3, <1>4
<1>5. CASE \E c \in Chat : r \in ToSet(lockLine[c])
  <2>1. PICK c \in Chat : r \in ToSet(lockLine[c])
    BY <1>5
  <2>2. \A d \in Chat \ {c} : r \notin ToSet(lockLine[d])
    BY <1>1, <2>1
  <2>3. PICK q \in Seq(Request) : q = lockLine[c] /\ NoDuplicates(q)
    BY <1>1
  <2>4. PICK i \in 1 .. Len(q) : q[i] = r
    BY <2>1, <2>3, ToSetMembers
  <2>5. RemoveFirst(lockLine[c], r) = RemoveAt(q, i)
    BY <2>3, <2>4, RemoveFirstMember
  <2>6. lockLine' = [lockLine EXCEPT ![c] = RemoveAt(q, i)]
    BY <1>1, <1>2, <1>3, <2>2, <2>5
  \* The holder leaves and the next one is served.
  <2>7. CASE i = 1
    <3>1. q # <<>>
      BY <2>4
    <3>2. RemoveAt(q, i) = Tail(lockLine[c])
      BY <2>3, <2>7, <3>1, RemoveFirstHead
    <3>3. Line!Leave(c)
      BY <2>3, <2>6, <3>1, <3>2 DEF Line!Leave
    <3> QED BY <3>3 DEF Line!LineNext
  \* A waiter gives up.
  <2>8. CASE i # 1
    <3>1. i \in 2 .. Len(lockLine[c]) /\ i \in DOMAIN lockLine[c]
      BY <2>3, <2>8
    <3>2. lockLine' = [lockLine EXCEPT ![c] = Line!RemoveAt(lockLine[c], i)]
      BY <2>3, <2>6 DEF RemoveAt, Line!RemoveAt
    <3>3. Line!GiveUp(c, i)
      BY <3>1, <3>2 DEF Line!GiveUp
    <3> QED BY <3>1, <3>3 DEF Line!LineNext
  <2> QED BY <2>7, <2>8
<1> QED BY <1>4, <1>5

LEMMA LocksDoFollowsLine ==
  ASSUME IInv, NEW r \in Request, LocksDo(r)
  PROVE  Line!LineNext \/ lockLine' = lockLine
<1>1. CASE lockLine' = Unlocked(r)
  BY <1>1, LeavingFollowsLine
<1>2. CASE \E c \in Chat : /\ req[r].lock = None
                           /\ lockLine' = [lockLine EXCEPT ![c] = Append(@, r)]
  <2>1. PICK c \in Chat : /\ req[r].lock = None
                          /\ lockLine' = [lockLine EXCEPT ![c] = Append(@, r)]
    BY <1>2
  <2>2. \A d \in Chat : r \notin ToSet(lockLine[d])
    BY <2>1, ChatRequestAssumption DEF IInv, RequestOK, LockIsNamed
  <2>3. \A d \in Chat : r \notin Line!ToSet(lockLine[d])
    BY <2>2 DEF ToSet, Line!ToSet
  <2>4. Line!Join(r, c)
    BY <2>1, <2>3 DEF Line!Join, Line!InLine
  <2> QED BY <2>4 DEF Line!LineNext
<1> QED BY <1>1, <1>2 DEF LocksDo

LEMMA OutcomeLocks ==
  ASSUME NEW r, NEW l, NEW lines, NEW locks, locks \in {lockLine, Unlocked(r)},
         Ends(r) \/ QueuesWith(r, l, lines, locks)
  PROVE  LocksDo(r)
<1>1. CASE Ends(r)
  BY <1>1 DEF Ends, LocksDo
<1>2. CASE QueuesWith(r, l, lines, locks)
  BY <1>2 DEF QueuesWith, LocksDo
<1> QED BY <1>1, <1>2

LEMMA StartLocks ==
  ASSUME IInv, NEW r \in Request, NEW s \in Session, Start(r, s)
  PROVE  LocksDo(r)
<1>1. PICK c : c = IF thread[s] = None THEN None ELSE thread[s].chat
  OBVIOUS
<1>2. c \in Chat \union {None}
  BY <1>1 DEF IInv, TypeOK, Thread
<1>3. lockLine' = IF c = None THEN lockLine ELSE [lockLine EXCEPT ![c] = Append(@, r)]
  BY <1>1 DEF Start
<1>4. req[r].lock = None
  BY DEF Start, IInv, RequestOK, LockIsNamed
<1> QED BY <1>2, <1>3, <1>4 DEF LocksDo

(* The loop over the accounts, wherever it is entered. *)
LEMMA LoopLocks ==
  ASSUME IInv, NEW r \in Request,
         Acquire(r) \/ Reduced(r) \/ SlotGranted(r) \/ SlotTimeout(r) \/ CreateFails(r)
           \/ Retry(r)
  PROVE  LocksDo(r)
<1>1. /\ req[r] \in Local /\ cooling \in SUBSET Account /\ req[r].pc \notin {"new", "done"}
      /\ req[r].session \in Session
      /\ req[r].pc \in {"creating", "retrying"} => req[r].account \in Account
  <2>1. req[r].pc \notin {"new", "done"}
    BY DEF Acquire, Reduced, SlotGranted, SlotTimeout, CreateFails, Retry
  <2> QED BY <2>1 DEF IInv, TypeOK, RequestOK, ChatsAreKnown, SlotIsNamed, Using
<1>2. ASSUME NEW force \in BOOLEAN,
             FirstAccount(r, Snapshot(req[r], force), cooling, lockLine)
      PROVE  LocksDo(r)
  <2>1. PICK k : k = Snapshot(req[r], force)
    OBVIOUS
  <2>2. k \in Local
    BY <1>1, <2>1, SnapshotProperties
  <2>3. FirstAccount(r, k, cooling, lockLine)
    BY <1>2, <2>1
  <2>4. Ends(r) \/ QueuesWith(r, k, slotLine, lockLine)
    BY <1>1, <2>2, <2>3, FirstAccountOutcome
  <2> QED BY <2>4, OutcomeLocks
<1>3. ASSUME NEW cool \in SUBSET Account,
             NextAccount(r, req[r], cool, Unslotted(r), lockLine)
      PROVE  LocksDo(r)
  <2>1. PICK k : k = req[r]
    OBVIOUS
  <2>2. NextAccount(r, k, cool, Unslotted(r), lockLine)
    BY <1>3, <2>1
  <2>3. Ends(r) \/ QueuesWith(r, k, Unslotted(r), lockLine)
    BY <1>1, <2>1, <2>2, NextAccountOutcome
  <2> QED BY <2>3, OutcomeLocks
<1>4. CASE Acquire(r) \/ Reduced(r)
  <2>1. \/ Ends(r)
        \/ \E force \in BOOLEAN :
             FirstAccount(r, Snapshot(req[r], force), cooling, lockLine)
    BY <1>4 DEF Acquire, Reduced
  <2>2. CASE Ends(r)
    BY <2>2 DEF Ends, LocksDo
  <2> QED BY <1>2, <2>1, <2>2
<1>5. CASE SlotGranted(r) \/ SlotTimeout(r)
  <2>1. lockLine' = lockLine \/ NextAccount(r, req[r], cooling, Unslotted(r), lockLine)
    BY <1>5 DEF SlotGranted, SlotTimeout
  <2>2. CASE lockLine' = lockLine
    BY <2>2 DEF LocksDo
  <2> QED BY <1>1, <1>3, <2>1, <2>2
<1>6. CASE CreateFails(r)
  <2>1. req[r].pc = "creating"
    BY <1>6 DEF CreateFails
  <2>2. PICK cool \in {cooling, cooling \union {req[r].account}} :
          lockLine' = lockLine \/ NextAccount(r, req[r], cool, Unslotted(r), lockLine)
    BY <1>6 DEF CreateFails
  <2>3. cool \in SUBSET Account
    BY <1>1, <2>1
  <2>4. CASE lockLine' = lockLine
    BY <2>4 DEF LocksDo
  <2> QED BY <1>3, <2>2, <2>3, <2>4
<1>7. CASE Retry(r)
  <2>1. req[r].pc = "retrying"
    BY <1>7 DEF Retry
  <2>2. PICK cool \in {cooling, cooling \union {req[r].account}} :
          \/ Ends(r)
          \/ \E force \in BOOLEAN :
               FirstAccount(r, [Snapshot(req[r], force) EXCEPT !.lock = None], cool, Unlocked(r))
    BY <1>7 DEF Retry, UnlockedForRetry
  <2>3. cool \in SUBSET Account
    BY <1>1, <2>1
  <2>4. CASE Ends(r)
    BY <2>4 DEF Ends, LocksDo
  <2>5. ASSUME NEW force \in BOOLEAN,
               FirstAccount(r, [Snapshot(req[r], force) EXCEPT !.lock = None], cool, Unlocked(r))
        PROVE  LocksDo(r)
    <3>1. PICK k : k = Snapshot(req[r], force)
      OBVIOUS
    <3>2. k \in Local
      BY <1>1, <3>1, SnapshotProperties
    <3>3. PICK l : l = [k EXCEPT !.lock = None]
      OBVIOUS
    <3>4. l \in Local
      BY <3>2, <3>3 DEF Local
    <3>5. FirstAccount(r, l, cool, Unlocked(r))
      BY <2>5, <3>1, <3>3
    <3>6. Ends(r) \/ QueuesWith(r, l, slotLine, Unlocked(r))
      BY <2>3, <3>4, <3>5, FirstAccountOutcome
    <3> QED BY <3>6, OutcomeLocks
  <2> QED BY <2>2, <2>4, <2>5
<1> QED BY <1>4, <1>5, <1>6, <1>7

LEMMA CreatedLocks ==
  ASSUME IInv, NEW r \in Request, NEW c \in Chat \union {None},
         req[r].pc = "creating", Created(r, c)
  PROVE  LocksDo(r)
<1>1. /\ req[r] \in Local /\ LockIsNamed(r) /\ req[r].session \in Session
      /\ thread \in [Session -> Thread \union {None}] /\ req[r].account \in Account
  BY DEF IInv, TypeOK, RequestOK, SlotIsNamed, ChatsAreKnown, Using
<1>2. PICK l : l = [req[r] EXCEPT !.chat = c, !.snap = None, !.tried = {},
                                  !.verified = FALSE, !.reduced = FALSE]
  OBVIOUS
<1>3. l.retries = req[r].retries /\ l.account = req[r].account /\ l.session = req[r].session
  BY <1>1, <1>2 DEF Local
<1>4. PICK t : t = IF c = None THEN thread[l.session]
                   ELSE [account |-> l.account, chat |-> c]
  OBVIOUS
<1>5. t \in Thread \union {None}
  BY <1>1, <1>3, <1>4 DEF Thread
<1>6. PICK wanted : wanted = IF t = None THEN None ELSE t.chat
  OBVIOUS
<1>7. wanted \in Chat \union {None}
  BY <1>5, <1>6 DEF Thread
<1>8. HasStream(r, l, wanted)
  BY <1>2, <1>3, <1>4, <1>6 DEF Created
<1>9. CASE Ends(r) \/ lockLine' = lockLine
  BY <1>9 DEF Ends, LocksDo
<1>10. CASE /\ l.retries # MaxRetries /\ wanted # None
            /\ lockLine' = [lockLine EXCEPT ![wanted] = Append(@, r)]
  <2>1. req[r].lock = None /\ wanted \in Chat
    BY <1>1, <1>3, <1>7, <1>10 DEF LockIsNamed
  <2> QED BY <1>10, <2>1 DEF LocksDo
<1> QED BY <1>8, <1>9, <1>10 DEF HasStream

LEMMA CreateLocks ==
  ASSUME IInv, NEW r \in Request,
         CreateOnThreadChat(r) \/ CreateOnNewChat(r) \/ CreateOnPage(r)
  PROVE  LocksDo(r)
<1>1. req[r] \in Local /\ req[r].pc = "creating"
  BY DEF IInv, RequestOK, CreateOnThreadChat, CreateOnNewChat, CreateOnPage
<1>2. Reusable(req[r]) => req[r].snap.chat \in Chat
  <2>1. SUFFICES ASSUME Reusable(req[r]) PROVE req[r].snap.chat \in Chat
    OBVIOUS
  <2>2. req[r].snap \in Thread
    BY <1>1, <2>1 DEF Local, Reusable
  <2> QED BY <2>2 DEF Thread
<1>3. CASE CreateOnThreadChat(r)
  BY <1>1, <1>2, <1>3, CreatedLocks DEF CreateOnThreadChat
<1>4. CASE CreateOnNewChat(r)
  <2>1. PICK fresh : fresh = {c \in Chat : Fresh(c) /\ Home[c] = req[r].account}
    OBVIOUS
  <2>2. PICK c : c = CHOOSE x \in fresh : TRUE
    OBVIOUS
  <2>3. fresh # {} /\ Created(r, c)
    BY <1>4, <2>1, <2>2 DEF CreateOnNewChat
  <2>4. c \in Chat
    BY <2>1, <2>2, <2>3
  <2> QED BY <1>1, <2>3, <2>4, CreatedLocks
<1>5. CASE CreateOnPage(r)
  <2>1. PICK c : c = IF Reusable(req[r]) THEN req[r].snap.chat ELSE None
    OBVIOUS
  <2>2. c \in Chat \union {None} /\ Created(r, c)
    BY <1>2, <1>5, <2>1 DEF CreateOnPage
  <2> QED BY <1>1, <2>2, CreatedLocks
<1> QED BY <1>3, <1>4, <1>5

LEMMA NextLocks ==
  ASSUME IInv, Next
  PROVE  \/ \E r \in Request : LocksDo(r)
         \/ lockLine' = lockLine
<1>1. CASE \E r \in Request, s \in Session : Start(r, s)
  BY <1>1, StartLocks
<1>2. ASSUME NEW r \in Request, Progress(r) \/ ResponseCreated(r) \/ ClientAborts(r)
      PROVE  LocksDo(r)
  <2>1. CASE LockGranted(r) \/ LockGrantedAgain(r) \/ ChatDoesNotExist(r) \/ ResponseCreated(r)
    BY <2>1 DEF LockGranted, LockGrantedAgain, ChatDoesNotExist, ResponseCreated, LocksDo
  <2>2. CASE LockTimeout(r) \/ StreamEnds(r) \/ AbortNoticed(r)
    BY <2>2 DEF LockTimeout, StreamEnds, AbortNoticed, Ends, LocksDo
  <2>3. CASE StreamRetries(r) \/ ClientAborts(r)
    BY <2>3 DEF StreamRetries, ClientAborts, Ends, LocksDo
  <2>4. CASE Acquire(r) \/ Reduced(r) \/ SlotGranted(r) \/ SlotTimeout(r) \/ CreateFails(r)
               \/ Retry(r)
    BY <2>4, LoopLocks
  <2>5. CASE CreateOnThreadChat(r) \/ CreateOnPage(r) \/ CreateOnNewChat(r)
    BY <2>5, CreateLocks
  <2> QED BY <1>2, <2>1, <2>2, <2>3, <2>4, <2>5 DEF Progress
<1>3. CASE \E a \in Account : CooldownExpires(a)
  BY <1>3 DEF CooldownExpires
<1> QED BY <1>1, <1>2, <1>3 DEF Next

(* What requests do with the chat locks is what ChatLine allows: a request  *)
(* asks for a lock only when it stands in no line, through every retry, and *)
(* leaves the one it stands in once.                                       *)
THEOREM LocksFollowLine == Spec => LocksFollowTheLine
<1>1. Init => Line!LineInit
  BY DEF Init, Line!LineInit
<1>2. IInv /\ [Next]_vars => [Line!LineNext]_lockLine
  <2>1. SUFFICES ASSUME IInv, [Next]_vars PROVE Line!LineNext \/ lockLine' = lockLine
    OBVIOUS
  <2>2. CASE UNCHANGED vars
    BY <2>2 DEF vars
  <2>3. CASE Next
    BY <2>1, <2>3, NextLocks, LocksDoFollowsLine
  <2> QED BY <2>1, <2>2, <2>3
<1> QED BY RequestInvariant, <1>1, <1>2, PTL DEF Spec, LocksFollowTheLine, Line!LineSpec
-----------------------------------------------------------------------------
(* Passing the answer on to the client: the text.                          *)
(*                                                                         *)
(* These are proofs about ClientStream, what becomes of a request whose     *)
(* stream is there; it shares no variable with ChatRequest.  They hold for  *)
(* any answers, retries and size of the events, and for any cut of them.    *)

(* The least index, or 0.                                                 *)
LEMMA LeastType ==
  ASSUME NEW S \in SUBSET Nat
  PROVE  (S = {} /\ Least(S) = 0) \/ Least(S) \in S
  BY LeastNumber DEF Least

(* Where a tag is found there is room for it. *)
LEMMA IndexOfType ==
  ASSUME NEW A, NEW b \in Seq(A), NEW tag, Len(tag) \in Nat
  PROVE  IndexOf(b, tag) = 0 \/ (IndexOf(b, tag) \in 1 .. Len(b)
                                   /\ IndexOf(b, tag) + Len(tag) - 1 <= Len(b))
<1> DEFINE S == {i \in 1 .. Len(b) : At(b, i, tag)}
<1>1. S \in SUBSET Nat /\ IndexOf(b, tag) = Least(S)
  BY DEF IndexOf
<1>2. \A i \in S : i \in 1 .. Len(b) /\ i + Len(tag) - 1 <= Len(b)
  BY DEF At
<1> HIDE DEF S
<1> QED BY <1>1, <1>2, LeastType

(* The pieces that the filters make of a text are texts.                    *)
LEMMA UptoType ==
  ASSUME NEW A, NEW b \in Seq(A), NEW n \in Int, n <= Len(b)
  PROVE  Upto(b, n) \in Seq(A)
  BY PieceType DEF Upto

LEMMA FromType ==
  ASSUME NEW A, NEW b \in Seq(A), NEW m \in Nat \ {0}
  PROVE  From(b, m) \in Seq(A)
<1>1. Len(b) \in Int /\ Len(b) <= Len(b)
  OBVIOUS
<1> QED BY <1>1, PieceType DEF From

LEMMA TrimmedType ==
  ASSUME NEW A, NEW s \in Seq(A)
  PROVE  Trimmed(s) \in Seq(A)
<1> DEFINE solid == {i \in 1..Len(s) : s[i] # "nl"}
<1>1. CASE solid = {}
  BY <1>1 DEF Trimmed
<1>2. CASE solid # {}
  <2>1. Len(s) \in Nat /\ solid \in SUBSET Nat /\ solid \in SUBSET (0 .. Len(s))
    OBVIOUS
  <2>2. Min(solid) \in solid /\ Max(solid) \in solid
    BY <1>2, <2>1, LeastNumber, GreatestNumber
  <2>3. Min(solid) \in Nat \ {0} /\ Max(solid) \in Int /\ Max(solid) <= Len(s)
    BY <2>2
  <2>4. Trimmed(s) = SubSeq(s, Min(solid), Max(solid))
    BY <1>2 DEF Trimmed
  <2> HIDE DEF solid
  <2> QED BY <2>3, <2>4, PieceType
<1> QED BY <1>1, <1>2

LEMMA NormalizedType ==
  ASSUME NEW A, NEW c \in Seq(A)
  PROVE  /\ Normalized(c).content \in Seq(A)
         /\ Normalized(c).orphan \in BOOLEAN
<1> DEFINE close == IndexOf(c, ThinkClose)
<1>1. Len(ThinkClose) = 2 /\ Len(ThinkClose) \in Nat
  BY DEF ThinkClose
<1>2. close \in 0 .. Len(c)
  BY <1>1, IndexOfType
<1>3. close - 1 \in Int /\ close - 1 <= Len(c) /\ close + 2 \in Nat \ {0}
  BY <1>2
<1> HIDE DEF close
<1>4. Trimmed(Upto(c, close - 1)) \in Seq(A) /\ Trimmed(From(c, close + 2)) \in Seq(A)
  BY <1>3, UptoType, FromType, TrimmedType
<1> QED BY <1>4 DEF Normalized, close

LEMMA DeltaType ==
  ASSUME NEW A, NEW old \in Seq(A), NEW new \in Seq(A)
  PROVE  Delta(old, new).delta \in Seq(A) /\ Delta(old, new).matched \in Seq(A)
<1>1. Len(old) + 1 \in Nat \ {0}
  OBVIOUS
<1>2. From(new, Len(old) + 1) \in Seq(A) /\ old \o new \in Seq(A)
  BY <1>1, FromType
<1> QED BY <1>2 DEF Delta

(* What a sanitizer holds and gives out. *)
Sanitizer(A) == [held : Seq(A), inside : BOOLEAN, text : Seq(A), reasoning : Seq(A)]

(* A turn of the sanitizer's loop, the loop, an event and the end.         *)
LEMMA SanitizeOnceType ==
  ASSUME NEW A, NEW s \in Sanitizer(A)
  PROVE  SanitizeOnce(s) \in Sanitizer(A)
<1> DEFINE open == IndexOf(s.held, ThinkOpen)
           close == IndexOf(s.held, ThinkClose)
           keep == IF EndsIn(s.held, {"th", "ct"}) THEN 1 ELSE 0
<1>1. /\ s.held \in Seq(A) /\ s.inside \in BOOLEAN /\ s.text \in Seq(A) /\ s.reasoning \in Seq(A)
      /\ Len(s.held) \in Nat
  BY DEF Sanitizer
<1>2. /\ Len(ThinkClose) = 2 /\ Len(ThinkClose) \in Nat
      /\ Len(ThinkOpen) = 2 /\ Len(ThinkOpen) \in Nat
  BY DEF ThinkClose, ThinkOpen
<1>3. close \in 0 .. Len(s.held) /\ open \in 0 .. Len(s.held) /\ keep \in {0, 1}
  BY <1>1, <1>2, IndexOfType
<1>4. keep = 1 => Len(s.held) # 0
  BY <1>1 DEF EndsIn
<1> HIDE DEF open, close, keep
<1>5. /\ Upto(s.held, close - 1) \in Seq(A) /\ Upto(s.held, open - 1) \in Seq(A)
      /\ Upto(s.held, Len(s.held) - keep) \in Seq(A)
      /\ From(s.held, close + 2) \in Seq(A) /\ From(s.held, open + 2) \in Seq(A)
  <2>1. /\ close - 1 \in Int /\ close - 1 <= Len(s.held)
        /\ open - 1 \in Int /\ open - 1 <= Len(s.held)
        /\ Len(s.held) - keep \in Int /\ Len(s.held) - keep <= Len(s.held)
        /\ close + 2 \in Nat \ {0} /\ open + 2 \in Nat \ {0}
    BY <1>1, <1>3
  <2>2. PICK b : b = s.held
    OBVIOUS
  <2> QED BY <1>1, <2>1, <2>2, UptoType, FromType
<1>6. From(s.held, Len(s.held) - keep + 1) \in Seq(A)
  BY <1>1, <1>3, <1>4, FromType
<1>7. PICK d : d = SanitizeOnce(s)
  OBVIOUS
<1>8. /\ s.reasoning \o Upto(s.held, close - 1) \in Seq(A)
      /\ s.text \o Upto(s.held, close - 1) \in Seq(A)
      /\ s.text \o Upto(s.held, open - 1) \in Seq(A)
      /\ s.text \o Upto(s.held, Len(s.held) - keep) \in Seq(A)
  BY <1>1, <1>5
<1>9. \/ d = s
      \/ d = [s EXCEPT !.reasoning = @ \o Upto(s.held, close - 1),
                       !.held = From(@, close + 2), !.inside = FALSE]
      \/ d = [s EXCEPT !.text = @ \o Upto(s.held, close - 1), !.held = From(@, close + 2)]
      \/ d = [s EXCEPT !.text = @ \o Upto(s.held, open - 1),
                       !.held = From(@, open + 2), !.inside = TRUE]
      \/ d = [s EXCEPT !.text = @ \o Upto(s.held, Len(s.held) - keep),
                       !.held = From(@, Len(@) - keep + 1)]
  BY <1>7, Zenon DEF SanitizeOnce, open, close, keep
<1> QED BY <1>5, <1>6, <1>7, <1>8, <1>9 DEF Sanitizer

(* The states f of the loop that begins with s. *)
LoopOf(f, s) ==
  f[0] = s /\ \A i \in 1 .. Len(s.held) : f[i] = SanitizeOnce(f[i - 1])

(* The turns of the sanitizer's loop. *)
LEMMA SanitizeTurns ==
  ASSUME NEW A, NEW s \in Sanitizer(A)
  PROVE  \E f : LoopOf(f, s) /\ Sanitize(s) = f[Len(s.held)]
<1> DEFINE N == Len(s.held)
           IsTurns(g) == g = [n \in 0..N |-> IF n = 0 THEN s ELSE SanitizeOnce(g[n - 1])]
           turns == CHOOSE g : IsTurns(g)
           F == [n \in 0..N |-> [q \in Sanitizer(A) |-> SanitizeOnce(q)]]
<1>1. Sanitize(s) = turns[N]
  BY DEF Sanitize
<1>2. N \in Nat /\ 0 \in Nat /\ 0 <= N
  BY DEF Sanitizer
<1>3. F \in [0..N -> [Sanitizer(A) -> Sanitizer(A)]]
  BY SanitizeOnceType
<1>4. \E g : IsRecursion(g, 0, N, Sanitizer(A), s, F)
  BY <1>2, <1>3, RecursionExists, Zenon
<1>5. PICK g \in [0..N -> Sanitizer(A)] : \A i \in 0..N : g[i] = IF i = 0 THEN s ELSE F[i][g[i - 1]]
  BY <1>4 DEF IsRecursion
<1>6. IsTurns(g)
  <2>1. ASSUME NEW i \in 0..N
        PROVE  g[i] = IF i = 0 THEN s ELSE SanitizeOnce(g[i - 1])
    <3>1. i = 0 \/ i - 1 \in 0..N
      BY <1>2
    <3>2. i = 0 \/ g[i - 1] \in Sanitizer(A)
      BY <1>5, <3>1
    <3>3. i = 0 \/ F[i][g[i - 1]] = SanitizeOnce(g[i - 1])
      BY <3>2
    <3> QED BY <1>5, <3>3
  <2>2. DOMAIN g = 0..N /\ g = [i \in 0..N |-> g[i]]
    OBVIOUS
  <2> HIDE DEF F, N
  <2> QED BY <2>1, <2>2
<1>7. PICK f : IsTurns(f) /\ f = turns
  <2> HIDE DEF IsTurns
  <2> QED BY <1>6
<1>8. f[0] = s /\ \A n \in 1..N : f[n] = SanitizeOnce(f[n - 1])
  <2> HIDE DEF N
  <2> QED BY <1>2, <1>7
<1>9. Sanitize(s) = f[N]
  BY <1>1, <1>7, Zenon
<1>10. LoopOf(f, s)
  BY <1>8 DEF LoopOf
<1> HIDE DEF turns, IsTurns
<1> QED BY <1>9, <1>10

LEMMA SanitizeType ==
  ASSUME NEW A, NEW s \in Sanitizer(A)
  PROVE  Sanitize(s) \in Sanitizer(A)
<1>1. PICK N \in Nat : N = Len(s.held)
  BY DEF Sanitizer
<1>2. PICK f : LoopOf(f, s) /\ Sanitize(s) = f[N]
  BY <1>1, SanitizeTurns
<1>3. f[0] = s /\ \A n \in 1 .. N : f[n] = SanitizeOnce(f[n - 1])
  BY <1>1, <1>2 DEF LoopOf
<1>4. \A n \in 0 + 1 .. N : f[n - 1] \in Sanitizer(A) => f[n] \in Sanitizer(A)
  BY <1>3, SanitizeOnceType
<1>5. 0 \in Nat /\ 0 <= N /\ N \in 0 .. N
  BY <1>1
<1>6. \A n \in 0 .. N : f[n] \in Sanitizer(A)
  BY <1>1, <1>3, <1>4, <1>5, RecursionStays
<1> QED BY <1>2, <1>5, <1>6

LEMMA SanitizerFeedType ==
  ASSUME NEW A, NEW s \in Sanitizer(A), NEW chunk \in Seq(A)
  PROVE  SanitizerFeed(s, chunk) \in Sanitizer(A)
<1>1. s.held \o chunk \in Seq(A) /\ <<>> \in Seq(A)
  BY DEF Sanitizer
<1>2. [s EXCEPT !.held = @ \o chunk, !.text = <<>>, !.reasoning = <<>>] \in Sanitizer(A)
  BY <1>1 DEF Sanitizer
<1> QED BY <1>2, SanitizeType DEF SanitizerFeed

LEMMA SanitizerFlushType ==
  ASSUME NEW A, NEW s \in Sanitizer(A), {"th", "nk"} \subseteq A
  PROVE  SanitizerFlush(s).text \in Seq(A)
<1>1. s.held \in Seq(A) /\ s.inside \in BOOLEAN
  BY DEF Sanitizer
<1>2. ThinkOpen \o s.held \in Seq(A)
  BY <1>1 DEF ThinkOpen
<1>3. s.held # <<>> => Front(s.held) \in Seq(A)
  <2>1. Len(s.held) - 1 \in Int /\ Len(s.held) - 1 <= Len(s.held) /\ 1 \in Nat \ {0}
    BY <1>1
  <2> QED BY <1>1, <2>1, PieceType DEF Front
<1> QED BY <1>1, <1>2, <1>3 DEF SanitizerFlush, NewSanitizer

(* What answers are made of is text.                                       *)
LEMMA CallAtoms == /\ {"callA", "callB", "callU"} \subseteq Atom
                   /\ {"w", "nl", "tick", "lt", "lc", "gt", "end", "orphan", "section",
                       "corrupt", "th", "ct", "nk"} \subseteq Atom
  BY StreamAssumption DEF Atom, Calls

LEMMA ItemType ==
  ASSUME NEW x \in DOMAIN Item
  PROVE  Item[x] \in Seq(Atom)
<1> USE CallAtoms
<1>1. /\ OpenTag \in Seq(Atom) /\ CloseTag \in Seq(Atom) /\ Fence \in Seq(Atom)
      /\ ThinkOpen \in Seq(Atom) /\ ThinkClose \in Seq(Atom)
      /\ <<"w">> \in Seq(Atom) /\ <<"nl">> \in Seq(Atom) /\ <<"tick">> \in Seq(Atom)
      /\ <<"orphan">> \in Seq(Atom) /\ <<"section">> \in Seq(Atom) /\ <<"corrupt">> \in Seq(Atom)
      /\ <<"callA", "end">> \in Seq(Atom) /\ <<"callB", "end">> \in Seq(Atom)
      /\ <<"callU", "end">> \in Seq(Atom)
      /\ <<"callA", "end", "nl", "callB", "end">> \in Seq(Atom)
  BY DEF OpenTag, CloseTag, Fence, ThinkOpen, ThinkClose
<1>2. \A p, q \in Seq(Atom) : p \o q \in Seq(Atom)
  OBVIOUS
<1>3. /\ Tagged("callA") \in Seq(Atom) /\ Tagged("callB") \in Seq(Atom)
      /\ Tagged("callU") \in Seq(Atom)
  BY <1>1, <1>2 DEF Tagged
<1>4. \A p \in Seq(Atom) : Fenced(p) \in Seq(Atom)
  BY <1>1, <1>2 DEF Fenced
<1>5. /\ <<"tick">> \o OpenTag \o <<"tick">> \in Seq(Atom)
      /\ ThinkOpen \o <<"w">> \o ThinkClose \in Seq(Atom)
      /\ OpenTag \o <<"callA", "end", "nl", "callB", "end">> \o CloseTag \in Seq(Atom)
      /\ <<"callA", "end">> \o CloseTag \in Seq(Atom)
      /\ OpenTag \o CloseTag \in Seq(Atom)
      /\ OpenTag \o <<"w">> \o CloseTag \in Seq(Atom)
      /\ Fenced(Tagged("callU")) \in Seq(Atom) /\ Fenced(<<"callA", "end">>) \in Seq(Atom)
  BY <1>1, <1>2, <1>3, <1>4
<1>6. DOMAIN Item = {"word", "mention", "example", "thought", "callA", "callB", "pair",
                     "unopened", "raw", "fenced", "unknown", "rawUnknown", "empty", "junk",
                     "orphan", "section", "corrupt"}
  BY DEF Item
<1>7. /\ Item["word"] \in Seq(Atom) /\ Item["mention"] \in Seq(Atom)
      /\ Item["example"] \in Seq(Atom) /\ Item["thought"] \in Seq(Atom)
      /\ Item["callA"] \in Seq(Atom) /\ Item["callB"] \in Seq(Atom)
      /\ Item["pair"] \in Seq(Atom) /\ Item["unopened"] \in Seq(Atom)
      /\ Item["raw"] \in Seq(Atom) /\ Item["fenced"] \in Seq(Atom)
  BY <1>1, <1>3, <1>5 DEF Item
<1>8. /\ Item["unknown"] \in Seq(Atom) /\ Item["rawUnknown"] \in Seq(Atom)
      /\ Item["empty"] \in Seq(Atom) /\ Item["junk"] \in Seq(Atom)
      /\ Item["orphan"] \in Seq(Atom) /\ Item["section"] \in Seq(Atom)
      /\ Item["corrupt"] \in Seq(Atom)
  BY <1>1, <1>3, <1>5 DEF Item
<1> QED BY <1>6, <1>7, <1>8

LEMMA TextOfType ==
  ASSUME NEW items \in Answers
  PROVE  TextOf(items) \in Seq(Atom)
<1>1. items \in Seq(DOMAIN Item)
  BY StreamAssumption
<1> DEFINE pieces == [i \in 1..Len(items) |-> (IF i = 1 THEN <<>> ELSE <<"nl">>) \o Item[items[i]]]
<1>2. ASSUME NEW i \in 1..Len(items)
      PROVE  (IF i = 1 THEN <<>> ELSE <<"nl">>) \o Item[items[i]] \in Seq(Atom)
  <2>1. items[i] \in DOMAIN Item
    BY <1>1
  <2>2. Item[items[i]] \in Seq(Atom)
    BY <2>1, ItemType
  <2>3. (IF i = 1 THEN <<>> ELSE <<"nl">>) \in Seq(Atom)
    BY CallAtoms
  <2> QED BY <2>2, <2>3
<1>3. Len(items) \in Nat
  BY <1>1
<1>4. pieces \in Seq(Seq(Atom))
  BY <1>2, <1>3
<1> QED BY <1>4, FlattenSeqType DEF TextOf

-----------------------------------------------------------------------------
(* The handler *)

(* The handler l: its record, and what it has read is text.  Without tools  *)
(* the parser is where that text is gathered.                              *)
Reading(l) ==
  /\ DOMAIN l = {"pc", "attempt", "raw", "sanitizer", "parser", "reasoning", "target",
                 "noticed"}
  /\ l.raw \in Seq(Atom) /\ l.sanitizer \in Sanitizer(Atom)
  /\ ~tools => /\ l.parser = [NewParser EXCEPT !.text = l.parser.text]
               /\ l.parser.text \in Seq(Atom)

ClientRecord(c) ==
  /\ DOMAIN c = {"status", "finish", "message"}
  /\ DOMAIN c.message = {"text", "calls", "reasoning"}

(* The phases of the handler l, with the client c, the registry and the     *)
(* lock: only a live response begins before its answer is complete.        *)
PhaseOK(l, c, r, h) ==
  /\ r \subseteq {l.attempt}
  /\ l.pc \in {"preread", "reading", "acquiring", "ended"}
  /\ l.pc = "preread" => Live /\ c.status = "waiting" /\ c.message.text = l.parser.text
  /\ l.pc = "reading" => IF Live THEN c.status # "waiting" /\ c.message.text = l.parser.text
                                 ELSE c.status = "waiting"
  /\ l.pc = "acquiring" => ~Live /\ c.status = "waiting" /\ r = {}
  /\ l.pc = "ended" => ~h /\ (r # {} => Live /\ c.status = "refused")

StreamInv ==
  /\ source \in {"page", "fetch"} /\ stream \in BOOLEAN /\ tools \in BOOLEAN
  /\ answer \in Answers
  /\ up \in [at : Nat, aborted : BOOLEAN, chat : {"asked", "new"}]
  /\ Reading(local) /\ ClientRecord(client)
  /\ PhaseOK(local, client, registry, held)

(* A new handler has read nothing.                                         *)
LEMMA NewHandlerReads ==
  ASSUME NEW pc, NEW n, {"th", "nk"} \subseteq Atom
  PROVE  /\ Reading(NewHandler(pc, n)) /\ NewHandler(pc, n).parser.text = <<>>
         /\ NewHandler(pc, n).pc = pc /\ NewHandler(pc, n).attempt = n
<1>1. /\ NewSanitizer \in Sanitizer(Atom) /\ NewParser.text = <<>>
      /\ NewParser = [NewParser EXCEPT !.text = NewParser.text]
  BY DEF NewSanitizer, Sanitizer, NewParser
<1>2. PICK h : h = NewHandler(pc, n)
  OBVIOUS
<1>3. /\ h.parser = NewParser /\ h.sanitizer = NewSanitizer /\ h.raw = <<>>
      /\ h.pc = pc /\ h.attempt = n
      /\ DOMAIN h = {"pc", "attempt", "raw", "sanitizer", "parser", "reasoning", "target",
                     "noticed"}
  BY <1>2 DEF NewHandler
<1>4. h.parser.text = <<>> /\ h.parser = [NewParser EXCEPT !.text = h.parser.text]
  BY <1>1, <1>3
<1>5. /\ h.raw \in Seq(Atom) /\ h.parser.text \in Seq(Atom)
      /\ h.sanitizer \in Sanitizer(Atom)
  <2>1. <<>> \in Seq(Atom)
    OBVIOUS
  <2>2. h.raw \in Seq(Atom) /\ h.parser.text \in Seq(Atom)
    BY <1>3, <1>4, <2>1, Zenon
  <2>3. h.sanitizer \in Sanitizer(Atom)
    BY <1>1, <1>3, Zenon
  <2> QED BY <2>2, <2>3
<1>6. Reading(h)
  BY <1>3, <1>4, <1>5 DEF Reading
<1> QED BY <1>2, <1>3, <1>4, <1>6

LEMMA StreamInitially == StreamInit => StreamInv
<1> SUFFICES ASSUME StreamInit PROVE StreamInv
  OBVIOUS
<1>1. Reading(local) /\ local.parser.text = <<>> /\ local.pc = Started /\ local.attempt = 0
  BY NewHandlerReads, CallAtoms DEF StreamInit
<1>2. ClientRecord(client) /\ client.status = "waiting" /\ client.message.text = <<>>
  BY DEF StreamInit, ClientRecord, Message
<1>3. PhaseOK(local, client, registry, held)
  BY <1>1, <1>2 DEF PhaseOK, Started, StreamInit
<1>4. up \in [at : Nat, aborted : BOOLEAN, chat : {"asked", "new"}]
  BY DEF StreamInit, Upstream
<1> QED BY <1>1, <1>2, <1>3, <1>4 DEF StreamInv, StreamInit

(* What an event adds to what a handler without tools has read. *)
LEMMA ConsumedType ==
  ASSUME StreamInv, NEW content \in Seq(Atom)
  PROVE  /\ Reading(Consumed(content))
         /\ Consumed(content).pc = local.pc /\ Consumed(content).attempt = local.attempt
         /\ \E text \in Seq(Atom) :
              Consumed(content).parser \in {local.parser, Use(local.parser, text)}
         /\ ~tools => \E more \in Seq(Atom) :
              Consumed(content).parser.text = local.parser.text \o more
<1>1. PICK normal : normal = Normalized(content)
  OBVIOUS
<1>2. normal.content \in Seq(Atom) /\ normal.orphan \in BOOLEAN
  BY <1>1, NormalizedType
<1>3. local.raw \in Seq(Atom) /\ local.sanitizer \in Sanitizer(Atom) /\ Reading(local)
  BY DEF StreamInv, Reading
<1>4. PICK step : step = Delta(local.raw, normal.content)
  OBVIOUS
<1>5. step.delta \in Seq(Atom) /\ step.matched \in Seq(Atom)
  BY <1>2, <1>3, <1>4, DeltaType
<1>6. PICK waiting : waiting = IF normal.orphan THEN DiscardPendingOrphanClose(local.sanitizer)
                               ELSE local.sanitizer
  OBVIOUS
<1>7. waiting \in Sanitizer(Atom)
  <2>1. DiscardPendingOrphanClose(local.sanitizer) \in Sanitizer(Atom)
    <3>1. PICK s : s = local.sanitizer
      OBVIOUS
    <3>2. s.held \in Seq(Atom) /\ s \in Sanitizer(Atom)
      BY <1>3, <3>1 DEF Sanitizer
    <3>3. Len(s.held) - 1 \in Int /\ Len(s.held) - 1 <= Len(s.held) /\ 1 \in Nat \ {0}
      BY <3>2
    <3>4. Front(s.held) \in Seq(Atom)
      BY <3>2, <3>3, PieceType DEF Front
    <3>5. [s EXCEPT !.held = Front(@)] \in Sanitizer(Atom)
      BY <3>2, <3>4 DEF Sanitizer
    <3> QED BY <3>1, <3>2, <3>5 DEF DiscardPendingOrphanClose
  <2> QED BY <1>3, <1>6, <2>1
<1>8. PICK fed : fed = IF step.delta = <<>> THEN waiting ELSE SanitizerFeed(waiting, step.delta)
  OBVIOUS
<1>9. fed \in Sanitizer(Atom) /\ fed.text \in Seq(Atom)
  <2>1. fed \in Sanitizer(Atom)
    BY <1>5, <1>7, <1>8, SanitizerFeedType
  <2> QED BY <2>1 DEF Sanitizer
<1>10. PICK used : used = IF step.delta = <<>> THEN local.parser ELSE Use(local.parser, fed.text)
  OBVIOUS
<1>11. PICK raw : raw = IF normal.orphan THEN normal.content ELSE step.matched
  OBVIOUS
<1>12. PICK reasoning : reasoning = IF step.delta = <<>> THEN local.reasoning
                                    ELSE local.reasoning \o fed.reasoning
  OBVIOUS
<1>13. Consumed(content) = [local EXCEPT !.raw = raw, !.sanitizer = fed, !.parser = used,
                                         !.reasoning = reasoning]
  BY <1>1, <1>4, <1>6, <1>8, <1>10, <1>11, <1>12 DEF Consumed
<1>14. ~tools => \E more \in Seq(Atom) : used = [NewParser EXCEPT !.text = local.parser.text \o more]
  <2>1. SUFFICES ASSUME ~tools
                 PROVE  \E more \in Seq(Atom) :
                          used = [NewParser EXCEPT !.text = local.parser.text \o more]
    OBVIOUS
  <2>2. /\ local.parser = [NewParser EXCEPT !.text = local.parser.text]
        /\ local.parser.text \in Seq(Atom)
    BY <1>3, <2>1 DEF Reading
  <2>3. CASE used = local.parser
    <3>1. <<>> \in Seq(Atom) /\ local.parser.text = local.parser.text \o <<>>
      BY <2>2
    <3> QED BY <2>2, <2>3, <3>1
  <2>4. CASE used # local.parser
    <3>1. used = [local.parser EXCEPT !.text = local.parser.text \o fed.text]
      BY <1>10, <2>1, <2>4 DEF Use
    <3>2. used = [NewParser EXCEPT !.text = local.parser.text \o fed.text]
      BY <2>2, <3>1 DEF NewParser
    <3> QED BY <1>9, <3>2
  <2> QED BY <2>3, <2>4
<1>15. raw \in Seq(Atom)
  BY <1>2, <1>5, <1>11
<1>16. PICK l : l = Consumed(content)
  OBVIOUS
<1>17. /\ DOMAIN l = DOMAIN local /\ l.raw = raw /\ l.sanitizer = fed /\ l.parser = used
       /\ l.pc = local.pc /\ l.attempt = local.attempt
  BY <1>3, <1>13, <1>16 DEF Reading
<1>18. ~tools => \E more \in Seq(Atom) : l.parser.text = local.parser.text \o more
  BY <1>14, <1>17 DEF NewParser
<1>19. ~tools => /\ l.parser = [NewParser EXCEPT !.text = l.parser.text]
                 /\ l.parser.text \in Seq(Atom)
  <2>1. SUFFICES ASSUME ~tools
                 PROVE  /\ l.parser = [NewParser EXCEPT !.text = l.parser.text]
                        /\ l.parser.text \in Seq(Atom)
    OBVIOUS
  <2>2. PICK more \in Seq(Atom) : used = [NewParser EXCEPT !.text = local.parser.text \o more]
    BY <1>14, <2>1
  <2>3. local.parser.text \o more \in Seq(Atom)
    BY <1>3, <2>1 DEF Reading
  <2> QED BY <1>17, <2>2, <2>3 DEF NewParser
<1>20. Reading(l)
  BY <1>3, <1>9, <1>15, <1>17, <1>19 DEF Reading
<1>21. PICK text \in Seq(Atom) : text = fed.text
  BY <1>9
<1>22. l.parser \in {local.parser, Use(local.parser, text)}
  BY <1>10, <1>17, <1>21
<1> QED BY <1>16, <1>17, <1>18, <1>20, <1>22

(* What a step does to the response, as OneAnswerPerResponse says. *)
OneAnswer ==
  client.status # "waiting" =>
    /\ local'.attempt = local.attempt
    /\ client' = client \/ IsPrefix(client.message.text, client'.message.text)

(* An event. *)
LEMMA ReadsStep ==
  ASSUME StreamInv, NEW n \in 1..MaxPiece, Reads(n)
  PROVE  StreamInv' /\ OneAnswer
<1> DEFINE content == IF source = "page" THEN Upto(Text, up.at + n)
                      ELSE SubSeq(Text, up.at + 1, up.at + n)
           after == IF IsOfTarget THEN [Consumed(content) EXCEPT !.target = Targeted.target]
                    ELSE local
<1>1. /\ local.pc = "reading" /\ up.at + n <= Len(Text)
      /\ up' = [up EXCEPT !.at = @ + n] /\ local' = after
      /\ client' = IF Live THEN [client EXCEPT !.message = Seen(after)] ELSE client
      /\ UNCHANGED <<given, answer, registry, held>>
  BY DEF Reads
<1>2. up.at \in Nat /\ n \in Nat /\ answer \in Answers
  BY StreamAssumption DEF StreamInv
<1>3. content \in Seq(Atom)
  <2>1. Text \in Seq(Atom)
    BY <1>2, TextOfType DEF Text
  <2>2. /\ up.at + 1 \in Nat \ {0} /\ up.at + n \in Int /\ up.at + n <= Len(Text)
    BY <1>1, <1>2
  <2> QED BY <2>1, <2>2, PieceType, UptoType
<1> HIDE DEF content
<1>4. PICK c : c = Consumed(content)
  OBVIOUS
<1>5. Reading(c) /\ c.pc = local.pc /\ c.attempt = local.attempt
  BY <1>3, <1>4, ConsumedType
<1>6. Reading(local)
  BY DEF StreamInv
<1>7. PICK l : l = local' /\ l \in {[c EXCEPT !.target = Targeted.target], local}
  BY <1>1, <1>4
<1>8. Reading(l) /\ l.pc = "reading" /\ l.attempt = local.attempt /\ l.parser \in {c.parser, local.parser}
  BY <1>1, <1>5, <1>6, <1>7 DEF Reading
<1>9. Reading(local)'
  BY <1>1, <1>7, <1>8 DEF Reading, given
<1>10. CASE Live
  <2>1. ~tools /\ client' = [client EXCEPT !.message = Seen(l)]
    BY <1>1, <1>7, <1>10 DEF Live
  <2>2. ClientRecord(client)
    BY DEF StreamInv
  <2>3. /\ ClientRecord(client') /\ client'.status = client.status
        /\ client'.message.text = l.parser.text
    BY <2>1, <2>2 DEF ClientRecord, Seen, Message
  <2>4. PICK more \in Seq(Atom) : c.parser.text = local.parser.text \o more
    BY <1>3, <1>4, <2>1, ConsumedType
  <2>5. local.parser.text \in Seq(Atom) /\ client.status # "waiting"
        /\ client.message.text = local.parser.text
    BY <1>1, <1>10, <2>1 DEF StreamInv, Reading, PhaseOK
  <2>6. \E rest \in Seq(Atom) : l.parser.text = local.parser.text \o rest
    <3>1. <<>> \in Seq(Atom) /\ local.parser.text = local.parser.text \o <<>>
      BY <2>5
    <3> QED BY <1>8, <2>4, <3>1
  <2>7. OneAnswer
    BY <1>7, <1>8, <2>3, <2>5, <2>6, PrefixOfLonger DEF OneAnswer
  <2>8. PhaseOK(l, client', registry, held)
    BY <1>8, <1>10, <2>3, <2>5 DEF StreamInv, PhaseOK
  <2> QED BY <1>1, <1>2, <1>7, <1>9, <2>3, <2>7, <2>8
          DEF StreamInv, ClientRecord, PhaseOK, Live, given
<1>11. CASE ~Live
  <2>1. client' = client /\ client.status = "waiting"
    BY <1>1, <1>11 DEF StreamInv, PhaseOK
  <2>2. PhaseOK(l, client, registry, held)
    BY <1>1, <1>8, <1>11, <2>1 DEF StreamInv, PhaseOK
  <2> QED BY <1>1, <1>2, <1>7, <1>9, <2>1, <2>2
          DEF StreamInv, ClientRecord, PhaseOK, Live, given, OneAnswer
<1> QED BY <1>10, <1>11

(* An attempt that ends, and how. *)
LEMMA ConcludesStep ==
  ASSUME StreamInv, NEW status, NEW message, NEW finish,
         Concludes(status, message, finish),
         DOMAIN message = {"text", "calls", "reasoning"},
         UNCHANGED <<given, answer>>,
         up' \in [at : Nat, aborted : BOOLEAN, chat : {"asked", "new"}],
         registry' \subseteq {local.attempt},
         registry' # {} => Live /\ status = "refused",
         client.status # "waiting" => IsPrefix(client.message.text, message.text)
  PROVE  StreamInv' /\ OneAnswer
<1>1. /\ local' = [local EXCEPT !.pc = "ended"] /\ ~held'
      /\ client' = [status |-> status, finish |-> finish, message |-> message]
  BY DEF Concludes
<1>2. Reading(local) /\ answer \in Answers
  BY DEF StreamInv
<1>3. /\ Reading(local)' /\ local'.pc = "ended" /\ local'.attempt = local.attempt
  BY <1>1, <1>2 DEF Reading, given
<1>4. ClientRecord(client') /\ client'.status = status /\ client'.message = message
  BY <1>1 DEF ClientRecord
<1>5. PhaseOK(local, client, registry, held)'
  BY <1>1, <1>3, <1>4 DEF PhaseOK, Live, given
<1>6. OneAnswer
  BY <1>3, <1>4 DEF OneAnswer
<1> QED BY <1>2, <1>3, <1>4, <1>5, <1>6 DEF StreamInv, given, ClientRecord

(* A step that leaves the handler, the response and the lock alone. *)
LEMMA AsideStep ==
  ASSUME StreamInv, UNCHANGED <<given, answer, client, held>>,
         local' = local \/ \E b : local' = [local EXCEPT !.noticed = b],
         registry' \subseteq registry,
         up' \in [at : Nat, aborted : BOOLEAN, chat : {"asked", "new"}]
  PROVE  StreamInv' /\ OneAnswer
<1>1. Reading(local) /\ answer \in Answers
  BY DEF StreamInv
<1>2. /\ local'.pc = local.pc /\ local'.attempt = local.attempt /\ local'.parser = local.parser
      /\ local'.raw = local.raw /\ local'.sanitizer = local.sanitizer
      /\ DOMAIN local' = DOMAIN local
  BY <1>1 DEF Reading
<1>3. Reading(local)'
  BY <1>1, <1>2 DEF Reading, given
<1>4. PhaseOK(local, client, registry, held)'
  BY <1>2 DEF StreamInv, PhaseOK, Live, given
<1>5. OneAnswer
  BY <1>2 DEF OneAnswer
<1> QED BY <1>3, <1>4, <1>5 DEF StreamInv, given, ClientRecord

(* The stream of an attempt has its type, whatever happens to it.          *)
LEMMA UpstreamKept ==
  ASSUME StreamInv
  PROVE  /\ up \in [at : Nat, aborted : BOOLEAN, chat : {"asked", "new"}]
         /\ [up EXCEPT !.chat = "new"] \in [at : Nat, aborted : BOOLEAN, chat : {"asked", "new"}]
         /\ \A b \in BOOLEAN : [up EXCEPT !.aborted = b]
                                 \in [at : Nat, aborted : BOOLEAN, chat : {"asked", "new"}]
  BY DEF StreamInv

(* What others do beside the handler.                                      *)
LEMMA PageMovesStep ==
  ASSUME StreamInv, PageMoves
  PROVE  StreamInv' /\ OneAnswer
<1>1. /\ UNCHANGED <<given, answer, client, held>> /\ local' = local /\ registry' \subseteq registry
      /\ up' = [up EXCEPT !.chat = "new"]
  BY DEF PageMoves
<1> QED BY <1>1, UpstreamKept, AsideStep

LEMMA ClientLeavesStep ==
  ASSUME StreamInv, ClientLeaves
  PROVE  StreamInv' /\ OneAnswer
<1>1. /\ UNCHANGED <<given, answer, client, held>> /\ registry' \subseteq registry
      /\ \E b : local' = [local EXCEPT !.noticed = b]
      /\ up' = [up EXCEPT !.aborted = TRUE]
  BY DEF ClientLeaves, Unregistered
<1> QED BY <1>1, UpstreamKept, AsideStep

LEMMA StopStep ==
  ASSUME StreamInv, StopAsked \/ \E a \in stops : StopAnswered(a) \/ StopRefused(a)
  PROVE  StreamInv' /\ OneAnswer
<1>1. /\ UNCHANGED <<given, answer, client, held>> /\ local' = local /\ registry' \subseteq registry
      /\ up' = up \/ \E b \in BOOLEAN : up' = [up EXCEPT !.aborted = b]
  <2>1. up.aborted \in BOOLEAN
    BY DEF StreamInv
  <2> QED BY <2>1 DEF StopAsked, StopAnswered, StopRefused
<1> QED BY <1>1, UpstreamKept, AsideStep

(* The response begins, or a retry does.                                   *)
LEMMA CommitsStep ==
  ASSUME StreamInv, Commits
  PROVE  StreamInv' /\ OneAnswer
<1>1. /\ local.pc = "preread" /\ local' = [local EXCEPT !.pc = "reading"]
      /\ client' = [client EXCEPT !.status = "open"]
      /\ UNCHANGED <<given, answer, up, registry, held>>
  BY DEF Commits
<1>2. Reading(local) /\ ClientRecord(client) /\ PhaseOK(local, client, registry, held)
  BY DEF StreamInv
<1>3. /\ Reading(local)' /\ local'.pc = "reading" /\ local'.attempt = local.attempt
      /\ local'.parser = local.parser
  BY <1>1, <1>2 DEF Reading, given
<1>4. ClientRecord(client') /\ client'.status = "open" /\ client'.message = client.message
  BY <1>1, <1>2 DEF ClientRecord
<1>5. PhaseOK(local, client, registry, held)'
  BY <1>1, <1>2, <1>3, <1>4 DEF PhaseOK, Live, given
<1>6. OneAnswer
  BY <1>1, <1>2 DEF PhaseOK, OneAnswer
<1> QED BY <1>1, <1>3, <1>4, <1>5, <1>6 DEF StreamInv, given, ClientRecord

LEMMA AcquiresStep ==
  ASSUME StreamInv, Acquires
  PROVE  StreamInv' /\ OneAnswer
<1>1. /\ local.pc = "acquiring" /\ answer' \in Answers /\ up' = Upstream
      /\ local' = NewHandler("reading", local.attempt + 1)
      /\ registry' = registry \union {local.attempt + 1}
      /\ UNCHANGED <<given, client>>
  BY DEF Acquires
<1>2. ClientRecord(client) /\ PhaseOK(local, client, registry, held)
  BY DEF StreamInv
<1>3. PICK h : h = NewHandler("reading", local.attempt + 1)
  OBVIOUS
<1>4. Reading(h) /\ h.pc = "reading" /\ h.attempt = local.attempt + 1
  BY <1>3, NewHandlerReads, CallAtoms
<1>5. Reading(local)'
  BY <1>1, <1>3, <1>4 DEF Reading, given
<1>6. PhaseOK(local, client, registry, held)'
  BY <1>1, <1>2, <1>3, <1>4 DEF PhaseOK, Live, given
<1>7. OneAnswer
  BY <1>1, <1>2 DEF PhaseOK, OneAnswer
<1>8. up' \in [at : Nat, aborted : BOOLEAN, chat : {"asked", "new"}]
  BY <1>1 DEF Upstream
<1> QED BY <1>1, <1>2, <1>5, <1>6, <1>7, <1>8 DEF StreamInv, given, ClientRecord

(* What the client of a live handler was sent is what the handler has read. *)
LEMMA SentIsRead ==
  ASSUME StreamInv, client.status # "waiting", local.pc # "ended"
  PROVE  /\ Live /\ ~tools /\ local.pc = "reading"
         /\ client.message.text = local.parser.text /\ client.message.text \in Seq(Atom)
         /\ IsPrefix(client.message.text, client.message.text)
<1>1. Live /\ local.pc = "reading" /\ client.message.text = local.parser.text
  BY DEF StreamInv, PhaseOK
<1>2. ~tools
  BY <1>1 DEF Live
<1>3. local.parser.text \in Seq(Atom)
  BY <1>2 DEF StreamInv, Reading
<1> QED BY <1>1, <1>2, <1>3, PrefixOfItself

(* An attempt that fails: the client keeps what it was sent. *)
LEMMA FailsStep ==
  ASSUME StreamInv, NEW status, Fails(status), local.pc # "ended",
         UNCHANGED <<given, answer>>,
         up' \in [at : Nat, aborted : BOOLEAN, chat : {"asked", "new"}],
         registry' \subseteq {local.attempt},
         registry' # {} => Live /\ status = "refused"
  PROVE  StreamInv' /\ OneAnswer
<1>1. Concludes(status, client.message, "none")
  BY DEF Fails
<1>2. DOMAIN client.message = {"text", "calls", "reasoning"}
  BY DEF StreamInv, ClientRecord
<1>3. client.status # "waiting" => IsPrefix(client.message.text, client.message.text)
  BY SentIsRead
<1> QED BY <1>1, <1>2, <1>3, ConcludesStep

(* The errors that may be retried are those before the response begins.    *)
LEMMA RethrownStep ==
  ASSUME StreamInv, NEW retryable \in BOOLEAN, Rethrown(retryable),
         local.pc \in {"preread", "reading"}, ~Live \/ ~retryable,
         UNCHANGED <<given, answer>>,
         up' \in [at : Nat, aborted : BOOLEAN, chat : {"asked", "new"}],
         registry' \subseteq {local.attempt}, registry' # {} => Live,
         client.status = "waiting"
  PROVE  StreamInv' /\ OneAnswer
<1>1. CASE Fails("refused")
  BY <1>1, FailsStep
<1>2. CASE ~Fails("refused")
  <2>1. /\ retryable /\ local' = NewHandler("acquiring", local.attempt) /\ client' = client
    BY <1>2 DEF Rethrown
  <2>2. PICK h : h = NewHandler("acquiring", local.attempt)
    OBVIOUS
  <2>3. Reading(h) /\ h.pc = "acquiring" /\ h.attempt = local.attempt
    BY <2>2, NewHandlerReads, CallAtoms
  <2>4. Reading(local)' /\ local'.pc = "acquiring" /\ local'.attempt = local.attempt
    BY <2>1, <2>2, <2>3 DEF Reading, given
  <2>5. PhaseOK(local, client, registry, held)'
    BY <2>1, <2>4 DEF PhaseOK, Live, given
  <2> QED BY <2>1, <2>4, <2>5 DEF StreamInv, given, ClientRecord, OneAnswer
<1> QED BY <1>1, <1>2

LEMMA ThrowsStep ==
  ASSUME StreamInv, NEW retryable \in BOOLEAN, Throws(retryable), UNCHANGED <<given, answer>>,
         up' \in [at : Nat, aborted : BOOLEAN, chat : {"asked", "new"}]
  PROVE  StreamInv' /\ OneAnswer
<1>1. PhaseOK(local, client, registry, held) /\ registry \subseteq {local.attempt}
  BY DEF StreamInv, PhaseOK
<1>2. Unregistered = {}
  BY <1>1 DEF Unregistered
<1>3. CASE local.pc = "preread"
  <2>1. Rethrown(retryable) /\ ~retryable /\ registry' = registry
    BY <1>3 DEF Throws
  <2>2. Live /\ client.status = "waiting"
    BY <1>1, <1>3 DEF PhaseOK
  <2> QED BY <1>1, <1>3, <2>1, <2>2, RethrownStep
<1>4. CASE local.pc = "reading" /\ Live
  BY <1>2, <1>4, FailsStep DEF Throws
<1>5. CASE local.pc = "reading" /\ ~Live
  <2>1. Rethrown(retryable) /\ registry' = {} /\ client.status = "waiting"
    BY <1>1, <1>2, <1>5 DEF Throws, PhaseOK
  <2> QED BY <1>5, <2>1, RethrownStep
<1> QED BY <1>3, <1>4, <1>5 DEF Throws

LEMMA ReadsErrorStep ==
  ASSUME StreamInv, (\E retryable \in BOOLEAN : ReadsError(retryable)) \/ ReadFails
  PROVE  StreamInv' /\ OneAnswer
<1>1. \E retryable \in BOOLEAN : Throws(retryable) /\ UNCHANGED <<given, answer, up>>
  BY DEF ReadsError, ReadFails
<1> QED BY <1>1, UpstreamKept, ThrowsStep

LEMMA AcquireFailsStep ==
  ASSUME StreamInv, AcquireFails
  PROVE  StreamInv' /\ OneAnswer
<1>1. local.pc = "acquiring" /\ Fails("refused") /\ UNCHANGED <<given, answer, up, registry>>
  BY DEF AcquireFails
<1>2. registry = {}
  BY <1>1 DEF StreamInv, PhaseOK
<1> QED BY <1>1, <1>2, UpstreamKept, FailsStep

LEMMA ReadsErrorPayloadStep ==
  ASSUME StreamInv, ReadsErrorPayload
  PROVE  StreamInv' /\ OneAnswer
<1>1. /\ local.pc \in {"preread", "reading"} /\ UNCHANGED <<given, answer, up>>
      /\ registry' = {}
  BY DEF ReadsErrorPayload, Unregistered, StreamInv, PhaseOK
<1>2. CASE Live /\ local.pc = "reading"
  <2>1. PICK m : m = [client.message EXCEPT !.text = Append(@, "w")]
    OBVIOUS
  <2>2. Concludes("done", m, "stop")
    BY <1>2, <2>1 DEF ReadsErrorPayload
  <2>3. /\ DOMAIN m = {"text", "calls", "reasoning"} /\ m.text = Append(client.message.text, "w")
    BY <2>1 DEF StreamInv, ClientRecord
  <2>4. client.status # "waiting" => IsPrefix(client.message.text, m.text)
    <3>1. SUFFICES ASSUME client.status # "waiting"
                   PROVE  IsPrefix(client.message.text, m.text)
      OBVIOUS
    <3>2. client.message.text \in Seq(Atom) /\ <<"w">> \in Seq(Atom)
      BY <1>1, <3>1, SentIsRead, CallAtoms
    <3>3. m.text = client.message.text \o <<"w">>
      BY <2>3, <3>2
    <3> QED BY <3>2, <3>3, PrefixOfLonger
  <2> QED BY <1>1, <2>2, <2>3, <2>4, UpstreamKept, ConcludesStep
<1>3. CASE ~(Live /\ local.pc = "reading")
  <2>1. Fails("refused")
    BY <1>3 DEF ReadsErrorPayload
  <2> QED BY <1>1, <2>1, UpstreamKept, FailsStep
<1> QED BY <1>2, <1>3

(* The end of a live answer: what is left is added to what was sent. *)
LEMMA FinalOfLive ==
  ASSUME StreamInv, ~tools
  PROVE  \E more \in Seq(Atom) : FinalMessage.text = local.parser.text \o more
<1>1. /\ local.parser = [NewParser EXCEPT !.text = local.parser.text]
      /\ local.parser.text \in Seq(Atom) /\ local.sanitizer \in Sanitizer(Atom)
  BY DEF StreamInv, Reading
<1>2. PICK text : text = SanitizerFlush(local.sanitizer).text
  OBVIOUS
<1>3. text \in Seq(Atom) /\ <<>> \in Seq(Atom)
  BY <1>1, <1>2, CallAtoms, SanitizerFlushType
<1>4. local.parser.calls = <<>> /\ DOMAIN local.parser = DOMAIN NewParser
  BY <1>1 DEF NewParser
<1>5. Final = Remaining /\ Remaining = Use(local.parser, text)
  BY <1>2 DEF Final, Remaining
<1>6. Final.calls = <<>> /\ FinalMessage.text = Final.text
  <2>1. Final.calls = <<>>
    BY <1>4, <1>5 DEF Use, NewParser
  <2> QED BY <2>1 DEF FinalMessage, Message
<1>7. CASE text = <<>>
  <2>1. Final.text = local.parser.text
    BY <1>5, <1>7 DEF Use
  <2>2. FinalMessage.text = local.parser.text \o <<>>
    BY <1>1, <1>6, <2>1
  <2> QED BY <1>3, <2>2
<1>8. CASE text # <<>>
  <2>1. Final.text = local.parser.text \o text
    BY <1>4, <1>5, <1>8 DEF Use, NewParser
  <2> QED BY <1>3, <1>6, <2>1
<1> QED BY <1>7, <1>8

(* The stream closes: whatever is the matter with the answer.              *)
LEMMA ReadsEndStep ==
  ASSUME StreamInv, NEW finish, ReadsEnd(finish)
  PROVE  StreamInv' /\ OneAnswer
<1>1. local.pc = "reading" /\ UNCHANGED <<given, answer, up>>
  BY DEF ReadsEnd
<1>2. CASE IsIncomplete(finish)
  BY <1>1, <1>2, UpstreamKept, ThrowsStep DEF ReadsEnd
<1>3. CASE ~IsIncomplete(finish)
  <2>1. Responds(finish) /\ registry' = {}
    BY <1>3 DEF ReadsEnd, Unregistered, StreamInv, PhaseOK
  <2>2. CASE Fails("cut")
    BY <1>1, <2>1, <2>2, UpstreamKept, FailsStep
  <2>3. CASE ~Fails("cut")
    <3>1. Concludes("done", FinalMessage, FinishReason(finish))
      BY <2>1, <2>3 DEF Responds
    <3>2. DOMAIN FinalMessage = {"text", "calls", "reasoning"}
      BY DEF FinalMessage, Message
    <3>3. client.status # "waiting" => IsPrefix(client.message.text, FinalMessage.text)
      <4>1. SUFFICES ASSUME client.status # "waiting"
                     PROVE  IsPrefix(client.message.text, FinalMessage.text)
        OBVIOUS
      <4>2. /\ ~tools /\ client.message.text = local.parser.text
            /\ client.message.text \in Seq(Atom)
        BY <1>1, <4>1, SentIsRead
      <4>3. PICK more \in Seq(Atom) : FinalMessage.text = local.parser.text \o more
        BY <4>2, FinalOfLive
      <4> QED BY <4>2, <4>3, PrefixOfLonger
    <3> QED BY <1>1, <2>1, <3>1, <3>2, <3>3, UpstreamKept, ConcludesStep
  <2> QED BY <2>2, <2>3
<1> QED BY <1>2, <1>3

LEMMA StreamSteps ==
  ASSUME StreamInv, [StreamNext]_streamVars
  PROVE  StreamInv' /\ (OneAnswer \/ UNCHANGED streamVars)
<1>1. CASE StreamNext
  BY <1>1, CommitsStep, ReadsErrorStep, ReadsErrorPayloadStep, AcquiresStep, AcquireFailsStep,
     ReadsStep, ReadsEndStep, PageMovesStep, ClientLeavesStep, StopStep
     DEF StreamNext, Handler
<1>2. CASE UNCHANGED streamVars
  BY <1>2 DEF streamVars, given, StreamInv, Reading, ClientRecord, PhaseOK, Live
<1> QED BY <1>1, <1>2

(* The handler has read text, and its phase, the response, the registry and *)
(* the lock agree, at every interleaving of the attempts with the client,   *)
(* the page and the stop endpoint.                                         *)
THEOREM HandlerInvariant == StreamSpec => []StreamInv
<1>1. StreamInit => StreamInv
  BY StreamInitially
<1>2. StreamInv /\ [StreamNext]_streamVars => StreamInv'
  BY StreamSteps
<1> QED BY <1>1, <1>2, PTL DEF StreamSpec

(* A handler that has ended, however, holds no chat, and its stream is in   *)
(* the registry only after a live pre-read failed.                         *)
THEOREM NothingIsLeft == StreamSpec => []EndedLeavesNothing
<1>1. StreamInv => EndedLeavesNothing
  BY DEF StreamInv, PhaseOK, EndedLeavesNothing
<1> QED BY <1>1, HandlerInvariant, PTL

(* A response that has begun is never continued by another attempt, and    *)
(* only grows until it ends (processStreamingResponse).                    *)
THEOREM ResponsesAreOfOneAttempt == StreamSpec => OneAnswerPerResponse
<1>1. StreamInv /\ [StreamNext]_streamVars =>
        [client.status # "waiting" =>
           /\ local'.attempt = local.attempt
           /\ client' = client \/ IsPrefix(client.message.text, client'.message.text)]_streamVars
  BY StreamSteps DEF OneAnswer
<1> QED BY <1>1, HandlerInvariant, PTL DEF StreamSpec, OneAnswerPerResponse

-----------------------------------------------------------------------------
(* The words of a text *)

(* A selection is what its recursion says.                                 *)
LEMMA SelectedSteps ==
  ASSUME NEW A, NEW t \in Seq(A), NEW K
  PROVE  /\ Selected(t, K) \in [0 .. Len(t) -> Seq(A)]
         /\ Selected(t, K)[0] = <<>>
         /\ \A n \in 1 .. Len(t) :
              Selected(t, K)[n] = IF n \in K THEN Append(Selected(t, K)[n - 1], t[n])
                                  ELSE Selected(t, K)[n - 1]
<1> DEFINE N == Len(t)
           IsSel(g) == g = [n \in 0..N |->
                              IF n = 0 THEN <<>>
                              ELSE IF n \in K THEN Append(g[n - 1], t[n]) ELSE g[n - 1]]
           sel == CHOOSE g : IsSel(g)
           F == [n \in 0..N |-> [q \in Seq(A) |-> IF n # 0 /\ n \in K THEN Append(q, t[n]) ELSE q]]
<1>1. Selected(t, K) = sel
  BY DEF Selected
<1>2. N \in Nat /\ 0 \in Nat /\ 0 <= N /\ <<>> \in Seq(A)
  OBVIOUS
<1>3. F \in [0..N -> [Seq(A) -> Seq(A)]]
  <2>1. ASSUME NEW n \in 0..N, NEW q \in Seq(A)
        PROVE  (IF n # 0 /\ n \in K THEN Append(q, t[n]) ELSE q) \in Seq(A)
    <3>1. n = 0 \/ t[n] \in A
      OBVIOUS
    <3> QED BY <3>1
  <2> QED BY <2>1
<1>4. PICK g \in [0..N -> Seq(A)] : \A i \in 0..N : g[i] = IF i = 0 THEN <<>> ELSE F[i][g[i - 1]]
  <2> HIDE DEF F, N
  <2>1. \E g : IsRecursion(g, 0, N, Seq(A), <<>>, F)
    BY <1>2, <1>3, RecursionExists, Zenon
  <2> QED BY <2>1 DEF IsRecursion
<1>5. IsSel(g)
  <2>1. ASSUME NEW i \in 0..N
        PROVE  g[i] = IF i = 0 THEN <<>>
                      ELSE IF i \in K THEN Append(g[i - 1], t[i]) ELSE g[i - 1]
    <3>1. i = 0 \/ i - 1 \in 0..N
      BY <1>2
    <3>2. i = 0 \/ g[i - 1] \in Seq(A)
      BY <1>4, <3>1
    <3>3. i = 0 \/ F[i][g[i - 1]] = IF i \in K THEN Append(g[i - 1], t[i]) ELSE g[i - 1]
      BY <3>2
    <3> QED BY <1>4, <3>3
  <2>2. DOMAIN g = 0..N /\ g = [i \in 0..N |-> g[i]]
    OBVIOUS
  <2> HIDE DEF F, N
  <2> QED BY <2>1, <2>2
<1>6. PICK f : IsSel(f) /\ f = sel
  <2> HIDE DEF IsSel
  <2> QED BY <1>5
<1>7. /\ f[0] = <<>>
      /\ \A n \in 1..N : n \in K => f[n] = Append(f[n - 1], t[n])
      /\ \A n \in 1..N : n \notin K => f[n] = f[n - 1]
  <2>1. \A n \in 0..N : f[n] = IF n = 0 THEN <<>>
                               ELSE IF n \in K THEN Append(f[n - 1], t[n]) ELSE f[n - 1]
    <3> HIDE DEF N
    <3> QED BY <1>6
  <2>2. 0 \in 0..N /\ \A n \in 1..N : n \in 0..N /\ n # 0
    BY <1>2
  <2> HIDE DEF N
  <2> QED BY <2>1, <2>2, Zenon
<1>8. \A n \in 1..N : t[n] \in A
  OBVIOUS
<1>9. DOMAIN f = 0..N /\ f = [n \in 0..N |-> f[n]]
  BY <1>6
<1> HIDE DEF sel, IsSel, N
<1>10. ASSUME NEW n \in 0 + 1 .. N, f[n - 1] \in Seq(A)
       PROVE  f[n] \in Seq(A)
  <2>1. n \in 1 .. N /\ t[n] \in A
    BY <1>2, <1>8
  <2>2. Append(f[n - 1], t[n]) \in Seq(A)
    BY <1>10, <2>1
  <2> QED BY <1>7, <1>10, <2>1, <2>2, Zenon
<1>11. \A n \in 0..N : f[n] \in Seq(A)
  <2>1. f[0] \in Seq(A)
    BY <1>2, <1>7, Zenon
  <2> QED BY <1>2, <1>10, <2>1, RecursionStays
<1>12. f \in [0..N -> Seq(A)]
  BY <1>9, <1>11
<1> QED BY <1>1, <1>6, <1>7, <1>12 DEF N

(* Two texts that are alike up to n, with places that are alike, are alike  *)
(* in what is at them.                                                     *)
Alike(s, K, t, L, n) ==
  /\ n \in Nat /\ n <= Len(s) /\ n <= Len(t)
  /\ \A i \in 1 .. n : s[i] = t[i] /\ (i \in K <=> i \in L)

LEMMA SelectedAlike ==
  ASSUME NEW A, NEW s \in Seq(A), NEW t \in Seq(A), NEW K, NEW L, NEW n, Alike(s, K, t, L, n)
  PROVE  Selected(s, K)[n] = Selected(t, L)[n]
<1> USE DEF Alike
<1>1. PICK f : f = Selected(s, K)
  OBVIOUS
<1>2. PICK g : g = Selected(t, L)
  OBVIOUS
<1>3. f[0] = <<>> /\ \A i \in 1 .. Len(s) : f[i] = IF i \in K THEN Append(f[i - 1], s[i]) ELSE f[i - 1]
  BY <1>1, SelectedSteps
<1>4. g[0] = <<>> /\ \A i \in 1 .. Len(t) : g[i] = IF i \in L THEN Append(g[i - 1], t[i]) ELSE g[i - 1]
  BY <1>2, SelectedSteps
<1> DEFINE P == {i \in 0 .. n : f[i] = g[i]}
<1>5. 0 \in P /\ n \in Nat /\ 0 \in Nat /\ 0 <= n
  BY <1>3, <1>4
<1>6. ASSUME NEW i \in 0 + 1 .. n, i - 1 \in P
      PROVE  i \in P
  <2>1. i \in 1 .. n /\ i \in 1 .. Len(s) /\ i \in 1 .. Len(t) /\ i \in 0 .. n
    OBVIOUS
  <2>2. f[i - 1] = g[i - 1]
    BY <1>6
  <2> QED BY <1>3, <1>4, <2>1, <2>2
<1>7. \A i \in P : f[i] = g[i]
  OBVIOUS
<1> HIDE DEF P
<1>8. \A i \in 0 .. n : i \in P
  BY <1>5, <1>6, UpwardInduction
<1> QED BY <1>1, <1>2, <1>5, <1>7, <1>8

(* The words of a text that is continued. *)
LEMMA WordsOfLonger ==
  ASSUME NEW A, NEW s \in Seq(A), NEW a \in A
  PROVE  Words(Append(s, a)) = IF a = "nl" THEN Words(s) ELSE Append(Words(s), a)
<1>1. PICK t : t = Append(s, a)
  OBVIOUS
<1>2. /\ t \in Seq(A) /\ Len(t) = Len(s) + 1 /\ t[Len(s) + 1] = a
      /\ \A i \in 1 .. Len(s) : t[i] = s[i]
  BY <1>1
<1>20. PICK K : K = {i \in 1..Len(s) : s[i] # "nl"}
  OBVIOUS
<1>21. PICK L : L = {i \in 1..Len(t) : t[i] # "nl"}
  OBVIOUS
<1>3. Words(s) = Selected(s, K)[Len(s)] /\ Words(t) = Selected(t, L)[Len(t)]
  BY <1>20, <1>21 DEF Words
<1>4. /\ \A i \in 1 .. Len(s) : s[i] = t[i] /\ (i \in K <=> i \in L)
      /\ Len(s) \in Nat /\ Len(s) <= Len(s) /\ Len(s) <= Len(t)
      /\ Len(t) \in L <=> a # "nl"
      /\ Len(t) \in 1 .. Len(t) /\ Len(t) - 1 = Len(s)
  BY <1>2, <1>20, <1>21
<1>5. Selected(s, K)[Len(s)] = Selected(t, L)[Len(s)]
  <2>1. t \in Seq(A)
    BY <1>2
  <2>2. PICK n : n = Len(s)
    OBVIOUS
  <2>3. Alike(s, K, t, L, n)
    BY <1>4, <2>2 DEF Alike
  <2>4. Selected(s, K)[n] = Selected(t, L)[n]
    BY <2>1, <2>3, SelectedAlike
  <2> QED BY <2>2, <2>4
<1>6. Selected(t, L)[Len(t)] = IF Len(t) \in L THEN Append(Selected(t, L)[Len(t) - 1], t[Len(t)])
                               ELSE Selected(t, L)[Len(t) - 1]
  BY <1>2, <1>4, SelectedSteps
<1> QED BY <1>1, <1>2, <1>3, <1>4, <1>5, <1>6

LEMMA WordsOfNothing == Words(<<>>) = <<>>
<1>1. PICK t : t = <<>>
  OBVIOUS
<1>2. t \in Seq(Atom) /\ Len(t) = 0
  BY <1>1
<1>3. PICK K : K = {i \in 1..Len(t) : t[i] # "nl"}
  OBVIOUS
<1>4. Selected(t, K)[0] = <<>>
  <2>1. PICK g : g = Selected(t, K)
    OBVIOUS
  <2>2. g[0] = <<>>
    <3>2. \A A : \A s \in Seq(A) : \A KK : Selected(s, KK)[0] = <<>>
      BY SelectedSteps
    <3>3. \A s \in Seq(Atom) : \A KK : Selected(s, KK)[0] = <<>>
      BY <3>2
    <3>4. \A s \in Seq(Atom) : Selected(s, K)[0] = <<>>
      BY <3>3
    <3>5. t \in Seq(Atom)
      BY <1>2
    <3>6. Selected(t, K)[0] = <<>>
      BY <3>4, <3>5
    <3> QED BY <3>6, <2>1
  <2> QED BY <2>1, <2>2
<1> QED BY <1>1, <1>2, <1>3, <1>4 DEF Words

-----------------------------------------------------------------------------
(* Thoughts in a text *)

(* Atom i of the text t is part of a thought, tags included.               *)
InThought(t, i) ==
  \E j \in 1 .. Len(t) : t[j] = "th" /\ j <= i /\ i <= j + 4

(* Atom m is part of a thought that goes on after it. *)
Within(t, m) ==
  \E j \in 1 .. Len(t) : t[j] = "th" /\ j <= m /\ m < j + 4

(* The tags of a text are those of its thoughts, which are whole. *)
WellTagged(t) ==
  /\ \A j \in 1 .. Len(t) : t[j] = "th" =>
       /\ j + 4 <= Len(t)
       /\ t[j + 1] = "nk" /\ t[j + 2] = "w" /\ t[j + 3] = "ct" /\ t[j + 4] = "nk"
  /\ \A j \in 1 .. Len(t) : t[j] = "ct" => j > 3 /\ t[j - 3] = "th"

(* The words outside of thoughts, and those of the thoughts, of each        *)
(* beginning of the text.                                                  *)
Spoken(t) == Selected(t, {i \in 1 .. Len(t) : ~InThought(t, i) /\ t[i] # "nl"})
Thought(t) == Selected(t, {i \in 1 .. Len(t) : InThought(t, i) /\ t[i] = "w"})

LEMMA SpokenSteps ==
  ASSUME NEW t \in Seq(Atom)
  PROVE  /\ Spoken(t) \in [0 .. Len(t) -> Seq(Atom)] /\ Spoken(t)[0] = <<>>
         /\ \A n \in 1 .. Len(t) :
              /\ InThought(t, n) \/ t[n] = "nl" => Spoken(t)[n] = Spoken(t)[n - 1]
              /\ ~InThought(t, n) /\ t[n] # "nl" =>
                   Spoken(t)[n] = Append(Spoken(t)[n - 1], t[n])
<1>1. PICK K : K = {i \in 1 .. Len(t) : ~InThought(t, i) /\ t[i] # "nl"}
  OBVIOUS
<1>2. Spoken(t) = Selected(t, K)
  BY <1>1 DEF Spoken
<1>3. PICK f : f = Selected(t, K)
  OBVIOUS
<1>4. /\ f \in [0 .. Len(t) -> Seq(Atom)]
      /\ f[0] = <<>>
      /\ \A n \in 1 .. Len(t) : f[n] = IF n \in K THEN Append(f[n - 1], t[n]) ELSE f[n - 1]
  BY <1>3, SelectedSteps
<1> QED BY <1>1, <1>2, <1>3, <1>4, Zenon

LEMMA ThoughtSteps ==
  ASSUME NEW t \in Seq(Atom)
  PROVE  /\ Thought(t) \in [0 .. Len(t) -> Seq(Atom)] /\ Thought(t)[0] = <<>>
         /\ \A n \in 1 .. Len(t) :
              /\ ~InThought(t, n) \/ t[n] # "w" => Thought(t)[n] = Thought(t)[n - 1]
              /\ InThought(t, n) /\ t[n] = "w" =>
                   Thought(t)[n] = Append(Thought(t)[n - 1], "w")
<1>1. PICK K : K = {i \in 1 .. Len(t) : InThought(t, i) /\ t[i] = "w"}
  OBVIOUS
<1>2. Thought(t) = Selected(t, K)
  BY <1>1 DEF Thought
<1>3. PICK f : f = Selected(t, K)
  OBVIOUS
<1>4. /\ f \in [0 .. Len(t) -> Seq(Atom)]
      /\ f[0] = <<>>
      /\ \A n \in 1 .. Len(t) : f[n] = IF n \in K THEN Append(f[n - 1], t[n]) ELSE f[n - 1]
  BY <1>3, SelectedSteps
<1> QED BY <1>1, <1>2, <1>3, <1>4, Zenon

(* What is read outside of thoughts adds its words and no thought. *)
LEMMA SpokenGoesOn ==
  ASSUME NEW t \in Seq(Atom), NEW m \in Nat, NEW n \in Nat, m <= n, n <= Len(t),
         \A i \in m + 1 .. n : ~InThought(t, i),
         NEW x \in Seq(Atom), Words(x) = Spoken(t)[m]
  PROVE  /\ Words(x \o SubSeq(t, m + 1, n)) = Spoken(t)[n]
         /\ Thought(t)[n] = Thought(t)[m]
<1>1. PICK f : f = Spoken(t)
  OBVIOUS
<1>2. PICK g : g = Thought(t)
  OBVIOUS
<1> DEFINE P == {j \in m .. n : Words(x \o SubSeq(t, m + 1, j)) = f[j] /\ g[j] = g[m]}
<1>3. m \in P
  <2>1. SubSeq(t, m + 1, m) \in Seq(Atom) /\ Len(SubSeq(t, m + 1, m)) = m - m
    BY PieceSteps
  <2>2. SubSeq(t, m + 1, m) = <<>>
    BY <2>1
  <2>3. x \o SubSeq(t, m + 1, m) = x
    <3>1. \A y \in Seq(Atom) : y \o <<>> = y
      OBVIOUS
    <3> QED BY <2>2, <3>1, Zenon
  <2>4. Words(x \o SubSeq(t, m + 1, m)) = f[m]
    BY <1>1, <2>3, Zenon
  <2>5. m \in m .. n
    OBVIOUS
  <2> QED BY <2>4, <2>5, Zenon
<1>4. ASSUME NEW j \in m + 1 .. n, j - 1 \in P
      PROVE  j \in P
  <2>1. PICK y : y = x \o SubSeq(t, m + 1, j - 1)
    OBVIOUS
  <2>2. j \in 1 .. Len(t) /\ j \in Nat /\ m < j /\ j <= Len(t) /\ t[j] \in Atom
        /\ j - 1 \in Nat /\ m <= j - 1 /\ m <= j /\ j - 1 <= Len(t) /\ ~InThought(t, j)
    OBVIOUS
  <2>3. /\ SubSeq(t, m + 1, j - 1) \in Seq(Atom)
        /\ SubSeq(t, m + 1, j) = Append(SubSeq(t, m + 1, j - 1), t[j])
    BY <2>2, PieceSteps
  <2>4. y \in Seq(Atom) /\ x \o SubSeq(t, m + 1, j) = Append(y, t[j])
    <3>1. PICK p : p = SubSeq(t, m + 1, j - 1)
      OBVIOUS
    <3>2. p \in Seq(Atom)
      BY <2>3, <3>1
    <3>3. x \o Append(p, t[j]) = Append(x \o p, t[j])
      BY <2>2, <3>2
    <3>4. y = x \o p /\ SubSeq(t, m + 1, j) = Append(p, t[j])
      BY <2>1, <2>3, <3>1, Zenon
    <3>5. x \o p \in Seq(Atom)
      BY <3>2
    <3> QED BY <3>3, <3>4, <3>5, Zenon
  <2>5. Words(Append(y, t[j])) = IF t[j] = "nl" THEN Words(y) ELSE Append(Words(y), t[j])
    BY <2>2, <2>4, WordsOfLonger
  <2>6. f[j] = IF t[j] = "nl" THEN f[j - 1] ELSE Append(f[j - 1], t[j])
    BY <1>1, <2>2, SpokenSteps
  <2>7. g[j] = g[j - 1]
    BY <1>2, <2>2, ThoughtSteps
  <2>8. Words(y) = f[j - 1] /\ g[j - 1] = g[m]
    BY <1>4, <2>1
  <2>9. Words(x \o SubSeq(t, m + 1, j)) = f[j] /\ g[j] = g[m]
    BY <2>4, <2>5, <2>6, <2>7, <2>8
  <2> QED BY <2>9
<1>5. \A j \in P : Words(x \o SubSeq(t, m + 1, j)) = f[j] /\ g[j] = g[m]
  OBVIOUS
<1> HIDE DEF P
<1>6. \A j \in m .. n : j \in P
  BY <1>3, <1>4, UpwardInduction
<1>7. n \in P
  BY <1>6
<1> QED BY <1>1, <1>2, <1>5, <1>7

(* Where a tag of two atoms is, and where it is found. *)
TagAt(b, i, p, q) == i \in 1 .. Len(b) /\ i + 1 <= Len(b) /\ b[i] = p /\ b[i + 1] = q

LEMMA AtTwo ==
  ASSUME NEW A, NEW b \in Seq(A), NEW i \in 1 .. Len(b), NEW p, NEW q
  PROVE  At(b, i, <<p, q>>) <=> TagAt(b, i, p, q)
<1>1. Len(<<p, q>>) = 2 /\ i + Len(<<p, q>>) - 1 = i + 1
  OBVIOUS
<1>2. CASE i + 1 <= Len(b)
  <2>1. \A k \in i .. i + 1 : b[k] \in A
    BY <1>2
  <2>2. PICK d : d = SubSeq(b, i, i + 1)
    OBVIOUS
  <2>3. d \in Seq(A) /\ Len(d) = 2 /\ d[1] = b[i] /\ d[2] = b[i + 1]
    <3>1. /\ d \in Seq(A) /\ Len(d) = IF i <= i + 1 THEN i + 1 - i + 1 ELSE 0
          /\ \A k \in 1 .. i + 1 - i + 1 : d[k] = b[i + k - 1]
      BY <2>1, <2>2, SubSeqProperties
    <3>2. 1 \in 1 .. i + 1 - i + 1 /\ 2 \in 1 .. i + 1 - i + 1 /\ i + 1 - 1 = i /\ i + 2 - 1 = i + 1
      OBVIOUS
    <3> QED BY <3>1, <3>2
  <2>4. At(b, i, <<p, q>>) <=> d = <<p, q>>
    BY <1>1, <1>2, <2>2 DEF At
  <2>5. d = <<p, q>> <=> d[1] = p /\ d[2] = q
    BY <2>3
  <2> QED BY <1>2, <2>3, <2>4, <2>5 DEF TagAt
<1>3. CASE ~(i + 1 <= Len(b))
  BY <1>1, <1>3 DEF At, TagAt
<1> QED BY <1>2, <1>3

LEMMA IndexOfTwo ==
  ASSUME NEW A, NEW b \in Seq(A), NEW p, NEW q, NEW o, o = IndexOf(b, <<p, q>>)
  PROVE  /\ o = 0 => \A i \in 1 .. Len(b) : ~TagAt(b, i, p, q)
         /\ o # 0 => /\ TagAt(b, o, p, q)
                     /\ \A i \in 1 .. Len(b) : TagAt(b, i, p, q) => o <= i
         /\ o \in Nat
<1> DEFINE S == {i \in 1 .. Len(b) : At(b, i, <<p, q>>)}
<1>1. S \in SUBSET Nat /\ o = Least(S) /\ \A i \in S : i # 0
  BY DEF IndexOf
<1>2. \A i \in 1 .. Len(b) : i \in S <=> TagAt(b, i, p, q)
  BY AtTwo
<1>3. \A i \in S : i \in 1 .. Len(b)
  OBVIOUS
<1> HIDE DEF S
<1>4. CASE S = {}
  BY <1>1, <1>2, <1>4 DEF Least
<1>5. CASE S # {}
  <2>1. o \in S /\ \A y \in S : o <= y
    BY <1>1, <1>5, LeastNumber DEF Least
  <2> QED BY <1>1, <1>2, <1>3, <2>1
<1> QED BY <1>4, <1>5

(* The sanitizer s when n atoms of the text t have come and the first m have *)
(* been given out: what it holds, and whether it is within a thought.       *)
Holds(t, m, n, s) ==
  /\ m \in 0 .. n /\ n \in 0 .. Len(t)
  /\ s \in Sanitizer(Atom)
  /\ s.held = SubSeq(t, m + 1, n)
  /\ IF s.inside THEN m >= 2 /\ t[m - 1] = "th" ELSE ~Within(t, m)

(* Nothing more can be given out. *)
Settled(t, m, n, s) ==
  IF s.inside THEN n <= m + 2 ELSE m = n \/ (m + 1 = n /\ t[n] = "th")

(* With what was given out before it, x of text and w of reasoning.         *)
GivesOut(t, m, x, w, s) ==
  Words(x \o s.text) = Spoken(t)[m] /\ w \o s.reasoning = Thought(t)[m]

(* From s to d something is given out, or nothing more can be.             *)
Turns(t, m, n, x, w, s, d) ==
  \E k \in m .. n :
    /\ Holds(t, k, n, d) /\ GivesOut(t, k, x, w, d)
    /\ k > m \/ Settled(t, k, n, d)
    /\ Settled(t, m, n, s) => Settled(t, k, n, d)

Settles(t, m, n, x, w, d) ==
  \E k \in m .. n : Holds(t, k, n, d) /\ GivesOut(t, k, x, w, d) /\ Settled(t, k, n, d)

(* What s holds is the piece of the text from m on. *)
LEMMA HeldPiece ==
  ASSUME NEW t \in Seq(Atom), NEW m, NEW n, NEW s, Holds(t, m, n, s)
  PROVE  /\ Len(s.held) = n - m /\ s.held \in Seq(Atom)
         /\ \A i \in 1 .. n - m : s.held[i] = t[m + i]
<1>1. m \in Nat /\ n \in Nat /\ m <= n /\ n <= Len(t) /\ s.held = SubSeq(t, m + 1, n)
  BY DEF Holds
<1>2. PICK p : p = SubSeq(t, m + 1, n)
  OBVIOUS
<1>3. p \in Seq(Atom) /\ Len(p) = n - m /\ \A i \in 1 .. n - m : p[i] = t[m + i]
  BY <1>1, <1>2, PieceSteps
<1> QED BY <1>1, <1>2, <1>3

(* The rest of what is held. *)
LEMMA HeldRest ==
  ASSUME NEW t \in Seq(Atom), NEW m, NEW n, NEW s, Holds(t, m, n, s), NEW k \in 0 .. n - m
  PROVE  /\ From(s.held, k + 1) = SubSeq(t, m + k + 1, n)
         /\ Upto(s.held, k) = SubSeq(t, m + 1, m + k)
<1>1. m \in Nat /\ n \in Nat /\ m <= n /\ n <= Len(t) /\ k \in Nat
  BY DEF Holds
<1>2. PICK h : h = s.held
  OBVIOUS
<1>3. h \in Seq(Atom) /\ Len(h) = n - m /\ \A i \in 1 .. n - m : h[i] = t[m + i]
  BY <1>2, HeldPiece
<1>4. From(h, k + 1) = SubSeq(t, m + k + 1, n)
  <2>1. PICK p : p = SubSeq(h, k + 1, n - m)
    OBVIOUS
  <2>2. PICK q : q = SubSeq(t, m + k + 1, n)
    OBVIOUS
  <2>3. /\ p \in Seq(Atom) /\ Len(p) = n - m - k
        /\ \A i \in 1 .. n - m - k : p[i] = h[k + i]
    <3>1. n - m \in Nat /\ k <= n - m /\ n - m <= Len(h)
      BY <1>1, <1>3
    <3> QED BY <1>1, <1>3, <2>1, <3>1, PieceSteps
  <2>4. /\ q \in Seq(Atom) /\ Len(q) = n - (m + k)
        /\ \A i \in 1 .. n - (m + k) : q[i] = t[m + k + i]
    <3>1. m + k \in Nat /\ m + k <= n
      BY <1>1
    <3> QED BY <1>1, <2>2, <3>1, PieceSteps
  <2>5. \A i \in 1 .. n - m - k : p[i] = q[i]
    <3> SUFFICES ASSUME NEW i \in 1 .. n - m - k PROVE p[i] = q[i]
      OBVIOUS
    <3>1. p[i] = h[k + i] /\ k + i \in 1 .. n - m /\ i \in 1 .. n - (m + k) /\ m + (k + i) = m + k + i
      BY <1>1, <2>3
    <3>2. h[k + i] = t[m + (k + i)] /\ q[i] = t[m + k + i]
      BY <1>3, <2>4, <3>1
    <3> QED BY <3>1, <3>2
  <2>6. p = q
    <3>1. Len(p) = Len(q)
      BY <1>1, <2>3, <2>4
    <3> QED BY <2>3, <2>4, <2>5, <3>1, SeqEqual
  <2> QED BY <1>3, <2>1, <2>2, <2>6 DEF From
<1>5. Upto(h, k) = SubSeq(t, m + 1, m + k)
  <2>1. PICK p : p = SubSeq(h, 1, k)
    OBVIOUS
  <2>2. PICK q : q = SubSeq(t, m + 1, m + k)
    OBVIOUS
  <2>3. /\ p \in Seq(Atom) /\ Len(p) = k
        /\ \A i \in 1 .. k : p[i] = h[i]
    <3>1. k <= Len(h) /\ 0 \in Nat /\ 0 <= k /\ 0 + 1 = 1 /\ k - 0 = k
      BY <1>1, <1>3
    <3>2. /\ SubSeq(h, 0 + 1, k) \in Seq(Atom) /\ Len(SubSeq(h, 0 + 1, k)) = k - 0
          /\ \A i \in 1 .. k - 0 : SubSeq(h, 0 + 1, k)[i] = h[0 + i]
      BY <1>1, <1>3, <3>1, PieceSteps
    <3>3. p \in Seq(Atom) /\ Len(p) = k /\ \A i \in 1 .. k : p[i] = h[0 + i]
      BY <2>1, <3>1, <3>2
    <3> QED BY <3>3
  <2>4. /\ q \in Seq(Atom) /\ Len(q) = m + k - m
        /\ \A i \in 1 .. m + k - m : q[i] = t[m + i]
    <3>1. m + k \in Nat /\ m <= m + k /\ m + k <= Len(t)
      BY <1>1
    <3> QED BY <1>1, <2>2, <3>1, PieceSteps
  <2>5. \A i \in 1 .. k : p[i] = q[i]
    <3> SUFFICES ASSUME NEW i \in 1 .. k PROVE p[i] = q[i]
      OBVIOUS
    <3>1. p[i] = h[i] /\ i \in 1 .. n - m /\ i \in 1 .. m + k - m
      BY <1>1, <2>3
    <3> QED BY <1>3, <2>4, <3>1
  <2>6. p = q
    <3>1. Len(p) = Len(q)
      BY <1>1, <2>3, <2>4
    <3> QED BY <2>3, <2>4, <2>5, <3>1, SeqEqual
  <2> QED BY <2>1, <2>2, <2>6 DEF Upto
<1> QED BY <1>2, <1>4, <1>5

(* After m, outside of thoughts: up to the next tag nothing is in a thought, *)
(* and a closing tag comes after its opening one.                          *)
LEMMA OutsideThoughts ==
  ASSUME NEW t \in Seq(Atom), NEW m \in Nat, NEW i \in Nat, m < i, i <= Len(t), ~Within(t, m),
         \A j \in m + 1 .. i : t[j] # "th"
  PROVE  ~InThought(t, i)
<1>1. SUFFICES ASSUME NEW j \in 1 .. Len(t), t[j] = "th", j <= i, i <= j + 4
               PROVE  FALSE
  BY DEF InThought
<1>2. ~(j \in m + 1 .. i)
  BY <1>1
<1>3. j <= m /\ m < j + 4
  BY <1>1, <1>2
<1> QED BY <1>1, <1>3 DEF Within

LEMMA OutsideCloses ==
  ASSUME NEW t \in Seq(Atom), WellTagged(t), NEW m \in Nat, NEW i \in Nat, m < i, i <= Len(t),
         ~Within(t, m), t[i] = "ct"
  PROVE  m < i - 3 /\ t[i - 3] = "th" /\ t[i - 2] = "nk"
<1>1. i \in 1 .. Len(t)
  OBVIOUS
<1>2. i > 3 /\ t[i - 3] = "th"
  BY <1>1 DEF WellTagged
<1>3. i - 3 \in 1 .. Len(t) /\ i - 3 + 1 = i - 2
  BY <1>1, <1>2
<1>4. t[i - 2] = "nk"
  BY <1>2, <1>3 DEF WellTagged
<1>5. ~(i - 3 <= m)
  BY <1>2, <1>3 DEF Within
<1> QED BY <1>2, <1>4, <1>5

(* A thought passes: no word is spoken, and it is one word. *)
LEMMA ThoughtPasses ==
  ASSUME NEW t \in Seq(Atom), WellTagged(t), NEW j \in 1 .. Len(t), t[j] = "th"
  PROVE  /\ j + 4 <= Len(t)
         /\ t[j + 1] = "nk" /\ t[j + 2] = "w" /\ t[j + 3] = "ct" /\ t[j + 4] = "nk"
         /\ Spoken(t)[j + 1] = Spoken(t)[j - 1] /\ Thought(t)[j + 1] = Thought(t)[j - 1]
         /\ Spoken(t)[j + 4] = Spoken(t)[j + 1]
         /\ Thought(t)[j + 4] = Append(Thought(t)[j + 1], "w")
         /\ ~Within(t, j + 4)
<1>1. /\ j + 4 <= Len(t)
      /\ t[j + 1] = "nk" /\ t[j + 2] = "w" /\ t[j + 3] = "ct" /\ t[j + 4] = "nk"
  BY DEF WellTagged
<1>2. \A i \in j .. j + 4 : i \in 1 .. Len(t) /\ InThought(t, i)
  BY <1>1 DEF InThought
<1>3. PICK f : f = Spoken(t)
  OBVIOUS
<1>4. PICK g : g = Thought(t)
  OBVIOUS
<1>5. \A i \in j .. j + 4 : f[i] = f[i - 1]
  BY <1>2, <1>3, SpokenSteps
<1>6. /\ f[j] = f[j - 1] /\ f[j + 1] = f[j] /\ f[j + 2] = f[j + 1]
      /\ f[j + 3] = f[j + 2] /\ f[j + 4] = f[j + 3]
  <2>1. /\ j \in j .. j + 4 /\ j + 1 \in j .. j + 4 /\ j + 2 \in j .. j + 4
        /\ j + 3 \in j .. j + 4 /\ j + 4 \in j .. j + 4
        /\ j + 1 - 1 = j /\ j + 2 - 1 = j + 1 /\ j + 3 - 1 = j + 2 /\ j + 4 - 1 = j + 3
    OBVIOUS
  <2> QED BY <1>5, <2>1
<1>7. \A i \in j .. j + 4 : \A k : k = i - 1 =>
        (t[i] = "w" => g[i] = Append(g[k], "w")) /\ (t[i] # "w" => g[i] = g[k])
  BY <1>2, <1>4, ThoughtSteps
<1>8. /\ g[j] = g[j - 1] /\ g[j + 1] = g[j] /\ g[j + 2] = Append(g[j + 1], "w")
      /\ g[j + 3] = g[j + 2] /\ g[j + 4] = g[j + 3]
  <2>1. /\ j \in j .. j + 4 /\ j + 1 \in j .. j + 4 /\ j + 2 \in j .. j + 4
        /\ j + 3 \in j .. j + 4 /\ j + 4 \in j .. j + 4
        /\ j = j + 1 - 1 /\ j + 1 = j + 2 - 1 /\ j + 2 = j + 3 - 1 /\ j + 3 = j + 4 - 1
    OBVIOUS
  <2>2. t[j] # "w" /\ t[j + 1] # "w" /\ t[j + 2] = "w" /\ t[j + 3] # "w" /\ t[j + 4] # "w"
    BY <1>1
  <2>3. g[j] = g[j - 1]
    BY <1>7, <2>1, <2>2
  <2>4. g[j + 1] = g[j]
    BY <1>7, <2>1, <2>2
  <2>5. g[j + 2] = Append(g[j + 1], "w")
    BY <1>7, <2>1, <2>2
  <2>6. g[j + 3] = g[j + 2]
    BY <1>7, <2>1, <2>2
  <2>7. g[j + 4] = g[j + 3]
    BY <1>7, <2>1, <2>2
  <2> QED BY <2>3, <2>4, <2>5, <2>6, <2>7
<1>9. ~Within(t, j + 4)
  <2>1. SUFFICES ASSUME NEW k \in 1 .. Len(t), t[k] = "th", k <= j + 4, j + 4 < k + 4
                 PROVE  FALSE
    BY DEF Within
  <2>2. k \in {j + 1, j + 2, j + 3, j + 4}
    BY <2>1
  <2> QED BY <1>1, <2>1, <2>2
<1> QED BY <1>1, <1>3, <1>4, <1>6, <1>8, <1>9

(* A turn of the sanitizer within a thought. *)
LEMMA TurnInside ==
  ASSUME NEW t \in Seq(Atom), WellTagged(t), NEW m, NEW n, NEW s, Holds(t, m, n, s), s.inside,
         NEW x \in Seq(Atom), NEW w \in Seq(Atom), GivesOut(t, m, x, w, s)
  PROVE  Turns(t, m, n, x, w, s, SanitizeOnce(s))
<1> USE DEF Turns
<1>1. PICK h : h = s.held
  OBVIOUS
<1>2. h \in Seq(Atom) /\ Len(h) = n - m /\ \A i \in 1 .. n - m : h[i] = t[m + i]
  BY <1>1, HeldPiece
<1>3. /\ m \in Nat /\ n \in Nat /\ m <= n /\ n <= Len(t) /\ s \in Sanitizer(Atom)
      /\ m >= 2 /\ t[m - 1] = "th" /\ m - 1 \in 1 .. Len(t)
  BY DEF Holds
<1>4. /\ m + 3 <= Len(t) /\ t[m] = "nk" /\ t[m + 1] = "w" /\ t[m + 2] = "ct" /\ t[m + 3] = "nk"
      /\ Spoken(t)[m + 3] = Spoken(t)[m] /\ Thought(t)[m + 3] = Append(Thought(t)[m], "w")
      /\ ~Within(t, m + 3)
  <2>1. PICK j \in 1 .. Len(t) : j = m - 1
    BY <1>3
  <2>2. /\ j + 4 <= Len(t)
        /\ t[j + 1] = "nk" /\ t[j + 2] = "w" /\ t[j + 3] = "ct" /\ t[j + 4] = "nk"
        /\ Spoken(t)[j + 4] = Spoken(t)[j + 1]
        /\ Thought(t)[j + 4] = Append(Thought(t)[j + 1], "w")
        /\ ~Within(t, j + 4)
    BY <1>3, <2>1, ThoughtPasses
  <2>3. j + 1 = m /\ j + 2 = m + 1 /\ j + 3 = m + 2 /\ j + 4 = m + 3
    BY <1>3, <2>1
  <2> QED BY <2>2, <2>3
<1>5. PICK close : close = IndexOf(h, <<"ct", "nk">>)
  OBVIOUS
<1>6. /\ close = 0 => \A i \in 1 .. Len(h) : ~TagAt(h, i, "ct", "nk")
      /\ close # 0 => /\ TagAt(h, close, "ct", "nk")
                      /\ \A i \in 1 .. Len(h) : TagAt(h, i, "ct", "nk") => close <= i
      /\ close \in Nat
  BY <1>2, <1>5, IndexOfTwo
<1>7. PICK d : d = SanitizeOnce(s)
  OBVIOUS
<1>8. n >= m + 3 => TagAt(h, 2, "ct", "nk")
  <2>1. SUFFICES ASSUME n >= m + 3 PROVE TagAt(h, 2, "ct", "nk")
    OBVIOUS
  <2>2. h[2] = t[m + 2] /\ h[3] = t[m + 3] /\ 2 \in 1 .. Len(h) /\ 2 + 1 <= Len(h) /\ 2 + 1 = 3
    BY <1>2, <1>3, <2>1
  <2> QED BY <1>4, <2>2 DEF TagAt
<1>9. ~TagAt(h, 1, "ct", "nk")
  <2>1. SUFFICES ASSUME TagAt(h, 1, "ct", "nk") PROVE FALSE
    OBVIOUS
  <2>2. h[1] = t[m + 1]
    BY <1>2, <1>3, <2>1 DEF TagAt
  <2> QED BY <1>4, <2>1, <2>2 DEF TagAt
<1>10. CASE close = 0
  <2>1. d = s
    BY <1>1, <1>5, <1>7, <1>10 DEF SanitizeOnce, ThinkClose
  <2>2. n <= m + 2
    <3>1. n >= m + 3 => 2 \in 1 .. Len(h)
      BY <1>2, <1>3
    <3> QED BY <1>3, <1>6, <1>8, <1>10, <3>1
  <2>3. Settled(t, m, n, s)
    BY <2>2 DEF Settled
  <2>4. m \in m .. n
    BY <1>3
  <2> QED BY <1>7, <2>1, <2>3, <2>4
<1>11. CASE close # 0
  <2>1. n >= m + 3 /\ close = 2
    <3>1. TagAt(h, close, "ct", "nk") /\ close # 1 /\ close >= 1 /\ close + 1 <= n - m
      BY <1>2, <1>6, <1>9, <1>11 DEF TagAt
    <3>2. n >= m + 3 /\ 2 \in 1 .. Len(h)
      BY <1>2, <1>3, <1>6, <3>1
    <3> QED BY <1>6, <1>8, <1>11, <3>1, <3>2
  <2>2. d = [s EXCEPT !.reasoning = @ \o Upto(h, 1), !.held = From(h, 4), !.inside = FALSE]
    <3>1. d = [s EXCEPT !.reasoning = @ \o Upto(h, close - 1), !.held = From(@, close + 2),
                        !.inside = FALSE]
      BY <1>1, <1>5, <1>7, <1>11, Zenon DEF SanitizeOnce, ThinkClose
    <3>2. close - 1 = 1 /\ close + 2 = 4
      BY <2>1
    <3> QED BY <1>1, <3>1, <3>2
  <2>3. From(h, 4) = SubSeq(t, m + 3 + 1, n) /\ Upto(h, 1) = SubSeq(t, m + 1, m + 1)
    <3>1. 3 \in 0 .. n - m /\ 1 \in 0 .. n - m /\ 3 + 1 = 4
      BY <1>3, <2>1
    <3>2. \A k \in 0 .. n - m : /\ From(h, k + 1) = SubSeq(t, m + k + 1, n)
                                /\ Upto(h, k) = SubSeq(t, m + 1, m + k)
      BY <1>1, HeldRest
    <3> QED BY <3>1, <3>2
  <2>4. Upto(h, 1) = <<"w">>
    <3>1. PICK p : p = SubSeq(t, m + 1, m + 1)
      OBVIOUS
    <3>2. m + 1 \in Nat /\ m <= m + 1 /\ m + 1 <= Len(t) /\ m + 1 - m = 1
      BY <1>3, <2>1
    <3>3. p \in Seq(Atom) /\ Len(p) = 1 /\ p[1] = t[m + 1]
      BY <1>3, <3>1, <3>2, PieceSteps
    <3>4. p = <<"w">>
      BY <1>4, <3>3
    <3> QED BY <2>3, <3>1, <3>4
  <2>5. /\ d \in Sanitizer(Atom) /\ d.held = SubSeq(t, m + 3 + 1, n) /\ ~d.inside
        /\ d.text = s.text /\ d.reasoning = s.reasoning \o <<"w">>
    <3>1. d \in Sanitizer(Atom)
      BY <1>3, <1>7, SanitizeOnceType
    <3> QED BY <1>3, <2>2, <2>3, <2>4, <3>1 DEF Sanitizer
  <2>6. Holds(t, m + 3, n, d)
    BY <1>3, <1>4, <2>1, <2>5 DEF Holds
  <2>7. GivesOut(t, m + 3, x, w, d)
    <3>1. s.reasoning \in Seq(Atom) /\ "w" \in Atom
      BY <1>3, CallAtoms DEF Sanitizer
    <3>2. w \o (s.reasoning \o <<"w">>) = Append(w \o s.reasoning, "w")
      BY <3>1
    <3> QED BY <1>4, <2>5, <3>2 DEF GivesOut
  <2>8. ~Settled(t, m, n, s) /\ m + 3 \in m .. n /\ m + 3 > m
    BY <1>3, <2>1 DEF Settled
  <2> QED BY <1>7, <2>6, <2>7, <2>8
<1> QED BY <1>10, <1>11

(* A turn of the sanitizer outside of thoughts. *)
LEMMA TurnOutside ==
  ASSUME NEW t \in Seq(Atom), WellTagged(t), NEW m, NEW n, NEW s, Holds(t, m, n, s), ~s.inside,
         NEW x \in Seq(Atom), NEW w \in Seq(Atom), GivesOut(t, m, x, w, s)
  PROVE  Turns(t, m, n, x, w, s, SanitizeOnce(s))
<1> USE DEF Turns
<1>1. PICK h : h = s.held
  OBVIOUS
<1>2. h \in Seq(Atom) /\ Len(h) = n - m /\ \A i \in 1 .. n - m : h[i] = t[m + i]
  BY <1>1, HeldPiece
<1>3. /\ m \in Nat /\ n \in Nat /\ m <= n /\ n <= Len(t) /\ s \in Sanitizer(Atom)
      /\ ~Within(t, m) /\ s.text \in Seq(Atom) /\ s.reasoning \in Seq(Atom)
  BY DEF Holds, Sanitizer
<1>4. \A k \in 0 .. n - m : /\ From(h, k + 1) = SubSeq(t, m + k + 1, n)
                            /\ Upto(h, k) = SubSeq(t, m + 1, m + k)
  BY <1>1, HeldRest
<1>5. PICK close : close = IndexOf(h, <<"ct", "nk">>)
  OBVIOUS
<1>6. /\ close # 0 => TagAt(h, close, "ct", "nk")
      /\ close \in Nat
  BY <1>2, <1>5, IndexOfTwo
<1>7. PICK open : open = IndexOf(h, <<"th", "nk">>)
  OBVIOUS
<1>8. /\ open = 0 => \A i \in 1 .. Len(h) : ~TagAt(h, i, "th", "nk")
      /\ open # 0 => /\ TagAt(h, open, "th", "nk")
                     /\ \A i \in 1 .. Len(h) : TagAt(h, i, "th", "nk") => open <= i
      /\ open \in Nat
  BY <1>2, <1>7, IndexOfTwo
<1>9. PICK d : d = SanitizeOnce(s)
  OBVIOUS
<1>10. d \in Sanitizer(Atom)
  BY <1>3, <1>9, SanitizeOnceType
(* An opening tag that is held, and what is before a closing one. *)
<1>11. ASSUME NEW j \in Nat, m < j, j < n, t[j] = "th"
       PROVE  TagAt(h, j - m, "th", "nk")
  <2>1. j \in 1 .. Len(t) /\ j - m \in 1 .. n - m /\ j - m + 1 \in 1 .. n - m
        /\ m + (j - m) = j /\ m + (j - m + 1) = j + 1
    BY <1>3, <1>11
  <2>2. t[j + 1] = "nk"
    BY <1>11, <2>1 DEF WellTagged
  <2>3. h[j - m] = "th" /\ h[j - m + 1] = "nk"
    BY <1>2, <1>11, <2>1, <2>2
  <2> QED BY <1>2, <1>3, <1>11, <2>1, <2>3 DEF TagAt
<1>12. ASSUME NEW i \in Nat, m < i, i <= n, t[i] = "ct"
       PROVE  m < i - 3 /\ TagAt(h, i - 3 - m, "th", "nk")
  <2>1. m < i - 3 /\ t[i - 3] = "th"
    BY <1>3, <1>12, OutsideCloses
  <2>2. i - 3 \in Nat /\ i - 3 < n
    BY <1>3, <1>12, <2>1
  <2> QED BY <1>11, <2>1, <2>2
<1>13. ~(close # 0 /\ (open = 0 \/ close < open))
  <2>1. SUFFICES ASSUME close # 0, open = 0 \/ close < open PROVE FALSE
    OBVIOUS
  <2>2. close \in 1 .. n - m /\ h[close] = "ct"
    BY <1>2, <1>6, <2>1 DEF TagAt
  <2>3. PICK i \in Nat : i = m + close
    BY <1>3, <2>2
  <2>4. m < i /\ i <= n /\ t[i] = "ct"
    BY <1>2, <1>3, <2>2, <2>3
  <2>5. m < i - 3 /\ TagAt(h, i - 3 - m, "th", "nk")
    BY <1>12, <2>4
  <2>6. i - 3 - m \in 1 .. Len(h) /\ i - 3 - m < close
    BY <1>2, <1>3, <2>2, <2>3, <2>5
  <2> QED BY <1>8, <2>1, <2>2, <2>5, <2>6
<1>14. CASE open # 0
  <2>1. /\ open \in 1 .. n - m /\ open + 1 <= n - m /\ h[open] = "th"
    BY <1>2, <1>8, <1>14 DEF TagAt
  <2>2. PICK j \in 1 .. Len(t) : j = m + open
    BY <1>3, <2>1
  <2>3. t[j] = "th" /\ j + 1 <= n /\ m < j
    BY <1>2, <1>3, <2>1, <2>2
  <2>4. d = [s EXCEPT !.text = @ \o Upto(h, open - 1), !.held = From(@, open + 2), !.inside = TRUE]
    BY <1>1, <1>5, <1>7, <1>9, <1>13, <1>14, Zenon DEF SanitizeOnce, ThinkClose, ThinkOpen
  <2>5. From(h, open + 2) = SubSeq(t, j + 1 + 1, n) /\ Upto(h, open - 1) = SubSeq(t, m + 1, j - 1)
    <3>1. /\ open + 1 \in 0 .. n - m /\ open - 1 \in 0 .. n - m
          /\ open + 1 + 1 = open + 2 /\ m + (open + 1) + 1 = j + 1 + 1 /\ m + (open - 1) = j - 1
      BY <1>3, <2>1, <2>2
    <3>2. /\ From(h, open + 1 + 1) = SubSeq(t, m + (open + 1) + 1, n)
          /\ Upto(h, open - 1) = SubSeq(t, m + 1, m + (open - 1))
      BY <1>4, <3>1
    <3> QED BY <3>1, <3>2
  <2>6. \A i \in m + 1 .. j - 1 : t[i] # "th"
    <3> SUFFICES ASSUME NEW i \in m + 1 .. j - 1, t[i] = "th" PROVE FALSE
      OBVIOUS
    <3>1. TagAt(h, i - m, "th", "nk")
      BY <1>3, <1>11, <2>3
    <3>2. i - m < open /\ i - m \in 1 .. Len(h)
      BY <1>2, <1>3, <2>1, <2>2
    <3> QED BY <1>8, <2>1, <3>1, <3>2
  <2>7. \A i \in m + 1 .. j - 1 : ~InThought(t, i)
    <3> SUFFICES ASSUME NEW i \in m + 1 .. j - 1 PROVE ~InThought(t, i)
      OBVIOUS
    <3>1. i \in Nat /\ m < i /\ i <= Len(t) /\ \A k \in m + 1 .. i : t[k] # "th"
      BY <1>3, <2>6
    <3> QED BY <1>3, <3>1, OutsideThoughts
  <2>8. /\ x \o s.text \in Seq(Atom) /\ Words(x \o s.text) = Spoken(t)[m]
        /\ w \o s.reasoning = Thought(t)[m]
    BY <1>3 DEF GivesOut
  <2>9. /\ Words((x \o s.text) \o SubSeq(t, m + 1, j - 1)) = Spoken(t)[j - 1]
        /\ Thought(t)[j - 1] = Thought(t)[m]
    <3>1. PICK y : y = x \o s.text
      OBVIOUS
    <3>2. y \in Seq(Atom) /\ Words(y) = Spoken(t)[m] /\ j - 1 \in Nat /\ m <= j - 1 /\ j - 1 <= Len(t)
      BY <1>3, <2>3, <2>8, <3>1
    <3>3. Words(y \o SubSeq(t, m + 1, j - 1)) = Spoken(t)[j - 1] /\ Thought(t)[j - 1] = Thought(t)[m]
      BY <1>3, <2>7, <3>2, SpokenGoesOn
    <3> QED BY <3>1, <3>3
  <2>10. Spoken(t)[j + 1] = Spoken(t)[j - 1] /\ Thought(t)[j + 1] = Thought(t)[j - 1]
    BY <2>3, ThoughtPasses
  <2>11. /\ d.held = SubSeq(t, j + 1 + 1, n) /\ d.inside
         /\ d.text = s.text \o SubSeq(t, m + 1, j - 1) /\ d.reasoning = s.reasoning
    BY <1>1, <1>3, <2>4, <2>5 DEF Sanitizer
  <2>12. Holds(t, j + 1, n, d)
    <3>1. j + 1 \in 0 .. n /\ n \in 0 .. Len(t) /\ j + 1 >= 2 /\ j + 1 - 1 = j
      BY <1>3, <2>3
    <3> QED BY <1>10, <2>3, <2>11, <3>1 DEF Holds
  <2>13. GivesOut(t, j + 1, x, w, d)
    <3>1. PICK p : p = SubSeq(t, m + 1, j - 1)
      OBVIOUS
    <3>2. p \in Seq(Atom)
      BY <1>3, <2>3, <3>1, PieceSteps
    <3>3. x \o (s.text \o p) = (x \o s.text) \o p
      <4>1. PICK q : q = s.text
        OBVIOUS
      <4>2. q \in Seq(Atom)
        BY <1>3, <4>1
      <4>3. x \o (q \o p) = (x \o q) \o p
        BY <3>2, <4>2
      <4> QED BY <4>1, <4>3
    <3>4. Words(x \o d.text) = Spoken(t)[j + 1]
      BY <2>9, <2>10, <2>11, <3>1, <3>3
    <3>5. w \o d.reasoning = Thought(t)[j + 1]
      BY <2>8, <2>9, <2>10, <2>11
    <3> QED BY <3>4, <3>5 DEF GivesOut
  <2>14. ~Settled(t, m, n, s) /\ j + 1 \in m .. n /\ j + 1 > m
    BY <1>3, <2>1, <2>3 DEF Settled
  <2> QED BY <1>9, <2>12, <2>13, <2>14
<1>15. CASE open = 0
  <2>1. PICK keep \in {0, 1} : keep = IF EndsIn(h, {"th", "ct"}) THEN 1 ELSE 0
    OBVIOUS
  <2>2. d = [s EXCEPT !.text = @ \o Upto(h, Len(h) - keep), !.held = From(@, Len(@) - keep + 1)]
    BY <1>1, <1>5, <1>7, <1>9, <1>13, <1>15, <2>1, Zenon DEF SanitizeOnce, ThinkClose, ThinkOpen
  <2>3. \A i \in m + 1 .. n - 1 : t[i] # "th"
    <3> SUFFICES ASSUME NEW i \in m + 1 .. n - 1, t[i] = "th" PROVE FALSE
      OBVIOUS
    <3>1. TagAt(h, i - m, "th", "nk") /\ i - m \in 1 .. Len(h)
      BY <1>2, <1>3, <1>11
    <3> QED BY <1>8, <1>15, <3>1
  <2>4. m < n => t[n] # "ct"
    <3> SUFFICES ASSUME m < n, t[n] = "ct" PROVE FALSE
      OBVIOUS
    <3>1. m < n - 3 /\ TagAt(h, n - 3 - m, "th", "nk")
      BY <1>3, <1>12
    <3>2. n - 3 - m \in 1 .. Len(h)
      BY <1>2, <1>3, <3>1
    <3> QED BY <1>8, <1>15, <3>1, <3>2
  <2>5. keep = IF m < n /\ t[n] = "th" THEN 1 ELSE 0
    <3>1. h # <<>> <=> m < n
      BY <1>2, <1>3
    <3>2. m < n => Last(h) = t[n]
      <4>1. m < n => h[n - m] = t[m + (n - m)] /\ m + (n - m) = n
        BY <1>2, <1>3
      <4> QED BY <1>2, <4>1 DEF Last
    <3> QED BY <2>1, <2>4, <3>1, <3>2 DEF EndsIn
  <2>6. PICK k \in m .. n : k = n - keep
    BY <1>3, <2>5
  <2>7. From(h, Len(h) - keep + 1) = SubSeq(t, k + 1, n) /\ Upto(h, Len(h) - keep) = SubSeq(t, m + 1, k)
    <3>1. PICK c : c = Len(h) - keep
      OBVIOUS
    <3>2. c \in 0 .. n - m /\ m + c + 1 = k + 1 /\ m + c = k
      BY <1>2, <1>3, <2>5, <2>6, <3>1
    <3>3. From(h, c + 1) = SubSeq(t, m + c + 1, n) /\ Upto(h, c) = SubSeq(t, m + 1, m + c)
      BY <1>4, <3>2
    <3> QED BY <3>1, <3>2, <3>3
  <2>8. \A i \in m + 1 .. k : t[i] # "th"
    BY <1>3, <2>3, <2>5, <2>6
  <2>9. \A i \in m + 1 .. k : ~InThought(t, i)
    <3> SUFFICES ASSUME NEW i \in m + 1 .. k PROVE ~InThought(t, i)
      OBVIOUS
    <3>1. i \in Nat /\ m < i /\ i <= Len(t) /\ \A j \in m + 1 .. i : t[j] # "th"
      BY <1>3, <2>8
    <3> QED BY <1>3, <3>1, OutsideThoughts
  <2>10. ~Within(t, k)
    <3> SUFFICES ASSUME NEW j \in 1 .. Len(t), t[j] = "th", j <= k, k < j + 4 PROVE FALSE
      BY DEF Within
    <3>1. j <= m
      BY <1>3, <2>8
    <3> QED BY <1>3, <2>6, <3>1 DEF Within
  <2>11. /\ x \o s.text \in Seq(Atom) /\ Words(x \o s.text) = Spoken(t)[m]
         /\ w \o s.reasoning = Thought(t)[m]
    BY <1>3 DEF GivesOut
  <2>12. /\ Words((x \o s.text) \o SubSeq(t, m + 1, k)) = Spoken(t)[k]
         /\ Thought(t)[k] = Thought(t)[m]
    <3>1. PICK y : y = x \o s.text
      OBVIOUS
    <3>2. y \in Seq(Atom) /\ Words(y) = Spoken(t)[m] /\ k \in Nat /\ m <= k /\ k <= Len(t)
      BY <1>3, <2>6, <2>11, <3>1
    <3>3. Words(y \o SubSeq(t, m + 1, k)) = Spoken(t)[k] /\ Thought(t)[k] = Thought(t)[m]
      BY <1>3, <2>9, <3>2, SpokenGoesOn
    <3> QED BY <3>1, <3>3
  <2>13. /\ d.held = SubSeq(t, k + 1, n) /\ ~d.inside
         /\ d.text = s.text \o SubSeq(t, m + 1, k) /\ d.reasoning = s.reasoning
    BY <1>1, <1>3, <2>2, <2>7 DEF Sanitizer
  <2>14. Holds(t, k, n, d)
    <3>1. k \in 0 .. n /\ n \in 0 .. Len(t)
      BY <1>3, <2>6
    <3> QED BY <1>10, <2>10, <2>13, <3>1 DEF Holds
  <2>15. GivesOut(t, k, x, w, d)
    <3>1. PICK p : p = SubSeq(t, m + 1, k)
      OBVIOUS
    <3>2. p \in Seq(Atom)
      BY <1>3, <2>6, <3>1, PieceSteps
    <3>3. x \o (s.text \o p) = (x \o s.text) \o p
      <4>1. PICK q : q = s.text
        OBVIOUS
      <4>2. q \in Seq(Atom)
        BY <1>3, <4>1
      <4>3. x \o (q \o p) = (x \o q) \o p
        BY <3>2, <4>2
      <4> QED BY <4>1, <4>3
    <3>4. Words(x \o d.text) = Spoken(t)[k]
      BY <2>12, <2>13, <3>1, <3>3
    <3>5. w \o d.reasoning = Thought(t)[k]
      BY <2>11, <2>12, <2>13
    <3> QED BY <3>4, <3>5 DEF GivesOut
  <2>16. Settled(t, k, n, d)
    <3>1. k = n \/ (k + 1 = n /\ t[n] = "th")
      BY <1>3, <2>5, <2>6
    <3> QED BY <2>13, <3>1 DEF Settled
  <2> QED BY <1>9, <2>14, <2>15, <2>16
<1> QED BY <1>14, <1>15

(* After its turns the sanitizer has nothing more to give out. *)
LEMMA SanitizeSettles ==
  ASSUME NEW t \in Seq(Atom), WellTagged(t), NEW m, NEW n, NEW s, Holds(t, m, n, s),
         NEW x \in Seq(Atom), NEW w \in Seq(Atom), GivesOut(t, m, x, w, s)
  PROVE  Settles(t, m, n, x, w, Sanitize(s))
<1>1. s \in Sanitizer(Atom) /\ m \in Nat /\ n \in Nat /\ m <= n
  BY DEF Holds
<1>2. Len(s.held) = n - m
  BY HeldPiece
<1>3. PICK N \in Nat : N = n - m
  BY <1>1
<1>4. PICK f : /\ f[0] = s /\ \A i \in 1 .. N : f[i] = SanitizeOnce(f[i - 1])
               /\ Sanitize(s) = f[N]
  <2>1. PICK f : LoopOf(f, s) /\ Sanitize(s) = f[Len(s.held)]
    BY <1>1, SanitizeTurns
  <2>2. N = Len(s.held)
    BY <1>2, <1>3
  <2> QED BY <2>1, <2>2 DEF LoopOf
<1> DEFINE Turned(i, q) ==
             \E k \in m .. n : /\ Holds(t, k, n, q) /\ GivesOut(t, k, x, w, q)
                               /\ k >= m + i \/ Settled(t, k, n, q)
           P == {i \in 0 .. N : Turned(i, f[i])}
<1>5. Turned(0, s)
  <2>1. m \in m .. n /\ m >= m + 0
    BY <1>1
  <2> QED BY <2>1
<1>6. ASSUME NEW i \in 1 .. N, NEW q, Turned(i - 1, q)
      PROVE  Turned(i, SanitizeOnce(q))
  <2>1. PICK k \in m .. n : /\ Holds(t, k, n, q) /\ GivesOut(t, k, x, w, q)
                            /\ k >= m + (i - 1) \/ Settled(t, k, n, q)
    BY <1>6
  <2>2. Turns(t, k, n, x, w, q, SanitizeOnce(q))
    <3>0. Holds(t, k, n, q) /\ GivesOut(t, k, x, w, q)
      BY <2>1
    <3>1. CASE q.inside
      BY <3>0, <3>1, TurnInside
    <3>2. CASE ~q.inside
      BY <3>0, <3>2, TurnOutside
    <3> QED BY <3>1, <3>2
  <2>3. PICK j \in k .. n :
           /\ Holds(t, j, n, SanitizeOnce(q)) /\ GivesOut(t, j, x, w, SanitizeOnce(q))
           /\ j > k \/ Settled(t, j, n, SanitizeOnce(q))
           /\ Settled(t, k, n, q) => Settled(t, j, n, SanitizeOnce(q))
    BY <2>2 DEF Turns
  <2>4. j \in m .. n /\ (j >= m + i \/ Settled(t, j, n, SanitizeOnce(q)))
    <3>1. CASE Settled(t, k, n, q)
      BY <1>1, <2>3, <3>1
    <3>2. CASE k >= m + (i - 1)
      BY <1>1, <2>3, <3>2
    <3> QED BY <2>1, <3>1, <3>2
  <2> QED BY <2>3, <2>4
<1> HIDE DEF Turned
<1>7. 0 \in P /\ N \in Nat /\ 0 \in Nat /\ 0 <= N
  BY <1>4, <1>5
<1>8. ASSUME NEW i \in 0 + 1 .. N, i - 1 \in P
      PROVE  i \in P
  <2>1. i \in 1 .. N /\ i \in 0 .. N
    OBVIOUS
  <2>2. Turned(i - 1, f[i - 1])
    BY <1>8
  <2>3. Turned(i, SanitizeOnce(f[i - 1])) /\ f[i] = SanitizeOnce(f[i - 1])
    BY <1>4, <1>6, <2>1, <2>2, Zenon
  <2>4. Turned(i, f[i])
    BY <2>3, Zenon
  <2> QED BY <2>1, <2>4
<1>9. \A i \in P : Turned(i, f[i])
  OBVIOUS
<1> HIDE DEF P
<1>10. \A i \in 0 .. N : i \in P
  BY <1>7, <1>8, UpwardInduction
<1>11. Turned(N, Sanitize(s))
  <2>1. N \in 0 .. N
    BY <1>7
  <2> QED BY <1>4, <1>9, <1>10, <2>1, Zenon
<1>12. PICK k \in m .. n : /\ Holds(t, k, n, Sanitize(s)) /\ GivesOut(t, k, x, w, Sanitize(s))
                           /\ k >= m + N \/ Settled(t, k, n, Sanitize(s))
  BY <1>11 DEF Turned
<1>13. Settled(t, k, n, Sanitize(s))
  <2>1. CASE k >= m + N
    <3>1. k = n
      BY <1>1, <1>3, <2>1
    <3> QED BY <1>1, <3>1 DEF Settled
  <2> QED BY <1>12, <2>1
<1>14. k \in m .. n
  OBVIOUS
<1>15. Holds(t, k, n, Sanitize(s)) /\ GivesOut(t, k, x, w, Sanitize(s))
  BY <1>12
<1> QED BY <1>13, <1>14, <1>15, Zenon DEF Settles

(* The sanitizer s when n atoms have come: it has given out x as text and w  *)
(* as reasoning, which are what has been spoken and thought up to m.         *)
Through(t, n, s, x, w) ==
  \E m \in 0 .. n : /\ Holds(t, m, n, s) /\ Settled(t, m, n, s)
                    /\ Words(x) = Spoken(t)[m] /\ w = Thought(t)[m]

(* An event of the text. *)
LEMMA FeedGoesThrough ==
  ASSUME NEW t \in Seq(Atom), WellTagged(t), NEW n \in Nat, NEW i \in Nat, n + i <= Len(t),
         NEW s, NEW x \in Seq(Atom), NEW w, Through(t, n, s, x, w),
         NEW d, d = SanitizerFeed(s, SubSeq(t, n + 1, n + i))
  PROVE  /\ Through(t, n + i, d, x \o d.text, w \o d.reasoning)
         /\ d.text \in Seq(Atom)
<1>1. PICK m \in 0 .. n : /\ Holds(t, m, n, s) /\ Settled(t, m, n, s)
                          /\ Words(x) = Spoken(t)[m] /\ w = Thought(t)[m]
  BY DEF Through
<1>2. PICK chunk : chunk = SubSeq(t, n + 1, n + i)
  OBVIOUS
<1>3. n + i \in Nat /\ n <= n + i /\ n <= Len(t) /\ m \in Nat /\ m <= n
  OBVIOUS
<1>4. /\ chunk \in Seq(Atom) /\ Len(chunk) = i
      /\ \A j \in 1 .. i : chunk[j] = t[n + j]
  <2>1. n + i - n = i
    OBVIOUS
  <2> QED BY <1>2, <1>3, <2>1, PieceSteps
<1>5. PICK h : h = s.held
  OBVIOUS
<1>6. h \in Seq(Atom) /\ Len(h) = n - m /\ \A j \in 1 .. n - m : h[j] = t[m + j]
  <2>1. Holds(t, m, n, s)
    BY <1>1
  <2>2. /\ Len(s.held) = n - m /\ s.held \in Seq(Atom)
        /\ \A j \in 1 .. n - m : s.held[j] = t[m + j]
    <3>1. PICK b, c : b = m /\ c = n
      OBVIOUS
    <3>2. Holds(t, b, c, s)
      BY <2>1, <3>1
    <3>3. /\ Len(s.held) = c - b /\ s.held \in Seq(Atom)
          /\ \A j \in 1 .. c - b : s.held[j] = t[b + j]
      BY <3>2, HeldPiece
    <3> QED BY <3>1, <3>3
  <2> QED BY <1>5, <2>2
<1>7. h \o chunk = SubSeq(t, m + 1, n + i)
  <2>1. PICK p : p = SubSeq(t, m + 1, n + i)
    OBVIOUS
  <2>2. /\ p \in Seq(Atom) /\ Len(p) = n + i - m
        /\ \A j \in 1 .. n + i - m : p[j] = t[m + j]
    <3>1. m <= n + i
      BY <1>3
    <3> QED BY <1>3, <2>1, <3>1, PieceSteps
  <2>3. PICK q : q = h \o chunk
    OBVIOUS
  <2>4. /\ q \in Seq(Atom) /\ Len(q) = n - m + i
        /\ \A j \in 1 .. n - m : q[j] = h[j]
        /\ \A j \in n - m + 1 .. n - m + i : q[j] = chunk[j - (n - m)]
    <3>1. /\ q \in Seq(Atom) /\ Len(q) = Len(h) + Len(chunk)
          /\ \A j \in 1 .. Len(h) + Len(chunk) :
               q[j] = IF j <= Len(h) THEN h[j] ELSE chunk[j - Len(h)]
      BY <1>4, <1>6, <2>3, ConcatProperties
    <3>2. Len(q) = n - m + i /\ \A j \in 1 .. n - m + i :
            q[j] = IF j <= n - m THEN h[j] ELSE chunk[j - (n - m)]
      BY <1>4, <1>6, <3>1
    <3>3. ASSUME NEW j \in 1 .. n - m
          PROVE  q[j] = h[j]
      <4>1. j \in 1 .. n - m + i /\ j <= n - m
        BY <1>3
      <4> QED BY <3>2, <4>1
    <3>4. ASSUME NEW j \in n - m + 1 .. n - m + i
          PROVE  q[j] = chunk[j - (n - m)]
      <4>1. j \in 1 .. n - m + i /\ ~(j <= n - m)
        BY <1>3
      <4> QED BY <3>2, <4>1
    <3> QED BY <3>1, <3>2, <3>3, <3>4
  <2>5. ASSUME NEW j \in 1 .. n + i - m
        PROVE  q[j] = p[j]
    <3>1. CASE j <= n - m
      <4>1. j \in 1 .. n - m
        BY <1>3, <3>1
      <4> QED BY <1>6, <2>2, <2>4, <4>1
    <3>2. CASE ~(j <= n - m)
      <4>1. j \in n - m + 1 .. n - m + i /\ j - (n - m) \in 1 .. i /\ n + (j - (n - m)) = m + j
        BY <1>3, <3>2
      <4>2. q[j] = chunk[j - (n - m)] /\ chunk[j - (n - m)] = t[n + (j - (n - m))]
        BY <1>4, <2>4, <4>1
      <4>3. p[j] = t[m + j]
        BY <2>2
      <4> QED BY <4>1, <4>2, <4>3
    <3> QED BY <3>1, <3>2
  <2>6. Len(q) = Len(p)
    BY <1>3, <2>2, <2>4
  <2>7. q = p
    BY <2>2, <2>4, <2>5, <2>6, SeqEqual
  <2> QED BY <2>1, <2>3, <2>7
<1>8. PICK q : q = [s EXCEPT !.held = @ \o chunk, !.text = <<>>, !.reasoning = <<>>]
  OBVIOUS
<1>9. d = Sanitize(q)
  BY <1>2, <1>8 DEF SanitizerFeed
<1>10. s \in Sanitizer(Atom)
  BY <1>1 DEF Holds
<1>11. /\ q \in Sanitizer(Atom) /\ q.held = SubSeq(t, m + 1, n + i) /\ q.inside = s.inside
       /\ q.text = <<>> /\ q.reasoning = <<>>
  <2>1. h \o chunk \in Seq(Atom) /\ <<>> \in Seq(Atom)
    BY <1>4, <1>6
  <2>2. /\ q \in Sanitizer(Atom) /\ q.held = h \o chunk /\ q.inside = s.inside
        /\ q.text = <<>> /\ q.reasoning = <<>>
    BY <1>5, <1>8, <1>10, <2>1 DEF Sanitizer
  <2> QED BY <1>7, <2>2
<1>12. Holds(t, m, n + i, q)
  <2>1. m \in 0 .. n + i /\ n + i \in 0 .. Len(t)
    BY <1>3
  <2> QED BY <1>1, <1>11, <2>1 DEF Holds
<1>13. w \in Seq(Atom)
  <2>1. m \in 0 .. Len(t)
    BY <1>3
  <2>2. PICK g : g = Thought(t)
    OBVIOUS
  <2>3. g \in [0 .. Len(t) -> Seq(Atom)]
    BY <2>2, ThoughtSteps
  <2> QED BY <1>1, <2>1, <2>2, <2>3
<1>14. GivesOut(t, m, x, w, q)
  <2>1. x \o <<>> = x /\ w \o <<>> = w
    BY <1>13
  <2> QED BY <1>1, <1>11, <2>1 DEF GivesOut
<1>15. PICK k \in m .. n + i : /\ Holds(t, k, n + i, d) /\ GivesOut(t, k, x, w, d)
                               /\ Settled(t, k, n + i, d)
  <2>1. PICK l : l = n + i
    OBVIOUS
  <2>2. Holds(t, m, l, q)
    BY <1>12, <2>1
  <2>3. Settles(t, m, l, x, w, Sanitize(q))
    BY <1>13, <1>14, <2>2, SanitizeSettles
  <2>4. Settles(t, m, n + i, x, w, d)
    BY <1>9, <2>1, <2>3
  <2> QED BY <2>4 DEF Settles
<1>16. k \in 0 .. n + i /\ d.text \in Seq(Atom)
  BY <1>3, <1>15 DEF Holds, Sanitizer
<1> QED BY <1>15, <1>16 DEF Through, GivesOut

(* At the end of the text the sanitizer has given out all of it. *)
LEMMA AllGoesThrough ==
  ASSUME NEW t \in Seq(Atom), WellTagged(t), NEW s, NEW x, NEW w, Through(t, Len(t), s, x, w)
  PROVE  /\ Words(x) = Spoken(t)[Len(t)] /\ w = Thought(t)[Len(t)]
         /\ s.held = <<>>
<1>1. PICK m \in 0 .. Len(t) : /\ Holds(t, m, Len(t), s) /\ Settled(t, m, Len(t), s)
                               /\ Words(x) = Spoken(t)[m] /\ w = Thought(t)[m]
  BY DEF Through
<1>2. Len(t) \in Nat /\ m \in Nat
  OBVIOUS
<1>3. m = Len(t)
  <2>1. CASE s.inside
    <3>1. t[m - 1] = "th" /\ m - 1 \in 1 .. Len(t) /\ Len(t) <= m + 2
      BY <1>1, <1>2, <2>1 DEF Holds, Settled
    <3>2. m - 1 + 4 <= Len(t)
      BY <3>1 DEF WellTagged
    <3> QED BY <1>2, <3>1, <3>2
  <2>2. CASE ~s.inside
    <3>1. m = Len(t) \/ (m + 1 = Len(t) /\ t[Len(t)] = "th")
      BY <1>1, <2>2 DEF Settled
    <3>2. ~(m + 1 = Len(t) /\ t[Len(t)] = "th")
      <4> SUFFICES ASSUME m + 1 = Len(t), t[Len(t)] = "th" PROVE FALSE
        OBVIOUS
      <4>1. Len(t) \in 1 .. Len(t)
        BY <1>2
      <4>2. Len(t) + 4 <= Len(t)
        BY <4>1 DEF WellTagged
      <4> QED BY <1>2, <4>2
    <3> QED BY <3>1, <3>2
  <2> QED BY <2>1, <2>2
<1>4. s.held \in Seq(Atom) /\ Len(s.held) = Len(t) - m
  BY <1>1, HeldPiece
<1>5. s.held = <<>>
  BY <1>2, <1>3, <1>4
<1> QED BY <1>1, <1>3, <1>5

-----------------------------------------------------------------------------
(* What an answer says, item by item *)

(* Pieces without a tag, and whole ones, make a well-tagged text.          *)
Untagged(b) == \A i \in 1 .. Len(b) : b[i] \notin {"th", "ct"}

LEMMA UntaggedJoined ==
  ASSUME NEW a \in Seq(Atom), NEW b \in Seq(Atom), Untagged(a), Untagged(b)
  PROVE  Untagged(a \o b)
  BY DEF Untagged

LEMMA UntaggedIsWell ==
  ASSUME NEW a \in Seq(Atom), Untagged(a)
  PROVE  WellTagged(a)
  BY DEF Untagged, WellTagged

LEMMA WellJoined ==
  ASSUME NEW a \in Seq(Atom), NEW b \in Seq(Atom), WellTagged(a), WellTagged(b)
  PROVE  WellTagged(a \o b)
<1>1. PICK c : c = a \o b
  OBVIOUS
<1>2. PICK n \in Nat : n = Len(a)
  OBVIOUS
<1>3. PICK l \in Nat : l = Len(b)
  OBVIOUS
<1>4. /\ Len(c) = n + l /\ \A i \in 1 .. n : c[i] = a[i]
      /\ \A i \in 1 .. l : c[n + i] = b[i]
  BY <1>1, <1>2, <1>3
<1>5. ASSUME NEW j \in 1 .. Len(c), c[j] = "th"
      PROVE  /\ j + 4 <= Len(c)
             /\ c[j + 1] = "nk" /\ c[j + 2] = "w" /\ c[j + 3] = "ct" /\ c[j + 4] = "nk"
  <2>1. CASE j <= n
    <3>1. j \in 1 .. Len(a) /\ a[j] = "th"
      BY <1>2, <1>4, <1>5, <2>1
    <3>2. j + 4 <= n /\ a[j + 1] = "nk" /\ a[j + 2] = "w" /\ a[j + 3] = "ct" /\ a[j + 4] = "nk"
      BY <1>2, <3>1 DEF WellTagged
    <3>3. j + 1 \in 1 .. n /\ j + 2 \in 1 .. n /\ j + 3 \in 1 .. n /\ j + 4 \in 1 .. n
      BY <3>2
    <3> QED BY <1>4, <3>2, <3>3
  <2>2. CASE ~(j <= n)
    <3>1. PICK i \in 1 .. l : j = n + i
      <4>1. j - n \in 1 .. l /\ j = n + (j - n)
        BY <1>4, <2>2
      <4> QED BY <4>1
    <3>2. i \in 1 .. Len(b) /\ b[i] = "th"
      BY <1>3, <1>4, <1>5, <3>1
    <3>3. i + 4 <= l /\ b[i + 1] = "nk" /\ b[i + 2] = "w" /\ b[i + 3] = "ct" /\ b[i + 4] = "nk"
      BY <1>3, <3>2 DEF WellTagged
    <3>4. /\ i + 1 \in 1 .. l /\ i + 2 \in 1 .. l /\ i + 3 \in 1 .. l /\ i + 4 \in 1 .. l
          /\ n + (i + 1) = j + 1 /\ n + (i + 2) = j + 2 /\ n + (i + 3) = j + 3 /\ n + (i + 4) = j + 4
      BY <3>1, <3>3
    <3>5. /\ c[n + (i + 1)] = "nk" /\ c[n + (i + 2)] = "w"
          /\ c[n + (i + 3)] = "ct" /\ c[n + (i + 4)] = "nk"
      BY <1>4, <3>3, <3>4
    <3> QED BY <1>4, <3>1, <3>3, <3>4, <3>5
  <2> QED BY <2>1, <2>2
<1>6. ASSUME NEW j \in 1 .. Len(c), c[j] = "ct"
      PROVE  j > 3 /\ c[j - 3] = "th"
  <2>1. CASE j <= n
    <3>1. j \in 1 .. Len(a) /\ a[j] = "ct"
      BY <1>2, <1>4, <1>6, <2>1
    <3>2. j > 3 /\ a[j - 3] = "th"
      BY <3>1 DEF WellTagged
    <3> QED BY <1>4, <2>1, <3>2
  <2>2. CASE ~(j <= n)
    <3>1. PICK i \in 1 .. l : j = n + i
      <4>1. j - n \in 1 .. l /\ j = n + (j - n)
        BY <1>4, <2>2
      <4> QED BY <4>1
    <3>2. i \in 1 .. Len(b) /\ b[i] = "ct"
      BY <1>3, <1>4, <1>6, <3>1
    <3>3. i > 3 /\ b[i - 3] = "th"
      BY <3>2 DEF WellTagged
    <3>4. i - 3 \in 1 .. l /\ n + (i - 3) = j - 3
      BY <3>1, <3>3
    <3>5. c[n + (i - 3)] = "th"
      BY <1>4, <3>3, <3>4
    <3> QED BY <3>1, <3>3, <3>4, <3>5
  <2> QED BY <2>1, <2>2
<1> QED BY <1>1, <1>5, <1>6 DEF WellTagged

(* The items: only a thought has tags of thoughts. *)
LEMMA ThoughtIsWell ==
  /\ Item["thought"] = <<"th", "nk", "w", "ct", "nk">>
  /\ WellTagged(<<"th", "nk", "w", "ct", "nk">>)
<1>1. Item["thought"] = <<"th", "nk", "w", "ct", "nk">>
  <2>1. Item["thought"] = <<"th", "nk">> \o <<"w">> \o <<"ct", "nk">>
    <3>1. Item["thought"] = ThinkOpen \o <<"w">> \o ThinkClose
      BY DEF Item
    <3> QED BY <3>1 DEF ThinkOpen, ThinkClose
  <2>2. <<"th", "nk">> \o <<"w">> \o <<"ct", "nk">> = <<"th", "nk", "w", "ct", "nk">>
    <3>1. PICK a : a = <<"th", "nk">>
      OBVIOUS
    <3>2. PICK b : b = <<"w">>
      OBVIOUS
    <3>3. PICK c : c = <<"ct", "nk">>
      OBVIOUS
    <3>4. /\ a \in Seq(Atom) /\ b \in Seq(Atom) /\ c \in Seq(Atom)
          /\ Len(a) = 2 /\ Len(b) = 1 /\ Len(c) = 2
      BY <3>1, <3>2, <3>3, CallAtoms
    <3>5. PICK d : d = a \o b \o c
      OBVIOUS
    <3>6. /\ d \in Seq(Atom) /\ Len(d) = 5
          /\ d[1] = a[1] /\ d[2] = a[2] /\ d[3] = b[1] /\ d[4] = c[1] /\ d[5] = c[2]
      <4>1. PICK e : e = a \o b
        OBVIOUS
      <4>2. e \in Seq(Atom) /\ Len(e) = 3 /\ e[1] = a[1] /\ e[2] = a[2] /\ e[3] = b[1]
        <5>1. /\ e \in Seq(Atom) /\ Len(e) = Len(a) + Len(b)
              /\ \A i \in 1 .. Len(a) + Len(b) : e[i] = IF i <= Len(a) THEN a[i] ELSE b[i - Len(a)]
          BY <3>4, <4>1, ConcatProperties
        <5> QED BY <3>4, <5>1
      <4>3. d = e \o c
        BY <3>5, <4>1
      <4>4. /\ d \in Seq(Atom) /\ Len(d) = Len(e) + Len(c)
            /\ \A i \in 1 .. Len(e) + Len(c) : d[i] = IF i <= Len(e) THEN e[i] ELSE c[i - Len(e)]
        BY <3>4, <4>2, <4>3, ConcatProperties
      <4>5. d[1] = e[1] /\ d[2] = e[2] /\ d[3] = e[3] /\ d[4] = c[1] /\ d[5] = c[2]
        BY <3>4, <4>2, <4>4
      <4> QED BY <3>4, <4>2, <4>4, <4>5
    <3>7. d = <<"th", "nk", "w", "ct", "nk">>
      BY <3>1, <3>2, <3>3, <3>6
    <3> QED BY <3>1, <3>2, <3>3, <3>5, <3>7
  <2> QED BY <2>1, <2>2
<1>2. WellTagged(<<"th", "nk", "w", "ct", "nk">>)
  BY DEF WellTagged
<1> QED BY <1>1, <1>2

LEMMA ItemsUntagged ==
  ASSUME NEW x \in DOMAIN Item, x # "thought"
  PROVE  Untagged(Item[x])
<1> USE CallAtoms
<1>1. /\ OpenTag \in Seq(Atom) /\ CloseTag \in Seq(Atom) /\ Fence \in Seq(Atom)
      /\ <<"w">> \in Seq(Atom) /\ <<"nl">> \in Seq(Atom) /\ <<"tick">> \in Seq(Atom)
      /\ <<"orphan">> \in Seq(Atom) /\ <<"section">> \in Seq(Atom) /\ <<"corrupt">> \in Seq(Atom)
      /\ <<"callA", "end">> \in Seq(Atom) /\ <<"callB", "end">> \in Seq(Atom)
      /\ <<"callU", "end">> \in Seq(Atom)
      /\ <<"callA", "end", "nl", "callB", "end">> \in Seq(Atom)
  BY DEF OpenTag, CloseTag, Fence
<1>2. /\ Untagged(OpenTag) /\ Untagged(CloseTag) /\ Untagged(Fence)
      /\ Untagged(<<"w">>) /\ Untagged(<<"nl">>) /\ Untagged(<<"tick">>)
      /\ Untagged(<<"orphan">>) /\ Untagged(<<"section">>) /\ Untagged(<<"corrupt">>)
      /\ Untagged(<<"callA", "end">>) /\ Untagged(<<"callB", "end">>)
      /\ Untagged(<<"callU", "end">>)
      /\ Untagged(<<"callA", "end", "nl", "callB", "end">>)
  BY DEF OpenTag, CloseTag, Fence, Untagged
<1> DEFINE U == {b \in Seq(Atom) : Untagged(b)}
<1>3. \A p, q \in U : p \o q \in U
  BY UntaggedJoined
<1>4. /\ OpenTag \in U /\ CloseTag \in U /\ Fence \in U
      /\ <<"w">> \in U /\ <<"nl">> \in U /\ <<"tick">> \in U
      /\ <<"orphan">> \in U /\ <<"section">> \in U /\ <<"corrupt">> \in U
      /\ <<"callA", "end">> \in U /\ <<"callB", "end">> \in U
      /\ <<"callU", "end">> \in U
      /\ <<"callA", "end", "nl", "callB", "end">> \in U
  BY <1>1, <1>2
<1>5. \A b \in U : Untagged(b)
  OBVIOUS
<1> HIDE DEF U
<1>6. /\ Tagged("callA") \in U /\ Tagged("callB") \in U
      /\ Tagged("callU") \in U
  BY <1>3, <1>4 DEF Tagged
<1>7. \A p \in U : Fenced(p) \in U
  BY <1>3, <1>4 DEF Fenced
<1>8. /\ <<"tick">> \o OpenTag \o <<"tick">> \in U
      /\ OpenTag \o <<"callA", "end", "nl", "callB", "end">> \o CloseTag \in U
      /\ <<"callA", "end">> \o CloseTag \in U
      /\ OpenTag \o CloseTag \in U
      /\ OpenTag \o <<"w">> \o CloseTag \in U
      /\ Fenced(Tagged("callU")) \in U /\ Fenced(<<"callA", "end">>) \in U
  BY <1>3, <1>4, <1>6, <1>7
<1>9. x \in {"word", "mention", "example", "callA", "callB", "pair",
             "unopened", "raw", "fenced", "unknown", "rawUnknown", "empty", "junk",
             "orphan", "section", "corrupt"}
  BY DEF Item
<1>10. /\ Item["word"] \in U /\ Item["mention"] \in U
       /\ Item["example"] \in U
       /\ Item["callA"] \in U /\ Item["callB"] \in U
       /\ Item["pair"] \in U /\ Item["unopened"] \in U
       /\ Item["raw"] \in U /\ Item["fenced"] \in U
  BY <1>4, <1>6, <1>8 DEF Item
<1>11. /\ Item["unknown"] \in U /\ Item["rawUnknown"] \in U
       /\ Item["empty"] \in U /\ Item["junk"] \in U
       /\ Item["orphan"] \in U /\ Item["section"] \in U
       /\ Item["corrupt"] \in U
  BY <1>4, <1>6, <1>8 DEF Item
<1> QED BY <1>5, <1>9, <1>10, <1>11

(* What of the text t is spoken and thought up to m, where no thought goes   *)
(* on: x and w.                                                            *)
Says(t, m, x, w) == Words(x) = Spoken(t)[m] /\ w = Thought(t)[m] /\ ~Within(t, m)

(* A newline, an item without thoughts, and a thought. *)
LEMMA NewlinePasses ==
  ASSUME NEW t \in Seq(Atom), NEW m \in Nat, m + 1 <= Len(t), t[m + 1] = "nl",
         NEW x, NEW w, Says(t, m, x, w)
  PROVE  Says(t, m + 1, x, w)
<1>1. PICK n \in 1 .. Len(t) : n = m + 1
  OBVIOUS
<1>2. t[n] = "nl" /\ m = n - 1
  BY <1>1
<1>3. PICK f : f = Spoken(t)
  OBVIOUS
<1>4. PICK g : g = Thought(t)
  OBVIOUS
<1>5. f[n] = f[n - 1]
  BY <1>2, <1>3, SpokenSteps
<1>6. g[n] = g[n - 1]
  <2>1. t[n] # "w"
    BY <1>2
  <2> QED BY <1>4, <2>1, ThoughtSteps
<1>7. ~Within(t, n)
  <2>1. SUFFICES ASSUME NEW j \in 1 .. Len(t), t[j] = "th", j <= n, n < j + 4
                 PROVE  FALSE
    BY DEF Within
  <2>2. j <= m /\ m < j + 4
    BY <1>1, <1>2, <2>1
  <2> QED BY <2>1, <2>2 DEF Says, Within
<1>8. Words(x) = f[n] /\ w = g[n]
  BY <1>2, <1>3, <1>4, <1>5, <1>6 DEF Says
<1> QED BY <1>1, <1>3, <1>4, <1>7, <1>8 DEF Says

LEMMA PlainPasses ==
  ASSUME NEW t \in Seq(Atom), NEW m \in Nat, NEW b \in Seq(Atom), m + Len(b) <= Len(t),
         \A i \in 1 .. Len(b) : t[m + i] = b[i], Untagged(b),
         NEW x \in Seq(Atom), NEW w, Says(t, m, x, w)
  PROVE  Says(t, m + Len(b), x \o b, w)
<1>1. PICK n \in Nat : n = m + Len(b)
  OBVIOUS
<1>2. m <= n /\ n <= Len(t)
  BY <1>1
<1>3. \A j \in m + 1 .. n : t[j] # "th"
  <2> SUFFICES ASSUME NEW j \in m + 1 .. n PROVE t[j] # "th"
    OBVIOUS
  <2>1. j - m \in 1 .. Len(b) /\ m + (j - m) = j
    BY <1>1
  <2>2. t[j] = b[j - m]
    BY <2>1
  <2> QED BY <2>1, <2>2 DEF Untagged
<1>4. \A i \in m + 1 .. n : ~InThought(t, i)
  <2> SUFFICES ASSUME NEW i \in m + 1 .. n PROVE ~InThought(t, i)
    OBVIOUS
  <2>1. i \in Nat /\ m < i /\ i <= Len(t) /\ \A j \in m + 1 .. i : t[j] # "th"
    BY <1>2, <1>3
  <2>2. ~Within(t, m)
    BY DEF Says
  <2> QED BY <2>1, <2>2, OutsideThoughts
<1>5. /\ Words(x \o SubSeq(t, m + 1, n)) = Spoken(t)[n] /\ Thought(t)[n] = Thought(t)[m]
  <2>1. Words(x) = Spoken(t)[m]
    BY DEF Says
  <2> QED BY <1>2, <1>4, <2>1, SpokenGoesOn
<1>6. SubSeq(t, m + 1, n) = b
  <2>1. PICK p : p = SubSeq(t, m + 1, n)
    OBVIOUS
  <2>2. /\ p \in Seq(Atom) /\ Len(p) = n - m
        /\ \A i \in 1 .. n - m : p[i] = t[m + i]
    BY <1>2, <2>1, PieceSteps
  <2>3. Len(p) = Len(b) /\ \A i \in 1 .. Len(p) : p[i] = b[i]
    BY <1>1, <2>2
  <2>4. p = b
    BY <2>2, <2>3, SeqEqual
  <2> QED BY <2>1, <2>4
<1>7. ~Within(t, n)
  <2>1. SUFFICES ASSUME NEW j \in 1 .. Len(t), t[j] = "th", j <= n, n < j + 4
                 PROVE  FALSE
    BY DEF Within
  <2>2. j <= m /\ m < j + 4
    BY <1>2, <1>3, <2>1
  <2> QED BY <2>1, <2>2 DEF Says, Within
<1>8. Says(t, n, x \o b, w)
  BY <1>5, <1>6, <1>7 DEF Says
<1> QED BY <1>1, <1>8

LEMMA OneThoughtPasses ==
  ASSUME NEW t \in Seq(Atom), WellTagged(t), NEW m \in Nat, m + 5 <= Len(t), t[m + 1] = "th",
         NEW x, NEW w, Says(t, m, x, w)
  PROVE  Says(t, m + 5, x, Append(w, "w"))
<1>1. PICK j \in 1 .. Len(t) : j = m + 1
  OBVIOUS
<1>2. /\ Spoken(t)[j + 1] = Spoken(t)[j - 1] /\ Thought(t)[j + 1] = Thought(t)[j - 1]
      /\ Spoken(t)[j + 4] = Spoken(t)[j + 1]
      /\ Thought(t)[j + 4] = Append(Thought(t)[j + 1], "w")
      /\ ~Within(t, j + 4)
  BY <1>1, ThoughtPasses
<1>3. j - 1 = m /\ j + 4 = m + 5
  BY <1>1
<1>4. Words(x) = Spoken(t)[j - 1] /\ w = Thought(t)[j - 1]
  BY <1>3 DEF Says
<1>5. Says(t, j + 4, x, Append(w, "w"))
  BY <1>2, <1>4 DEF Says
<1> QED BY <1>3, <1>5

Outer(item) == IF item = "thought" THEN <<>> ELSE Item[item]
Inner(item) == IF item = "thought" THEN <<"w">> ELSE <<>>

Outers(items) == FlattenSeq([i \in 1 .. Len(items) |-> Outer(items[i])])
Inners(items) == FlattenSeq([i \in 1 .. Len(items) |-> Inner(items[i])])

(* An item, after the newline that parts it from the one before. *)
LEMMA ItemPasses ==
  ASSUME NEW t \in Seq(Atom), WellTagged(t), NEW m \in Nat, NEW item \in DOMAIN Item,
         m + Len(Item[item]) <= Len(t), \A i \in 1 .. Len(Item[item]) : t[m + i] = Item[item][i],
         NEW x \in Seq(Atom), NEW w \in Seq(Atom), Says(t, m, x, w)
  PROVE  Says(t, m + Len(Item[item]), x \o Outer(item), w \o Inner(item))
<1>1. PICK b : b = Item[item]
  OBVIOUS
<1>2. b \in Seq(Atom) /\ m + Len(b) <= Len(t) /\ \A i \in 1 .. Len(b) : t[m + i] = b[i]
  BY <1>1, ItemType
<1>3. \A y \in Seq(Atom) : y \o <<>> = y
  OBVIOUS
<1>4. CASE item = "thought"
  <2>1. b = <<"th", "nk", "w", "ct", "nk">>
    BY <1>1, <1>4, ThoughtIsWell
  <2>2. Len(b) = 5 /\ b[1] = "th" /\ 1 \in 1 .. Len(b)
    BY <2>1
  <2>3. m + 5 <= Len(t) /\ t[m + 1] = "th"
    BY <1>2, <2>2
  <2>4. Says(t, m + 5, x, Append(w, "w"))
    BY <2>3, OneThoughtPasses
  <2>5. w \o <<"w">> = Append(w, "w")
    BY CallAtoms
  <2>6. Outer(item) = <<>> /\ Inner(item) = <<"w">>
    BY <1>4 DEF Outer, Inner
  <2>7. x \o Outer(item) = x
    BY <1>3, <2>6, Zenon
  <2> QED BY <1>1, <2>2, <2>4, <2>5, <2>6, <2>7
<1>5. CASE item # "thought"
  <2>1. Untagged(b)
    BY <1>1, <1>5, ItemsUntagged
  <2>2. Says(t, m + Len(b), x \o b, w)
    BY <1>2, <2>1, PlainPasses
  <2>3. Outer(item) = b /\ Inner(item) = <<>>
    BY <1>1, <1>5 DEF Outer, Inner
  <2>4. w \o Inner(item) = w
    BY <1>3, <2>3, Zenon
  <2> QED BY <1>1, <2>2, <2>3, <2>4
<1> QED BY <1>4, <1>5

LEMMA AnswerSays ==
  ASSUME NEW items \in Answers
  PROVE  /\ TextOf(items) \in Seq(Atom) /\ WellTagged(TextOf(items))
         /\ Words(Outers(items)) = Spoken(TextOf(items))[Len(TextOf(items))]
         /\ Inners(items) = Thought(TextOf(items))[Len(TextOf(items))]
<1>1. PICK N \in Nat : N = Len(items)
  BY StreamAssumption
<1>2. \A i \in 1 .. N : items[i] \in DOMAIN Item
  BY <1>1, StreamAssumption
<1>3. PICK ss : ss = [i \in 1 .. Len(items) |-> (IF i = 1 THEN <<>> ELSE <<"nl">>) \o Item[items[i]]]
  OBVIOUS
<1>4. PICK os : os = [i \in 1 .. Len(items) |-> Outer(items[i])]
  OBVIOUS
<1>5. PICK rs : rs = [i \in 1 .. Len(items) |-> Inner(items[i])]
  OBVIOUS
<1>6. TextOf(items) = FlattenSeq(ss) /\ Outers(items) = FlattenSeq(os) /\ Inners(items) = FlattenSeq(rs)
  BY <1>3, <1>4, <1>5 DEF TextOf, Outers, Inners
<1>7. <<>> \in Seq(Atom) /\ <<"nl">> \in Seq(Atom) /\ <<"w">> \in Seq(Atom)
  BY CallAtoms
<1>8. \A i \in 1 .. N : /\ Item[items[i]] \in Seq(Atom)
                        /\ Outer(items[i]) \in Seq(Atom) /\ Inner(items[i]) \in Seq(Atom)
                        /\ (IF i = 1 THEN <<>> ELSE <<"nl">>) \o Item[items[i]] \in Seq(Atom)
  <2> SUFFICES ASSUME NEW i \in 1 .. N
               PROVE  /\ Item[items[i]] \in Seq(Atom)
                      /\ Outer(items[i]) \in Seq(Atom) /\ Inner(items[i]) \in Seq(Atom)
                      /\ (IF i = 1 THEN <<>> ELSE <<"nl">>) \o Item[items[i]] \in Seq(Atom)
    OBVIOUS
  <2>1. Item[items[i]] \in Seq(Atom)
    BY <1>2, ItemType
  <2>2. Outer(items[i]) \in Seq(Atom) /\ Inner(items[i]) \in Seq(Atom)
    BY <1>7, <2>1 DEF Outer, Inner
  <2>3. (IF i = 1 THEN <<>> ELSE <<"nl">>) \in Seq(Atom)
    BY <1>7
  <2> QED BY <2>1, <2>2, <2>3
<1>9. ss \in Seq(Seq(Atom)) /\ Len(ss) = N
  BY <1>1, <1>3, <1>8
<1>10. os \in Seq(Seq(Atom)) /\ Len(os) = N
  BY <1>1, <1>4, <1>8
<1>11. rs \in Seq(Seq(Atom)) /\ Len(rs) = N
  BY <1>1, <1>5, <1>8
<1>12. PICK f \in [0 .. N -> Seq(Atom)] : IsBuilt(f, ss) /\ f[N] = FlattenSeq(ss)
  <2>1. PICK f \in [0 .. Len(ss) -> Seq(Atom)] : IsBuilt(f, ss) /\ f[Len(ss)] = FlattenSeq(ss)
    BY <1>9, BuiltFlat
  <2> QED BY <1>9, <2>1
<1>13. PICK o \in [0 .. N -> Seq(Atom)] : IsBuilt(o, os) /\ o[N] = FlattenSeq(os)
  <2>1. PICK o \in [0 .. Len(os) -> Seq(Atom)] : IsBuilt(o, os) /\ o[Len(os)] = FlattenSeq(os)
    BY <1>10, BuiltFlat
  <2> QED BY <1>10, <2>1
<1>14. PICK r \in [0 .. N -> Seq(Atom)] : IsBuilt(r, rs) /\ r[N] = FlattenSeq(rs)
  <2>1. PICK r \in [0 .. Len(rs) -> Seq(Atom)] : IsBuilt(r, rs) /\ r[Len(rs)] = FlattenSeq(rs)
    BY <1>11, BuiltFlat
  <2> QED BY <1>11, <2>1
<1>15. PICK t \in Seq(Atom) : t = f[N]
  BY <1>1
<1>16. \A k \in 1 .. N :
         /\ f[k - 1] \in Seq(Atom) /\ f[k] = f[k - 1] \o ss[k]
         /\ o[k - 1] \in Seq(Atom) /\ o[k] = o[k - 1] \o os[k]
         /\ r[k - 1] \in Seq(Atom) /\ r[k] = r[k - 1] \o rs[k]
  <2> SUFFICES ASSUME NEW k \in 1 .. N
               PROVE  /\ f[k - 1] \in Seq(Atom) /\ f[k] = f[k - 1] \o ss[k]
                      /\ o[k - 1] \in Seq(Atom) /\ o[k] = o[k - 1] \o os[k]
                      /\ r[k - 1] \in Seq(Atom) /\ r[k] = r[k - 1] \o rs[k]
    OBVIOUS
  <2>1. k - 1 \in 0 .. N
    BY <1>1
  <2>2. k \in 1 .. Len(ss) /\ k \in 1 .. Len(os) /\ k \in 1 .. Len(rs)
    BY <1>9, <1>10, <1>11
  <2>3. f[k - 1] \in Seq(Atom)
    BY <1>12, <2>1
  <2>4. o[k - 1] \in Seq(Atom)
    BY <1>13, <2>1
  <2>5. r[k - 1] \in Seq(Atom)
    BY <1>14, <2>1
  <2>6. f[k] = f[k - 1] \o ss[k]
    BY <1>12, <2>2, Zenon DEF IsBuilt
  <2>7. o[k] = o[k - 1] \o os[k]
    BY <1>13, <2>2, Zenon DEF IsBuilt
  <2>8. r[k] = r[k - 1] \o rs[k]
    BY <1>14, <2>2, Zenon DEF IsBuilt
  <2> QED BY <2>3, <2>4, <2>5, <2>6, <2>7, <2>8
<1>17. f[0] = <<>> /\ o[0] = <<>> /\ r[0] = <<>>
  BY <1>12, <1>13, <1>14 DEF IsBuilt
<1>18. \A k \in 1 .. N :
         /\ ss[k] = (IF k = 1 THEN <<>> ELSE <<"nl">>) \o Item[items[k]]
         /\ os[k] = Outer(items[k]) /\ rs[k] = Inner(items[k])
  BY <1>1, <1>3, <1>4, <1>5
<1>19. WellTagged(t)
  <2> DEFINE P == {k \in 0 .. N : WellTagged(f[k])}
  <2>1. WellTagged(f[0])
    BY <1>17 DEF WellTagged
  <2>2. ASSUME NEW k \in 1 .. N, WellTagged(f[k - 1])
        PROVE  WellTagged(f[k])
    <3>1. WellTagged(Item[items[k]])
      BY <1>2, <1>8, ThoughtIsWell, ItemsUntagged, UntaggedIsWell
    <3>2. PICK b \in Seq(Atom) : b = Item[items[k]] /\ WellTagged(b)
      BY <1>8, <3>1
    <3>3. PICK a \in Seq(Atom) : a = IF k = 1 THEN <<>> ELSE <<"nl">>
      BY <1>7
    <3>4. WellTagged(a)
      BY <3>3 DEF WellTagged
    <3>5. WellTagged(a \o b) /\ a \o b \in Seq(Atom)
      BY <3>2, <3>4, WellJoined
    <3>6. ss[k] = a \o b
      BY <1>18, <3>2, <3>3
    <3>7. PICK p \in Seq(Atom) : p = f[k - 1]
      BY <1>16
    <3>8. PICK q \in Seq(Atom) : q = a \o b
      BY <3>5
    <3>9. WellTagged(p \o q)
      BY <2>2, <3>5, <3>7, <3>8, WellJoined
    <3> QED BY <1>16, <3>6, <3>7, <3>8, <3>9
  <2>3. \A k \in P : WellTagged(f[k])
    OBVIOUS
  <2>4. 0 \in P /\ N \in Nat /\ 0 \in Nat /\ 0 <= N
    BY <1>1, <2>1
  <2>5. ASSUME NEW k \in 0 + 1 .. N, k - 1 \in P
        PROVE  k \in P
    <3>1. k \in 1 .. N /\ k \in 0 .. N
      OBVIOUS
    <3> QED BY <2>2, <2>5, <3>1
  <2> HIDE DEF P
  <2>6. \A k \in 0 .. N : k \in P
    BY <2>4, <2>5, UpwardInduction
  <2>7. N \in 0 .. N
    BY <1>1
  <2>8. WellTagged(f[N])
    BY <2>3, <2>6, <2>7
  <2> QED BY <1>15, <2>8
<1>20. \A k \in 1 .. N :
         /\ Len(f[k]) = Len(f[k - 1]) + Len(ss[k]) /\ Len(f[k]) <= Len(t)
         /\ \A i \in 1 .. Len(ss[k]) : t[Len(f[k - 1]) + i] = ss[k][i]
  <2> SUFFICES ASSUME NEW k \in 1 .. N
               PROVE  /\ Len(f[k]) = Len(f[k - 1]) + Len(ss[k]) /\ Len(f[k]) <= Len(t)
                      /\ \A i \in 1 .. Len(ss[k]) : t[Len(f[k - 1]) + i] = ss[k][i]
    OBVIOUS
  <2>1. f \in [0 .. Len(ss) -> Seq(Atom)] /\ k \in 1 .. Len(ss)
    BY <1>9, <1>12
  <2>2. t = f[Len(ss)]
    BY <1>9, <1>15
  <2>3. IsBuilt(f, ss) /\ ss \in Seq(Seq(Atom))
    BY <1>9, <1>12
  <2>4. IsPlaced(f, ss, k)
    BY <2>1, <2>3, BuiltPieces, Zenon
  <2> QED BY <2>2, <2>4, Zenon DEF IsPlaced
<1> DEFINE Said(k) == Says(t, Len(f[k]), o[k], r[k])
<1>21. Said(0)
  <2>1. Len(f[0]) = 0
    BY <1>17
  <2>2. Spoken(t)[0] = <<>> /\ Thought(t)[0] = <<>>
    BY SpokenSteps, ThoughtSteps
  <2>3. ~Within(t, 0)
    BY DEF Within
  <2> QED BY <1>17, <2>1, <2>2, <2>3, WordsOfNothing, Zenon DEF Says
<1>22. ASSUME NEW k \in 1 .. N, Said(k - 1)
       PROVE  Said(k)
  <2>1. PICK m \in Nat : m = Len(f[k - 1])
    BY <1>16
  <2>2. PICK x \in Seq(Atom) : x = o[k - 1]
    BY <1>16
  <2>3. PICK w \in Seq(Atom) : w = r[k - 1]
    BY <1>16
  <2>4. PICK item \in DOMAIN Item : item = items[k]
    BY <1>2
  <2>5. PICK b \in Seq(Atom) : b = Item[item]
    BY <2>4, ItemType
  <2>6. PICK q \in Seq(Atom) : q = ss[k] /\ q = (IF k = 1 THEN <<>> ELSE <<"nl">>) \o b
    BY <1>8, <1>18, <2>4, <2>5
  <2>11. Len(q) \in Nat
    BY <2>6
  <2>7. PICK n \in Nat : n = m + Len(q)
    BY <2>1, <2>11
  <2>8. /\ n = Len(f[k]) /\ n <= Len(t) /\ \A i \in 1 .. Len(q) : t[m + i] = q[i]
        /\ o[k] = x \o Outer(item) /\ r[k] = w \o Inner(item)
        /\ Says(t, m, x, w)
    <3>1. Len(f[k]) = Len(f[k - 1]) + Len(ss[k]) /\ Len(f[k]) <= Len(t)
      BY <1>20
    <3>2. n = Len(f[k]) /\ n <= Len(t)
      BY <2>1, <2>6, <2>7, <3>1
    <3>3. \A i \in 1 .. Len(q) : t[m + i] = q[i]
      <4>1. \A i \in 1 .. Len(ss[k]) : t[Len(f[k - 1]) + i] = ss[k][i]
        BY <1>20
      <4> QED BY <2>1, <2>6, <4>1
    <3>4. o[k] = x \o Outer(item)
      BY <1>16, <1>18, <2>2, <2>4, Zenon
    <3>5. r[k] = w \o Inner(item)
      BY <1>16, <1>18, <2>3, <2>4, Zenon
    <3>6. Says(t, m, x, w)
      BY <1>22, <2>1, <2>2, <2>3
    <3> QED BY <3>2, <3>3, <3>4, <3>5, <3>6
  <2>9. CASE k = 1
    <3>1. q = b
      BY <2>6, <2>9
    <3>2. n = m + Len(b) /\ m + Len(b) <= Len(t) /\ \A i \in 1 .. Len(b) : t[m + i] = b[i]
      BY <2>7, <2>8, <3>1
    <3>3. Says(t, m + Len(b), x \o Outer(item), w \o Inner(item))
      BY <1>19, <2>5, <2>8, <3>2, ItemPasses
    <3> QED BY <2>8, <3>2, <3>3
  <2>10. CASE k # 1
    <3>1. q = <<"nl">> \o b
      BY <2>6, <2>10
    <3>2. Len(q) = Len(b) + 1 /\ q[1] = "nl" /\ \A i \in 1 .. Len(b) : q[i + 1] = b[i]
      BY <1>7, <3>1
    <3>3. PICK l \in Nat : l = m + 1
      OBVIOUS
    <3>4. /\ n = l + Len(b) /\ l <= Len(t) /\ l + Len(b) <= Len(t) /\ t[m + 1] = "nl" /\ m + 1 <= Len(t)
      BY <2>7, <2>8, <3>2, <3>3
    <3>5. ASSUME NEW i \in 1 .. Len(b)
          PROVE  t[l + i] = b[i]
      <4>1. i + 1 \in 1 .. Len(q) /\ m + (i + 1) = l + i
        BY <3>2, <3>3
      <4>2. t[m + (i + 1)] = q[i + 1] /\ q[i + 1] = b[i]
        BY <2>8, <3>2, <4>1
      <4> QED BY <4>1, <4>2
    <3>6. Says(t, l, x, w)
      <4>1. Says(t, m + 1, x, w)
        BY <2>8, <3>4, NewlinePasses
      <4> QED BY <3>3, <4>1
    <3>7. Says(t, l + Len(b), x \o Outer(item), w \o Inner(item))
      BY <1>19, <2>5, <3>4, <3>5, <3>6, ItemPasses
    <3> QED BY <2>8, <3>4, <3>7
  <2> QED BY <2>9, <2>10
<1>23. Said(N)
  <2> DEFINE P == {k \in 0 .. N : Said(k)}
  <2>1. \A k \in P : Said(k)
    OBVIOUS
  <2>2. 0 \in P /\ N \in Nat /\ 0 \in Nat /\ 0 <= N
    BY <1>1, <1>21
  <2>3. ASSUME NEW k \in 0 + 1 .. N, k - 1 \in P
        PROVE  k \in P
    <3>1. k \in 1 .. N /\ k \in 0 .. N
      OBVIOUS
    <3> HIDE DEF Said
    <3> QED BY <1>22, <2>3, <3>1
  <2> HIDE DEF P, Said
  <2>4. \A k \in 0 .. N : k \in P
    BY <2>2, <2>3, UpwardInduction
  <2> QED BY <2>1, <2>2, <2>4
<1>24. /\ t = TextOf(items) /\ o[N] = Outers(items) /\ r[N] = Inners(items)
  BY <1>6, <1>12, <1>13, <1>14, <1>15
<1>25. /\ Words(o[N]) = Spoken(t)[Len(t)] /\ r[N] = Thought(t)[Len(t)]
  BY <1>15, <1>23 DEF Says
<1> QED BY <1>19, <1>24, <1>25

-----------------------------------------------------------------------------
(* What the handler has given out, and what it responds *)

(* The handler l has given out what the first n atoms of the text t say; of *)
(* a request without tools, the parser has the text.                       *)
HasGiven(t, n, l) ==
  \E x \in Seq(Atom) : /\ Through(t, n, l.sanitizer, x, l.reasoning)
                       /\ ~tools => x = l.parser.text

(* The message m says all that t does. *)
SaysAll(t, m) ==
  /\ m.reasoning = Thought(t)[Len(t)]
  /\ ~tools => m.calls = <<>> /\ Words(m.text) = Spoken(t)[Len(t)]

MeantInv ==
  /\ clean /\ local.pc \in {"preread", "reading"} => HasGiven(Text, up.at, local)
  /\ client.status = "done" => local.pc = "ended"
  /\ client.status = "done" /\ clean /\ up.at = Len(Text) => SaysAll(Text, client.message)

(* A new handler has given out nothing. *)
LEMMA NewHandlerGives ==
  ASSUME NEW t \in Seq(Atom), NEW pc, NEW a
  PROVE  HasGiven(t, 0, NewHandler(pc, a))
<1>1. PICK h : h = NewHandler(pc, a)
  OBVIOUS
<1>2. h.sanitizer = NewSanitizer /\ h.reasoning = <<>> /\ h.parser.text = <<>>
  BY <1>1 DEF NewHandler, NewParser
<1>3. PICK s : s = NewSanitizer
  OBVIOUS
<1>4. /\ s \in Sanitizer(Atom) /\ s.held = <<>> /\ s.inside = FALSE
  BY <1>3 DEF NewSanitizer, Sanitizer
<1>5. SubSeq(t, 0 + 1, 0) = <<>>
  OBVIOUS
<1>6. ~Within(t, 0)
  BY DEF Within
<1>7. Len(t) \in Nat /\ 0 \in 0 .. 0 /\ 0 \in 0 .. Len(t)
  OBVIOUS
<1>8. Holds(t, 0, 0, s) /\ Settled(t, 0, 0, s)
  BY <1>4, <1>5, <1>6, <1>7 DEF Holds, Settled
<1>9. Words(<<>>) = Spoken(t)[0] /\ <<>> = Thought(t)[0]
  BY WordsOfNothing, SpokenSteps, ThoughtSteps
<1>10. Through(t, 0, s, <<>>, <<>>)
  BY <1>7, <1>8, <1>9 DEF Through
<1>11. <<>> \in Seq(Atom)
  OBVIOUS
<1>12. Through(t, 0, h.sanitizer, <<>>, h.reasoning)
  BY <1>2, <1>3, <1>10, Zenon
<1> QED BY <1>1, <1>2, <1>11, <1>12, Zenon DEF HasGiven

LEMMA TextIsText ==
  ASSUME StreamInv
  PROVE  Text \in Seq(Atom) /\ WellTagged(Text)
  BY AnswerSays DEF StreamInv, Text

LEMMA MeantInitially == StreamInit => MeantInv
<1> SUFFICES ASSUME StreamInit PROVE MeantInv
  OBVIOUS
<1>1. Text \in Seq(Atom)
  BY StreamInitially, TextIsText
<1>2. HasGiven(Text, 0, NewHandler(Started, 0))
  BY <1>1, NewHandlerGives
<1>3. local = NewHandler(Started, 0) /\ up.at = 0 /\ client.status = "waiting"
  BY DEF StreamInit, Upstream
<1> QED BY <1>2, <1>3 DEF MeantInv

(* What an event that is clean adds. *)
LEMMA ConsumedClean ==
  ASSUME StreamInv, NEW content, NEW piece \in Seq(Atom), NEW to, Clean(piece, content, to),
         piece # <<>>, NEW fed, fed = SanitizerFeed(local.sanitizer, piece),
         fed.text \in Seq(Atom)
  PROVE  /\ Consumed(content).sanitizer = fed
         /\ Consumed(content).reasoning = local.reasoning \o fed.reasoning
         /\ ~tools => Consumed(content).parser.text = local.parser.text \o fed.text
<1>1. PICK normal : normal = Normalized(content)
  OBVIOUS
<1>2. ~normal.orphan /\ normal.content = content
  <2>1. ~Normalized(content).orphan
    BY DEF Clean
  <2> QED BY <1>1, <2>1 DEF Normalized
<1>3. PICK step : step = Delta(local.raw, normal.content)
  OBVIOUS
<1>4. step.delta = piece
  BY <1>2, <1>3 DEF Clean
<1>5. PICK used : used = Use(local.parser, fed.text)
  OBVIOUS
<1>6. PICK raw : raw = IF normal.orphan THEN normal.content ELSE step.matched
  OBVIOUS
<1>7. PICK reasoning : reasoning = local.reasoning \o fed.reasoning
  OBVIOUS
<1>8. PICK l : l = Consumed(content)
  OBVIOUS
<1>9. l = [local EXCEPT !.raw = raw, !.sanitizer = fed, !.parser = used, !.reasoning = reasoning]
  BY <1>1, <1>2, <1>3, <1>4, <1>5, <1>6, <1>7, <1>8 DEF Consumed
<1>10. Reading(local)
  BY DEF StreamInv
<1>11. l.sanitizer = fed /\ l.parser = used /\ l.reasoning = reasoning
  BY <1>9, <1>10 DEF Reading
<1>12. ~tools => used.text = local.parser.text \o fed.text
  <2> SUFFICES ASSUME ~tools PROVE used.text = local.parser.text \o fed.text
    OBVIOUS
  <2>1. /\ local.parser = [NewParser EXCEPT !.text = local.parser.text]
        /\ local.parser.text \in Seq(Atom)
    BY <1>10 DEF Reading
  <2>2. CASE fed.text = <<>>
    <3>1. \A y \in Seq(Atom) : y \o <<>> = y
      OBVIOUS
    <3>2. used = local.parser
      BY <1>5, <2>2 DEF Use
    <3> QED BY <2>1, <2>2, <3>1, <3>2, Zenon
  <2>3. CASE fed.text # <<>>
    <3>1. used = [local.parser EXCEPT !.text = local.parser.text \o fed.text]
      BY <1>5, <2>3 DEF Use
    <3>2. DOMAIN local.parser = DOMAIN NewParser
      BY <2>1 DEF NewParser
    <3>3. "text" \in DOMAIN NewParser
      BY DEF NewParser
    <3> QED BY <3>1, <3>2, <3>3
  <2> QED BY <2>2, <2>3
<1> QED BY <1>7, <1>8, <1>11, <1>12

(* The steps. *)

LEMMA ReadsGives ==
  ASSUME StreamInv, MeantInv, NEW n \in 1..MaxPiece, Reads(n)
  PROVE  MeantInv'
<1>1. PICK t \in Seq(Atom) : t = Text /\ WellTagged(t)
  BY TextIsText
<1>2. PICK at \in Nat : at = up.at
  BY DEF StreamInv
<1>3. n \in Nat /\ n >= 1
  BY StreamAssumption
<1>4. PICK piece : piece = SubSeq(t, at + 1, at + n)
  OBVIOUS
<1>5. PICK content : content = IF source = "page" THEN Upto(t, at + n) ELSE piece
  OBVIOUS
<1>6. /\ local.pc = "reading" /\ at + n <= Len(t) /\ up' = [up EXCEPT !.at = at + n]
      /\ local' = IF IsOfTarget THEN [Consumed(content) EXCEPT !.target = Targeted.target]
                  ELSE local
      /\ client' = IF Live THEN [client EXCEPT !.message = Seen(local')] ELSE client
      /\ clean' = (clean /\ Clean(piece, content, at + n))
      /\ answer' = answer /\ tools' = tools
  BY <1>1, <1>2, <1>4, <1>5 DEF Reads, given
<1>7. up'.at = at + n /\ Text' = t
  BY <1>1, <1>6 DEF StreamInv, Text
<1>8. /\ piece \in Seq(Atom) /\ piece # <<>>
  <2>1. at + 1 \in Nat \ {0} /\ at + n \in Int /\ at + n <= Len(t)
    BY <1>3, <1>6
  <2>2. piece \in Seq(Atom)
    BY <1>4, <2>1, PieceType
  <2>3. Len(piece) = n
    BY <1>3, <1>4, <1>6
  <2> QED BY <1>3, <2>2, <2>3
<1>9. client.status # "done" /\ client'.status # "done"
  <2>1. client.status # "done"
    BY <1>6 DEF MeantInv
  <2>2. client'.status = client.status
    BY <1>6 DEF StreamInv, ClientRecord
  <2> QED BY <2>1, <2>2
<1>10. ASSUME clean'
       PROVE  HasGiven(t, at + n, local')
  <2>1. clean /\ Clean(piece, content, at + n) /\ IsOfTarget
    BY <1>6, <1>10 DEF Clean
  <2>2. HasGiven(t, at, local)
    BY <1>1, <1>2, <1>6, <2>1 DEF MeantInv
  <2>3. PICK x \in Seq(Atom) : /\ Through(t, at, local.sanitizer, x, local.reasoning)
                               /\ ~tools => x = local.parser.text
    BY <2>2 DEF HasGiven
  <2>4. PICK fed : fed = SanitizerFeed(local.sanitizer, piece)
    OBVIOUS
  <2>5. /\ Through(t, at + n, fed, x \o fed.text, local.reasoning \o fed.reasoning)
        /\ fed.text \in Seq(Atom)
    BY <1>1, <1>3, <1>4, <1>6, <2>3, <2>4, FeedGoesThrough
  <2>6. PICK l : l = Consumed(content)
    OBVIOUS
  <2>7. /\ l.sanitizer = fed /\ l.reasoning = local.reasoning \o fed.reasoning
        /\ ~tools => l.parser.text = local.parser.text \o fed.text
    BY <1>8, <2>1, <2>4, <2>5, <2>6, ConsumedClean
  <2>8. local' = [l EXCEPT !.target = Targeted.target]
    BY <1>6, <2>1, <2>6
  <2>9. local'.sanitizer = l.sanitizer /\ local'.reasoning = l.reasoning /\ local'.parser = l.parser
    <3>1. PICK normal : normal = Normalized(content)
      OBVIOUS
    <3>2. \E a, b, c, d : l = [local EXCEPT !.raw = a, !.sanitizer = b, !.parser = c, !.reasoning = d]
      BY <2>6, Zenon DEF Consumed
    <3>3. DOMAIN l = DOMAIN local
      BY <3>2
    <3>4. {"sanitizer", "reasoning", "parser"} \subseteq DOMAIN l
      BY <3>3 DEF StreamInv, Reading
    <3> QED BY <2>8, <3>4
  <2>13. x \o fed.text \in Seq(Atom)
    <3>1. PICK z \in Seq(Atom) : z = fed.text
      BY <2>5
    <3> QED BY <3>1
  <2>10. PICK y \in Seq(Atom) : y = x \o fed.text
    BY <2>13
  <2>11. Through(t, at + n, local'.sanitizer, y, local'.reasoning)
    BY <2>5, <2>7, <2>9, <2>10, Zenon
  <2>12. ~tools => y = local'.parser.text
    BY <2>3, <2>7, <2>9, <2>10, Zenon
  <2> QED BY <2>11, <2>12, Zenon DEF HasGiven
<1>11. ASSUME clean'
       PROVE  HasGiven(Text, up.at, local)'
  <2>1. PICK l : l = local'
    OBVIOUS
  <2>2. HasGiven(t, at + n, l)
    BY <1>10, <1>11, <2>1
  <2>3. PICK k : k = at + n
    OBVIOUS
  <2>4. PICK x \in Seq(Atom) : /\ Through(t, k, l.sanitizer, x, l.reasoning)
                               /\ ~tools => x = l.parser.text
    BY <2>2, <2>3 DEF HasGiven
  <2>5. HasGiven(t, k, l)'
    <3>1. t' = t /\ k' = k /\ l' = l
      OBVIOUS
    <3> QED BY <1>6, <2>4 DEF HasGiven
  <2> QED BY <1>7, <2>1, <2>3, <2>5, Zenon DEF HasGiven
<1> QED BY <1>7, <1>9, <1>11 DEF MeantInv


(* A step that leaves the handler's reading, the answer and the response alone. *)
LEMMA AsideGives ==
  ASSUME StreamInv, MeantInv, UNCHANGED <<given, answer, client, clean>>, up'.at = up.at,
         local' = local \/ \E b : local' = [local EXCEPT !.noticed = b]
  PROVE  MeantInv'
<1>1. /\ local'.pc = local.pc /\ local'.sanitizer = local.sanitizer
      /\ local'.parser = local.parser /\ local'.reasoning = local.reasoning
  BY DEF StreamInv, Reading
<1>2. Text' = Text /\ tools' = tools
  BY DEF Text, given
<1>3. HasGiven(Text, up.at, local) => HasGiven(Text, up.at, local)'
  BY <1>1, <1>2, Zenon DEF HasGiven
<1>4. SaysAll(Text, client.message) => SaysAll(Text, client.message)'
  BY <1>2 DEF SaysAll
<1> QED BY <1>1, <1>2, <1>3, <1>4 DEF MeantInv

(* A step after which the handler does not read, and has not responded. *)
LEMMA UnansweredGives ==
  ASSUME local'.pc \notin {"preread", "reading"},
         client'.status # "done" \/ (local'.pc = "ended" /\ ~clean')
  PROVE  MeantInv'
  BY DEF MeantInv

LEMMA CommitsGives ==
  ASSUME StreamInv, MeantInv, Commits
  PROVE  MeantInv'
<1>1. /\ local.pc = "preread" /\ local' = [local EXCEPT !.pc = "reading"]
      /\ client' = [client EXCEPT !.status = "open"]
      /\ UNCHANGED <<given, answer, up, clean>>
  BY DEF Commits
<1>2. /\ local'.sanitizer = local.sanitizer
      /\ local'.parser = local.parser /\ local'.reasoning = local.reasoning
  BY <1>1 DEF StreamInv, Reading
<1>3. Text' = Text /\ tools' = tools /\ up' = up /\ clean' = clean
  BY <1>1 DEF Text, given
<1>4. HasGiven(Text, up.at, local) => HasGiven(Text, up.at, local)'
  BY <1>2, <1>3, Zenon DEF HasGiven
<1>5. client'.status # "done"
  BY <1>1 DEF StreamInv, ClientRecord
<1> QED BY <1>1, <1>3, <1>4, <1>5 DEF MeantInv

LEMMA AcquiresGives ==
  ASSUME StreamInv, MeantInv, StreamInv', Acquires
  PROVE  MeantInv'
<1>1. /\ local.pc = "acquiring" /\ up' = Upstream
      /\ local' = NewHandler("reading", local.attempt + 1)
      /\ client' = client /\ given' = given
  BY DEF Acquires
<1>2. client'.status # "done"
  BY <1>1 DEF MeantInv
<1>3. Text' \in Seq(Atom)
  <2>1. answer' \in Answers
    BY DEF StreamInv
  <2> QED BY <2>1, AnswerSays DEF Text
<1>4. PICK t \in Seq(Atom) : t = Text'
  BY <1>3
<1>5. PICK l : l = local'
  OBVIOUS
<1>6. HasGiven(t, 0, l)
  BY <1>1, <1>4, <1>5, NewHandlerGives
<1>7. up'.at = 0 /\ tools' = tools
  BY <1>1 DEF Upstream, given
<1>8. HasGiven(Text, up.at, local)'
  <2>1. PICK x \in Seq(Atom) : /\ Through(t, 0, l.sanitizer, x, l.reasoning)
                               /\ ~tools => x = l.parser.text
    BY <1>6 DEF HasGiven
  <2> QED BY <1>4, <1>5, <1>7, <2>1 DEF HasGiven
<1> QED BY <1>2, <1>8 DEF MeantInv

(* Whatever ends an attempt but a response. *)
LEMMA FailsGives ==
  ASSUME StreamInv, NEW status \in {"refused", "cut"}, Fails(status)
  PROVE  MeantInv'
<1>1. local'.pc = "ended" /\ client'.status = status
  BY DEF Fails, Concludes, StreamInv, Reading
<1> QED BY <1>1, UnansweredGives

LEMMA ThrowsGives ==
  ASSUME StreamInv, MeantInv, local.pc \in {"preread", "reading"},
         NEW retryable \in BOOLEAN, Throws(retryable)
  PROVE  MeantInv'
<1>1. CASE Fails("cut") \/ Fails("refused")
  BY <1>1, FailsGives
<1>2. CASE ~(Fails("cut") \/ Fails("refused"))
  <2>1. local' = NewHandler("acquiring", local.attempt) /\ client' = client
    BY <1>2 DEF Throws, Rethrown
  <2>2. local'.pc = "acquiring"
    BY <2>1 DEF NewHandler
  <2>3. client'.status # "done"
    BY <2>1 DEF MeantInv
  <2> QED BY <2>2, <2>3, UnansweredGives
<1> QED BY <1>1, <1>2

LEMMA ReadsErrorPayloadGives ==
  ASSUME StreamInv, ReadsErrorPayload
  PROVE  MeantInv'
<1>1. local'.pc = "ended" /\ ~clean'
  BY DEF ReadsErrorPayload, Fails, Concludes, StreamInv, Reading
<1> QED BY <1>1, UnansweredGives

(* What is responded when all has been read. *)
LEMMA FinalSays ==
  ASSUME StreamInv, MeantInv, local.pc = "reading", clean, up.at = Len(Text)
  PROVE  SaysAll(Text, FinalMessage)
<1>1. PICK t \in Seq(Atom) : t = Text /\ WellTagged(t)
  BY TextIsText
<1>2. PICK x \in Seq(Atom) : /\ Through(t, Len(t), local.sanitizer, x, local.reasoning)
                             /\ ~tools => x = local.parser.text
  BY <1>1 DEF MeantInv, HasGiven
<1>3. PICK s : s = local.sanitizer
  OBVIOUS
<1>4. PICK w : w = local.reasoning
  OBVIOUS
<1>5. Words(x) = Spoken(t)[Len(t)] /\ w = Thought(t)[Len(t)] /\ s.held = <<>>
  BY <1>1, <1>2, <1>3, <1>4, AllGoesThrough
<1>6. FinalMessage.reasoning = w
  BY <1>4 DEF FinalMessage, Message
<1>7. ~tools => FinalMessage.calls = <<>> /\ FinalMessage.text = x
  <2> SUFFICES ASSUME ~tools PROVE FinalMessage.calls = <<>> /\ FinalMessage.text = x
    OBVIOUS
  <2>1. SanitizerFlush(local.sanitizer).text = <<>>
    BY <1>3, <1>5 DEF SanitizerFlush, NewSanitizer
  <2>2. Final = local.parser
    BY <2>1 DEF Final, Remaining, Use
  <2>3. local.parser.calls = <<>>
    <3>1. local.parser = [NewParser EXCEPT !.text = local.parser.text]
      BY DEF StreamInv, Reading
    <3> QED BY <3>1 DEF NewParser
  <2> QED BY <1>2, <2>2, <2>3 DEF FinalMessage, Message
<1> QED BY <1>1, <1>5, <1>6, <1>7 DEF SaysAll

LEMMA ReadsEndGives ==
  ASSUME StreamInv, MeantInv, NEW finish, ReadsEnd(finish)
  PROVE  MeantInv'
<1>1. local.pc = "reading" /\ UNCHANGED <<given, answer, up, clean>>
  BY DEF ReadsEnd
<1>2. CASE IsIncomplete(finish)
  BY <1>1, <1>2, ThrowsGives DEF ReadsEnd
<1>3. CASE ~IsIncomplete(finish) /\ Fails("cut")
  BY <1>3, FailsGives
<1>4. CASE ~IsIncomplete(finish) /\ ~Fails("cut")
  <2>1. Concludes("done", FinalMessage, FinishReason(finish))
    BY <1>4 DEF ReadsEnd, Responds
  <2>2. PICK m : m = FinalMessage
    OBVIOUS
  <2>3. local'.pc = "ended" /\ client'.message = m
    BY <2>1, <2>2 DEF Concludes, StreamInv, Reading
  <2>4. Text' = Text /\ tools' = tools /\ up' = up /\ clean' = clean
    BY <1>1 DEF Text, given
  <2>5. clean /\ up.at = Len(Text) => SaysAll(Text, m)
    BY <1>1, <2>2, FinalSays
  <2>6. SaysAll(Text, m) => SaysAll(Text', client'.message)
    BY <2>3, <2>4
  <2>7. SaysAll(Text', client'.message) => SaysAll(Text, client.message)'
    BY <2>4 DEF SaysAll
  <2> QED BY <2>3, <2>4, <2>5, <2>6, <2>7 DEF MeantInv
<1> QED BY <1>2, <1>3, <1>4

LEMMA MeantSteps ==
  ASSUME StreamInv, MeantInv, StreamInv', [StreamNext]_streamVars
  PROVE  MeantInv'
<1>1. CASE \E retryable \in BOOLEAN : ReadsError(retryable)
  BY <1>1, ThrowsGives DEF ReadsError
<1>2. CASE ReadFails
  BY <1>2, ThrowsGives DEF ReadFails
<1>3. CASE AcquireFails
  BY <1>3, FailsGives DEF AcquireFails
<1>4. CASE PageMoves \/ ClientLeaves \/ StopAsked \/ \E a \in stops : StopAnswered(a) \/ StopRefused(a)
  <2>1. /\ UNCHANGED <<given, answer, client, clean>>
        /\ local' = local \/ \E b : local' = [local EXCEPT !.noticed = b]
    BY <1>4 DEF PageMoves, ClientLeaves, StopAsked, StopAnswered, StopRefused
  <2>2. up'.at = up.at
    BY <1>4 DEF PageMoves, ClientLeaves, StopAsked, StopAnswered, StopRefused, StreamInv
  <2> QED BY <2>1, <2>2, AsideGives
<1>5. CASE UNCHANGED streamVars
  BY <1>5, AsideGives DEF streamVars
<1>6. CASE \E n \in 1..MaxPiece : Reads(n)
  BY <1>6, ReadsGives
<1>7. CASE \E finish \in {"stop", "length"} : ReadsEnd(finish)
  BY <1>7, ReadsEndGives
<1> QED BY <1>1, <1>2, <1>3, <1>4, <1>5, <1>6, <1>7, CommitsGives, AcquiresGives,
           ReadsErrorPayloadGives DEF StreamNext, Handler

(* What has been given out is what was read, and a response says all of the *)
(* answer that it is the response to.                                      *)
THEOREM MeaningInvariant == StreamSpec => []MeantInv
<1>1. StreamInit => MeantInv
  BY MeantInitially
<1>2. StreamInv /\ MeantInv /\ StreamInv' /\ [StreamNext]_streamVars => MeantInv'
  BY MeantSteps
<1> QED BY <1>1, <1>2, HandlerInvariant, PTL DEF StreamSpec

(* What the model says an answer means is what its items say. *)
LEMMA MeaningOfItems ==
  ASSUME StreamInv
  PROVE  /\ Meaning.reasoning = Inners(answer)
         /\ ~tools => Meaning = Message(Outers(answer), <<>>, Inners(answer))
<1>1. ItemsMean(LAMBDA item : IF item = "thought" THEN <<"w">> ELSE <<>>) = Inners(answer)
  BY DEF ItemsMean, Inners, Inner
<1>2. Meaning.reasoning = Inners(answer)
  BY <1>1 DEF Meaning, Message
<1>3. ~tools => ItemsMean(TextMeant) = Outers(answer)
  BY DEF ItemsMean, Outers, Outer, TextMeant, IsDropped
<1>4. ~tools => Meaning = Message(ItemsMean(TextMeant), <<>>,
                  ItemsMean(LAMBDA item : IF item = "thought" THEN <<"w">> ELSE <<>>))
  BY DEF Meaning
<1> QED BY <1>1, <1>2, <1>3, <1>4

(* An answer without tools that arrived whole is sent with its words, and   *)
(* its thoughts as reasoning, wherever the events have cut it              *)
(* (processNonStreamingResponse, processStreamingResponse and              *)
(* StreamingReasoningTagSanitizer).                                        *)
THEOREM TextIsReadAsMeant == StreamSpec => [](~tools => AnswersAreReadAsMeant)
<1>1. ASSUME StreamInv, MeantInv, ~tools
      PROVE  AnswersAreReadAsMeant
  <2> SUFFICES ASSUME client.status = "done", clean, up.at = Len(Text)
               PROVE  [client.message EXCEPT !.text = Words(@)] = [Meaning EXCEPT !.text = Words(@)]
    BY DEF AnswersAreReadAsMeant
  <2>1. SaysAll(Text, client.message)
    BY <1>1 DEF MeantInv
  <2>2. /\ client.message.reasoning = Inners(answer) /\ client.message.calls = <<>>
        /\ Words(client.message.text) = Words(Outers(answer))
    BY <1>1, <2>1, AnswerSays DEF SaysAll, StreamInv, Text
  <2>3. PICK m : m = client.message
    OBVIOUS
  <2>4. DOMAIN m = {"text", "calls", "reasoning"}
    BY <1>1, <2>3 DEF StreamInv, ClientRecord
  <2>5. [m EXCEPT !.text = Words(@)] = Message(Words(m.text), m.calls, m.reasoning)
    BY <2>4 DEF Message
  <2>6. Meaning = Message(Outers(answer), <<>>, Inners(answer))
    BY <1>1, MeaningOfItems
  <2>7. [Meaning EXCEPT !.text = Words(@)] = Message(Words(Outers(answer)), <<>>, Inners(answer))
    BY <2>6 DEF Message
  <2> QED BY <2>2, <2>3, <2>5, <2>7
<1> QED BY <1>1, HandlerInvariant, MeaningInvariant, PTL

(* The thoughts of an answer that arrived whole are sent as its reasoning, *)
(* with tools or without, and nothing else is.                             *)
ThoughtsAreReasoning ==
  client.status = "done" /\ clean /\ up.at = Len(Text) =>
    client.message.reasoning = Meaning.reasoning

THEOREM ThoughtsAreReadAsMeant == StreamSpec => []ThoughtsAreReasoning
<1>1. ASSUME StreamInv, MeantInv
      PROVE  ThoughtsAreReasoning
  <2> SUFFICES ASSUME client.status = "done", clean, up.at = Len(Text)
               PROVE  client.message.reasoning = Meaning.reasoning
    BY DEF ThoughtsAreReasoning
  <2>1. SaysAll(Text, client.message)
    BY <1>1 DEF MeantInv
  <2>2. client.message.reasoning = Inners(answer)
    BY <1>1, <2>1, AnswerSays DEF SaysAll, StreamInv, Text
  <2> QED BY <1>1, <2>2, MeaningOfItems
<1> QED BY <1>1, HandlerInvariant, MeaningInvariant, PTL

-----------------------------------------------------------------------------
(* The tool parser *)

(* Calls of declared tools, each once; what an operation makes of a parser. *)
Honest(calls) ==
  /\ calls \in Seq(Declared)
  /\ \A i, j \in 1 .. Len(calls) : calls[i] = calls[j] => i = j

Becomes(p, r) == r \in Parser /\ (Honest(p.calls) => Honest(r.calls))

LEMMA BecomesOn ==
  ASSUME NEW p, NEW q, NEW r, Becomes(p, q), Becomes(q, r)
  PROVE  Becomes(p, r)
  BY DEF Becomes

LEMMA CodeAfterType ==
  ASSUME NEW s \in Seq(Atom), NEW code \in Nat
  PROVE  CodeAfter(s, code) \in Nat
<1> DEFINE N == Len(s)
           St == [code : Nat, run : Nat]
           s0 == [code |-> code, run |-> 0]
           Step(st, n) == IF s[n] = "tick" THEN [st EXCEPT !.run = @ + 1]
                          ELSE [code |-> AfterRun(st.code, st.run), run |-> 0]
           IsAfter(g) == g = [n \in 0..N |->
                                IF n = 0 THEN [code |-> code, run |-> 0]
                                ELSE IF s[n] = "tick" THEN [g[n - 1] EXCEPT !.run = @ + 1]
                                     ELSE [code |-> AfterRun(g[n - 1].code, g[n - 1].run), run |-> 0]]
           after == CHOOSE g : IsAfter(g)
           F == [n \in 0..N |-> [st \in St |-> IF n = 0 THEN st ELSE Step(st, n)]]
<1>1. CodeAfter(s, code) = AfterRun(after[N].code, after[N].run)
  BY DEF CodeAfter
<1>2. N \in Nat /\ 0 \in Nat /\ 0 <= N /\ N \in 0..N
  OBVIOUS
<1>3. s0 \in St
  OBVIOUS
<1>4. \A st \in St, n \in 0..N : Step(st, n) \in St
  <2> SUFFICES ASSUME NEW st \in St, NEW n \in 0..N PROVE Step(st, n) \in St
    OBVIOUS
  <2>1. AfterRun(st.code, st.run) \in Nat
    BY DEF AfterRun
  <2>2. [st EXCEPT !.run = @ + 1] \in St
    OBVIOUS
  <2> QED BY <2>1, <2>2
<1>5. F \in [0..N -> [St -> St]]
  <2> HIDE DEF Step, St, N
  <2> QED BY <1>4
<1>6. PICK g \in [0..N -> St] : \A i \in 0..N : g[i] = IF i = 0 THEN s0 ELSE F[i][g[i - 1]]
  <2> HIDE DEF F, N, s0, St
  <2>1. \E g : IsRecursion(g, 0, N, St, s0, F)
    BY <1>2, <1>3, <1>5, RecursionExists, Zenon
  <2> QED BY <2>1 DEF IsRecursion
<1>7. IsAfter(g)
  <2>1. ASSUME NEW i \in 0..N
        PROVE  g[i] = IF i = 0 THEN s0 ELSE Step(g[i - 1], i)
    <3> HIDE DEF Step, St, s0
    <3>1. i = 0 \/ i - 1 \in 0..N
      BY <1>2
    <3>2. i = 0 \/ g[i - 1] \in St
      BY <1>6, <3>1
    <3>3. i = 0 \/ F[i][g[i - 1]] = Step(g[i - 1], i)
      BY <3>2
    <3> QED BY <1>6, <3>3
  <2>2. DOMAIN g = 0..N /\ g = [i \in 0..N |-> g[i]]
    OBVIOUS
  <2> HIDE DEF F, N, St
  <2> QED BY <2>1, <2>2
<1>8. PICK f : IsAfter(f) /\ f = after
  <2> HIDE DEF IsAfter
  <2> QED BY <1>7
<1>9. f[0] = s0 /\ \A n \in 1..N : f[n] = Step(f[n - 1], n)
  <2>1. \A n \in 0..N : f[n] = IF n = 0 THEN s0 ELSE Step(f[n - 1], n)
    <3> HIDE DEF N
    <3> QED BY <1>8
  <2>2. 0 \in 0..N /\ \A n \in 1..N : n \in 0..N /\ n # 0
    BY <1>2
  <2> HIDE DEF N, Step, s0
  <2> QED BY <2>1, <2>2, Zenon
<1> HIDE DEF after, IsAfter, Step, St, s0, N
<1>10. \A n \in 0 + 1 .. N : f[n - 1] \in St => f[n] \in St
  BY <1>2, <1>4, <1>9
<1>11. \A n \in 0..N : f[n] \in St
  BY <1>2, <1>3, <1>9, <1>10, RecursionStays
<1>12. f[N] \in St
  BY <1>2, <1>11
<1> QED BY <1>1, <1>8, <1>12 DEF AfterRun, St

LEMMA EmitBecomes ==
  ASSUME NEW p \in Parser, NEW s \in Seq(Atom)
  PROVE  /\ Becomes(p, Emit(p, s)) /\ Emit(p, s).buffer = p.buffer
         /\ Emit(p, s).inside = p.inside
<1>1. CodeAfter(s, p.code) \in Nat
  BY CodeAfterType DEF Parser
<1>2. PICK text \in Seq(Atom) : text = IF p.calls = <<>> THEN p.text \o s ELSE p.text
  <2>1. p.text \in Seq(Atom) /\ p.text \o s \in Seq(Atom)
    BY DEF Parser
  <2> QED BY <2>1
<1>3. PICK r : r = [p EXCEPT !.text = text, !.code = CodeAfter(s, p.code)]
  OBVIOUS
<1>4. Emit(p, s) = r
  BY <1>2, <1>3 DEF Emit
<1>5. r \in Parser /\ r.calls = p.calls /\ r.buffer = p.buffer /\ r.inside = p.inside
  BY <1>1, <1>3 DEF Parser
<1> QED BY <1>4, <1>5 DEF Becomes

LEMMA HoldBecomes ==
  ASSUME NEW p \in Parser, NEW s \in Seq(Atom)
  PROVE  /\ Becomes(p, Hold(p, s)) /\ Hold(p, s).buffer = p.buffer
         /\ Hold(p, s).inside = p.inside
<1>1. CodeAfter(s, p.code) \in Nat
  BY CodeAfterType DEF Parser
<1>2. PICK lead \in Seq(Atom) : lead = p.lead \o s
  <2>1. p.lead \o s \in Seq(Atom)
    BY DEF Parser
  <2> QED BY <2>1
<1>3. PICK r : r = [p EXCEPT !.lead = lead, !.code = CodeAfter(s, p.code)]
  OBVIOUS
<1>4. Hold(p, s) = r
  BY <1>2, <1>3 DEF Hold
<1>5. r \in Parser /\ r.calls = p.calls /\ r.buffer = p.buffer /\ r.inside = p.inside
  BY <1>1, <1>3 DEF Parser
<1> QED BY <1>4, <1>5 DEF Becomes

LEMMA RestoreBecomes ==
  ASSUME NEW p \in Parser
  PROVE  Becomes(p, Restore(p)) /\ Restore(p).buffer = p.buffer
<1>1. PICK text \in Seq(Atom) :
        text = IF p.calls = <<>> /\ ~Blank(p.lead) THEN p.text \o p.lead ELSE p.text
  <2>1. p.text \in Seq(Atom) /\ p.text \o p.lead \in Seq(Atom)
    BY DEF Parser
  <2> QED BY <2>1
<1>2. PICK r : r = [p EXCEPT !.text = text, !.lead = <<>>, !.malformed = TRUE]
  OBVIOUS
<1>3. Restore(p) = r
  BY <1>1, <1>2 DEF Restore
<1>4. <<>> \in Seq(Atom)
  OBVIOUS
<1>5. r \in Parser /\ r.calls = p.calls /\ r.buffer = p.buffer
  BY <1>2, <1>4 DEF Parser
<1> QED BY <1>3, <1>5 DEF Becomes

LEMMA PreserveBecomes ==
  ASSUME NEW p \in Parser, NEW content \in Seq(Atom)
  PROVE  Becomes(p, PreserveLiteral(p, content)) /\ PreserveLiteral(p, content).buffer = p.buffer
<1>1. OpenTag \in Seq(Atom) /\ CloseTag \in Seq(Atom)
  BY CallAtoms DEF OpenTag, CloseTag
<1>2. PICK block \in Seq(Atom) : block = OpenTag \o content \o CloseTag
  <2>1. OpenTag \o content \in Seq(Atom)
    BY <1>1
  <2>2. OpenTag \o content \o CloseTag \in Seq(Atom)
    BY <1>1, <2>1
  <2> QED BY <2>2
<1>3. PICK shown \in Seq(Atom) : shown = IF p.calls = <<>> THEN p.text \o p.lead \o block ELSE p.text
  <2>1. p.text \in Seq(Atom) /\ p.lead \in Seq(Atom)
    BY DEF Parser
  <2>2. p.text \o p.lead \o block \in Seq(Atom)
    <3>1. p.text \o p.lead \in Seq(Atom)
      BY <2>1
    <3> QED BY <3>1
  <2> QED BY <2>1, <2>2
<1>4. CodeAfter(block, p.code) \in Nat
  BY CodeAfterType DEF Parser
<1>5. <<>> \in Seq(Atom)
  OBVIOUS
<1>6. PICK q : q = [p EXCEPT !.lead = <<>>]
  OBVIOUS
<1>7. PICK r : r = [p EXCEPT !.text = shown, !.lead = <<>>, !.code = CodeAfter(block, p.code)]
  OBVIOUS
<1>8. PreserveLiteral(p, content) \in {q, r}
  BY <1>2, <1>3, <1>6, <1>7 DEF PreserveLiteral
<1>9. q \in Parser /\ q.calls = p.calls /\ q.buffer = p.buffer
  BY <1>5, <1>6 DEF Parser
<1>10. r \in Parser /\ r.calls = p.calls /\ r.buffer = p.buffer
  BY <1>4, <1>5, <1>7 DEF Parser
<1> QED BY <1>8, <1>9, <1>10 DEF Becomes

(* A call is taken once. *)
LEMMA FinalizeBecomes ==
  ASSUME NEW p \in Parser, NEW c \in Calls
  PROVE  /\ Finalize(p, c) \in Parser /\ Finalize(p, c).buffer = p.buffer
         /\ c \in Declared /\ Honest(p.calls) => Honest(Finalize(p, c).calls)
<1>1. PICK calls \in Seq(Calls) : calls = p.calls
  BY DEF Parser
<1>2. PICK more \in Seq(Calls) : more = IF c \in ToSet(calls) THEN calls ELSE Append(calls, c)
  <2>1. Append(calls, c) \in Seq(Calls)
    OBVIOUS
  <2> QED BY <2>1
<1>3. PICK r : r = [p EXCEPT !.calls = more, !.lead = <<>>]
  OBVIOUS
<1>4. Finalize(p, c) = r
  BY <1>1, <1>2, <1>3 DEF Finalize
<1>5. <<>> \in Seq(Atom)
  OBVIOUS
<1>6. r \in Parser /\ r.calls = more /\ r.buffer = p.buffer
  BY <1>3, <1>5 DEF Parser
<1>7. ASSUME c \in Declared, Honest(calls)
      PROVE  Honest(more)
  <2>1. CASE c \in ToSet(calls)
    BY <1>2, <1>7, <2>1
  <2>2. CASE c \notin ToSet(calls)
    <3>1. calls \in Seq(Declared) /\ \A i, j \in 1 .. Len(calls) : calls[i] = calls[j] => i = j
      BY <1>7 DEF Honest
    <3>2. \A i \in 1 .. Len(calls) : calls[i] # c
      BY <2>2 DEF ToSet
    <3>3. PICK m : m = Append(calls, c)
      OBVIOUS
    <3>4. m \in Seq(Declared)
      BY <1>7, <3>1, <3>3
    <3>5. Len(m) = Len(calls) + 1 /\ m[Len(calls) + 1] = c /\ \A i \in 1 .. Len(calls) : m[i] = calls[i]
      BY <3>1, <3>3
    <3>6. ASSUME NEW i \in 1 .. Len(m), NEW j \in 1 .. Len(m), m[i] = m[j]
          PROVE  i = j
      <4>1. i \in 1 .. Len(calls) \/ i = Len(calls) + 1
        BY <3>5
      <4>2. j \in 1 .. Len(calls) \/ j = Len(calls) + 1
        BY <3>5
      <4> QED BY <3>1, <3>2, <3>5, <3>6, <4>1, <4>2
    <3> QED BY <1>2, <2>2, <3>3, <3>4, <3>6 DEF Honest
  <2> QED BY <2>1, <2>2
<1> QED BY <1>1, <1>4, <1>6, <1>7

(* The calls of a block are calls. *)
LEMMA FirstCallType ==
  ASSUME NEW b \in Seq(Atom)
  PROVE  FirstCall(b) = 0 \/ (FirstCall(b) \in 1 .. Len(b) /\ b[FirstCall(b)] \in Calls)
<1> DEFINE S == {i \in 1 .. Len(b) : b[i] \in Calls}
<1>1. S \in SUBSET Nat /\ FirstCall(b) = Least(S)
  BY DEF FirstCall
<1>2. \A i \in S : i \in 1 .. Len(b) /\ b[i] \in Calls
  OBVIOUS
<1> HIDE DEF S
<1> QED BY <1>1, <1>2, LeastType

LEMMA CallsOfType ==
  ASSUME NEW content \in Seq(Atom)
  PROVE  CallsOf(content) \in Seq(Calls)
<1> DEFINE N == Len(content)
           lines == IF "nl" \in ToSet(content) THEN {i \in 1..Len(content) : OwnLine(content, i)}
                    ELSE {}
           taken == lines \union {FirstCall(content)}
           Step(q, n) == IF n \in taken /\ content[n] \notin ToSet(q)
                         THEN Append(q, content[n]) ELSE q
           IsTaken(g) == g = [n \in 0..N |-> IF n = 0 THEN <<>> ELSE Step(g[n - 1], n)]
           calls == CHOOSE g : IsTaken(g)
           F == [n \in 0..N |-> [q \in Seq(Calls) |-> IF n = 0 THEN q ELSE Step(q, n)]]
<1>1. CallsOf(content) = calls[N]
  BY DEF CallsOf
<1>2. N \in Nat /\ 0 \in Nat /\ 0 <= N /\ N \in 0..N /\ <<>> \in Seq(Calls)
  OBVIOUS
<1>3. \A n \in 1..N : n \in taken => content[n] \in Calls
  <2> SUFFICES ASSUME NEW n \in 1..N, n \in taken
               PROVE  content[n] \in Calls
    OBVIOUS
  <2>1. CASE n = FirstCall(content)
    BY <2>1, FirstCallType
  <2>2. CASE n \in lines
    BY <2>2 DEF OwnLine
  <2> QED BY <2>1, <2>2
<1>4. \A q \in Seq(Calls), n \in 1..N : Step(q, n) \in Seq(Calls)
  <2> HIDE DEF taken, N
  <2> QED BY <1>3
<1>5. F \in [0..N -> [Seq(Calls) -> Seq(Calls)]]
  <2>1. ASSUME NEW n \in 0..N, NEW q \in Seq(Calls)
        PROVE  (IF n = 0 THEN q ELSE Step(q, n)) \in Seq(Calls)
    <3>1. n = 0 \/ n \in 1..N
      BY <1>2
    <3> HIDE DEF Step, N
    <3> QED BY <1>4, <3>1
  <2> HIDE DEF Step, N
  <2> QED BY <2>1
<1>6. PICK g \in [0..N -> Seq(Calls)] : \A i \in 0..N : g[i] = IF i = 0 THEN <<>> ELSE F[i][g[i - 1]]
  <2> HIDE DEF F, N
  <2>1. \E g : IsRecursion(g, 0, N, Seq(Calls), <<>>, F)
    BY <1>2, <1>5, RecursionExists, Zenon
  <2> QED BY <2>1 DEF IsRecursion
<1>7. IsTaken(g)
  <2>1. ASSUME NEW i \in 0..N
        PROVE  g[i] = IF i = 0 THEN <<>> ELSE Step(g[i - 1], i)
    <3> HIDE DEF Step
    <3>1. i = 0 \/ i - 1 \in 0..N
      BY <1>2
    <3>2. i = 0 \/ g[i - 1] \in Seq(Calls)
      BY <1>6, <3>1
    <3>3. i = 0 \/ F[i][g[i - 1]] = Step(g[i - 1], i)
      BY <3>2
    <3> QED BY <1>6, <3>3
  <2>2. DOMAIN g = 0..N /\ g = [i \in 0..N |-> g[i]]
    OBVIOUS
  <2> HIDE DEF F, N, Step
  <2> QED BY <2>1, <2>2
<1>8. PICK f : IsTaken(f) /\ f = calls
  <2> HIDE DEF IsTaken
  <2> QED BY <1>7
<1>9. f[0] = <<>> /\ \A n \in 1..N : f[n] = Step(f[n - 1], n)
  <2> HIDE DEF Step
  <2>1. \A n \in 0..N : f[n] = IF n = 0 THEN <<>> ELSE Step(f[n - 1], n)
    <3> HIDE DEF N
    <3> QED BY <1>8
  <2>2. 0 \in 0..N /\ \A n \in 1..N : n \in 0..N /\ n # 0
    BY <1>2
  <2> HIDE DEF N
  <2> QED BY <2>1, <2>2, Zenon
<1> HIDE DEF calls, IsTaken, Step, N
<1>10. ASSUME NEW n \in 0 + 1 .. N, f[n - 1] \in Seq(Calls)
       PROVE  f[n] \in Seq(Calls)
  <2>1. n \in 1 .. N
    BY <1>2
  <2>2. Step(f[n - 1], n) \in Seq(Calls)
    BY <1>4, <1>10, <2>1
  <2> QED BY <1>9, <2>1, <2>2
<1>11. f[0] \in Seq(Calls)
  BY <1>2, <1>9, Zenon
<1>12. \A n \in 0..N : f[n] \in Seq(Calls)
  BY <1>2, <1>10, <1>11, RecursionStays
<1> QED BY <1>1, <1>2, <1>8, <1>12

(* A block is restored, kept as text, or its calls are taken, which are of  *)
(* declared tools then.                                                    *)
LEMMA ProcessBecomes ==
  ASSUME NEW p \in Parser, NEW content \in Seq(Atom)
  PROVE  /\ Becomes(p, ProcessToolContent(p, content))
         /\ ProcessToolContent(p, content).buffer = p.buffer
<1>1. PICK calls \in Seq(Calls) : calls = CallsOf(content)
  BY CallsOfType
<1> DEFINE N == Len(calls)
           IsTaking(g) == g = [n \in 0..N |-> IF n = 0 THEN p ELSE Finalize(g[n - 1], calls[n])]
           taking == CHOOSE g : IsTaking(g)
           S == {q \in Parser : q.buffer = p.buffer}
           F == [n \in 0..N |-> [q \in S |-> IF n = 0 THEN q ELSE Finalize(q, calls[n])]]
<1>2. ProcessToolContent(p, content) =
        IF calls = <<>> THEN Restore(p)
        ELSE IF ToSet(calls) \intersect Undeclared # {} THEN PreserveLiteral(p, content)
        ELSE taking[N]
  BY <1>1 DEF ProcessToolContent
<1>3. CASE calls = <<>>
  BY <1>2, <1>3, RestoreBecomes
<1>4. CASE calls # <<>> /\ ToSet(calls) \intersect Undeclared # {}
  BY <1>2, <1>4, PreserveBecomes
<1>5. CASE calls # <<>> /\ ToSet(calls) \intersect Undeclared = {}
  <2>1. ProcessToolContent(p, content) = taking[N]
    BY <1>2, <1>5
  <2>2. N \in Nat /\ 0 \in Nat /\ 0 <= N /\ N \in 0..N /\ p \in S
    OBVIOUS
  <2>3. \A n \in 1..N : calls[n] \in Declared /\ calls[n] \in Calls
    BY <1>5 DEF Calls, ToSet
  <2>4. \A q \in S, n \in 1..N : /\ Finalize(q, calls[n]) \in S
                                 /\ Honest(q.calls) => Honest(Finalize(q, calls[n]).calls)
    BY <2>3, FinalizeBecomes
  <2>5. F \in [0..N -> [S -> S]]
    <3>1. ASSUME NEW n \in 0..N, NEW q \in S
          PROVE  (IF n = 0 THEN q ELSE Finalize(q, calls[n])) \in S
      <4>1. n = 0 \/ n \in 1..N
        BY <2>2
      <4> HIDE DEF S, N
      <4> QED BY <2>4, <4>1
    <3> HIDE DEF S, N
    <3> QED BY <3>1
  <2>6. PICK g \in [0..N -> S] : \A i \in 0..N : g[i] = IF i = 0 THEN p ELSE F[i][g[i - 1]]
    <3> HIDE DEF F, N, S
    <3>1. \E g : IsRecursion(g, 0, N, S, p, F)
      BY <2>2, <2>5, RecursionExists, Zenon
    <3> QED BY <3>1 DEF IsRecursion
  <2>7. IsTaking(g)
    <3>1. ASSUME NEW i \in 0..N
          PROVE  g[i] = IF i = 0 THEN p ELSE Finalize(g[i - 1], calls[i])
      <4> HIDE DEF S
      <4>1. i = 0 \/ i - 1 \in 0..N
        BY <2>2
      <4>2. i = 0 \/ g[i - 1] \in S
        BY <2>6, <4>1
      <4>3. i = 0 \/ F[i][g[i - 1]] = Finalize(g[i - 1], calls[i])
        BY <4>2
      <4> QED BY <2>6, <4>3
    <3>2. DOMAIN g = 0..N /\ g = [i \in 0..N |-> g[i]]
      OBVIOUS
    <3> HIDE DEF F, N, S
    <3> QED BY <3>1, <3>2
  <2>8. PICK f : IsTaking(f) /\ f = taking
    <3> HIDE DEF IsTaking
    <3> QED BY <2>7
  <2>9. f[0] = p /\ \A n \in 1..N : f[n] = Finalize(f[n - 1], calls[n])
    <3>1. \A n \in 0..N : f[n] = IF n = 0 THEN p ELSE Finalize(f[n - 1], calls[n])
      <4> HIDE DEF N
      <4> QED BY <2>8
    <3>2. 0 \in 0..N /\ \A n \in 1..N : n \in 0..N /\ n # 0
      BY <2>2
    <3> HIDE DEF N
    <3> QED BY <3>1, <3>2, Zenon
  <2> DEFINE T == {q \in S : Honest(p.calls) => Honest(q.calls)}
  <2>10. ASSUME NEW n \in 0 + 1 .. N, f[n - 1] \in T
         PROVE  f[n] \in T
    <3>1. n \in 1 .. N
      BY <2>2
    <3>2. PICK q : q = f[n - 1]
      OBVIOUS
    <3>3. q \in S /\ (Honest(p.calls) => Honest(q.calls))
      BY <2>10, <3>2
    <3>4. f[n] = Finalize(q, calls[n])
      BY <2>9, <3>1, <3>2
    <3> HIDE DEF S
    <3> QED BY <2>4, <3>1, <3>3, <3>4
  <2>11. f[0] \in T
    BY <2>2, <2>9
  <2>12. \A n \in 0..N : f[n] \in T
    <3> HIDE DEF T, N
    <3> QED BY <2>2, <2>10, <2>11, RecursionStays
  <2>13. f[N] \in T
    BY <2>2, <2>12
  <2> HIDE DEF taking, IsTaking
  <2> QED BY <2>1, <2>8, <2>13 DEF Becomes
<1> QED BY <1>3, <1>4, <1>5

(* Where things are found, there are atoms. *)
LEMMA FindType ==
  ASSUME NEW p \in Parser, NEW tag
  PROVE  Find(p, tag) \in 0 .. Len(p.buffer)
<1> DEFINE S == {i \in 1..Len(p.buffer) : At(p.buffer, i, tag) /\ Outside(p.buffer, i, p.code)}
<1>1. S \in SUBSET Nat /\ Find(p, tag) = Least(S)
  BY DEF Find
<1>2. \A i \in S : i \in 1 .. Len(p.buffer)
  OBVIOUS
<1>3. Len(p.buffer) \in Nat
  BY DEF Parser
<1> HIDE DEF S
<1>4. Least(S) = 0 \/ Least(S) \in S
  BY <1>1, LeastType
<1>5. Least(S) \in 0 .. Len(p.buffer)
  BY <1>2, <1>3, <1>4
<1> QED BY <1>1, <1>5

LEMMA CloseOfType ==
  ASSUME NEW b \in Seq(Atom)
  PROVE  CloseOf(b).at \in 0 .. Len(b) /\ CloseOf(b).length \in 1 .. 2
<1>1. Len(CloseTag) = 2 /\ Len(<<"orphan">>) = 1 /\ Len(CloseTag) \in Nat /\ Len(<<"orphan">>) \in Nat
  BY DEF CloseTag
<1>2. IndexOf(b, CloseTag) \in 0 .. Len(b) /\ IndexOf(b, <<"orphan">>) \in 0 .. Len(b)
  BY <1>1, IndexOfType
<1> QED BY <1>2 DEF CloseOf

LEMMA MissingOpenType ==
  ASSUME NEW p \in Parser
  PROVE  MissingOpen(p) \in 0 .. Len(p.buffer)
<1>1. PICK b \in Seq(Atom) : b = p.buffer
  BY DEF Parser
<1>2. PICK close \in 0 .. Len(b) : close = IndexOf(b, CloseTag)
  <2>1. Len(CloseTag) = 2 /\ Len(CloseTag) \in Nat
    BY DEF CloseTag
  <2>2. IndexOf(b, CloseTag) \in 0 .. Len(b)
    BY <2>1, IndexOfType
  <2> QED BY <2>2
<1> DEFINE S == {i \in 1..close : b[i] \in Calls /\ Outside(b, i, p.code)}
<1>3. MissingOpen(p) = 0 \/ MissingOpen(p) = Least(S)
  BY <1>1, <1>2 DEF MissingOpen
<1>4. \A i \in S : i \in 1 .. Len(b)
  OBVIOUS
<1>10. S \in SUBSET Nat
  OBVIOUS
<1>5. Len(b) \in Nat
  OBVIOUS
<1> HIDE DEF S
<1>6. Least(S) = 0 \/ Least(S) \in S
  BY <1>10, LeastType
<1>7. Least(S) \in 0 .. Len(b)
  BY <1>4, <1>5, <1>6
<1> QED BY <1>1, <1>3, <1>5, <1>7

LEMMA RawCallType ==
  ASSUME NEW b \in Seq(Atom)
  PROVE  RawCall(b) = 0 \/ (/\ RawCall(b) \in 1 .. Len(b)
                            /\ b[RawCall(b)] \in Declared /\ b[RawCall(b)] \in Calls)
  BY FirstCallType DEF RawCall

LEMMA PartialType ==
  ASSUME NEW p \in Parser
  PROVE  PartialOpen(p) \in 0 .. Len(p.buffer) /\ PartialMissingOpen(p) \in 0 .. Len(p.buffer)
<1>1. Len(p.buffer) \in Nat
  BY DEF Parser
<1>2. PartialOpen(p) \in 0 .. Len(p.buffer)
  BY <1>1 DEF PartialOpen
<1> DEFINE S == {i \in 1..Len(p.buffer) : p.buffer[i] \in Calls /\ Outside(p.buffer, i, p.code)}
<1>3. PartialMissingOpen(p) = 0 \/ PartialMissingOpen(p) = Least(S)
  BY DEF PartialMissingOpen
<1>4. \A i \in S : i \in 1 .. Len(p.buffer)
  OBVIOUS
<1>7. S \in SUBSET Nat
  OBVIOUS
<1> HIDE DEF S
<1>5. Least(S) = 0 \/ Least(S) \in S
  BY <1>7, LeastType
<1>6. Least(S) \in 0 .. Len(p.buffer)
  BY <1>1, <1>4, <1>5
<1> QED BY <1>1, <1>2, <1>3, <1>6

(* The object of a fence, and what comes after it. *)
LEMMA RawStartType ==
  ASSUME NEW b \in Seq(Atom), NEW i \in 1 .. Len(b)
  PROVE  RawStart(b, i) \in 1 .. i
<1> DEFINE S == {n \in 0..(i - 1) : Blank(SubSeq(b, i - n, i - 1))}
<1>1. 0 \in S
  <2>1. SubSeq(b, i - 0, i - 1) = <<>>
    OBVIOUS
  <2>2. Blank(SubSeq(b, i - 0, i - 1))
    BY <2>1 DEF Blank
  <2> QED BY <2>2
<1>2. S \in SUBSET (0 .. (i - 1)) /\ i - 1 \in Nat
  OBVIOUS
<1>3. PICK blanks : blanks = Max(S)
  OBVIOUS
<1>4. RawStart(b, i) = IF i - blanks - 3 >= 1 /\ At(b, i - blanks - 3, Fence)
                       THEN i - blanks - 3 ELSE i
  BY <1>3 DEF RawStart
<1>5. blanks \in 0 .. (i - 1)
  <2> HIDE DEF S
  <2> QED BY <1>1, <1>2, <1>3, GreatestNumber
<1> HIDE DEF S
<1> QED BY <1>4, <1>5

LEMMA RawEndType ==
  ASSUME NEW b \in Seq(Atom), NEW i \in 1 .. Len(b)
  PROVE  RawEnd(b, i) \in Nat /\ RawEnd(b, i) >= 2
<1>1. PICK after \in Nat : after = IF At(b, i + 2, Fence) THEN i + 5 ELSE i + 2
  OBVIOUS
<1> DEFINE S == {n \in 0..(Len(b) - after + 1) : Blank(SubSeq(b, after, after + n - 1))}
<1>2. PICK blanks : blanks = Max(S)
  OBVIOUS
<1>3. RawEnd(b, i) = IF after = i + 2 THEN after ELSE after + blanks
  BY <1>1, <1>2 DEF RawEnd
<1>4. after >= 2
  BY <1>1
<1>5. ASSUME after # i + 2
      PROVE  blanks \in Nat
  <2>1. At(b, i + 2, Fence) /\ after = i + 5
    BY <1>1, <1>5
  <2>2. Len(Fence) = 3
    BY DEF Fence
  <2>3. i + 2 + 3 - 1 <= Len(b)
    BY <2>1, <2>2 DEF At
  <2>4. PICK top \in Nat : top = Len(b) - after + 1
    <3>1. Len(b) \in Nat /\ i \in Nat
      OBVIOUS
    <3>2. Len(b) - after + 1 \in Nat
      BY <2>1, <2>3, <3>1
    <3> QED BY <3>2
  <2>5. 0 \in S
    <3>1. SubSeq(b, after, after + 0 - 1) = <<>>
      BY <2>1
    <3>2. Blank(SubSeq(b, after, after + 0 - 1))
      BY <3>1 DEF Blank
    <3> QED BY <2>4, <3>2
  <2>6. S \in SUBSET (0 .. top)
    BY <2>4
  <2> HIDE DEF S
  <2>7. blanks \in S
    BY <1>2, <2>4, <2>5, <2>6, GreatestNumber
  <2> QED BY <2>6, <2>7
<1> QED BY <1>3, <1>4, <1>5

(* The buffer of a parser is cut. *)
LEMMA FromShorter ==
  ASSUME NEW b \in Seq(Atom), NEW m \in Nat \ {0}
  PROVE  /\ From(b, m) \in Seq(Atom) /\ Len(From(b, m)) <= Len(b)
         /\ b # <<>> /\ m >= 2 => Len(From(b, m)) < Len(b)
<1>1. From(b, m) \in Seq(Atom)
  BY FromType
<1>2. Len(From(b, m)) = IF m <= Len(b) THEN Len(b) - m + 1 ELSE 0
  BY DEF From
<1>3. b # <<>> => Len(b) > 0
  OBVIOUS
<1> QED BY <1>1, <1>2, <1>3

LEMMA CutBecomes ==
  ASSUME NEW p \in Parser, NEW s \in Seq(Atom), NEW b \in BOOLEAN, NEW c \in BOOLEAN
  PROVE  /\ Becomes(p, [p EXCEPT !.buffer = s])
         /\ [p EXCEPT !.buffer = s].buffer = s /\ [p EXCEPT !.buffer = s].inside = p.inside
         /\ Becomes(p, [p EXCEPT !.buffer = s, !.inside = b])
         /\ [p EXCEPT !.buffer = s, !.inside = b].buffer = s
         /\ Becomes(p, [p EXCEPT !.buffer = s, !.off = b])
  BY DEF Parser, Becomes

LEMMA MarkBecomes ==
  ASSUME NEW p \in Parser, NEW b \in BOOLEAN
  PROVE  /\ Becomes(p, [p EXCEPT !.malformed = b]) /\ [p EXCEPT !.malformed = b].buffer = p.buffer
         /\ Becomes(p, [p EXCEPT !.truncated = b]) /\ [p EXCEPT !.truncated = b].buffer = p.buffer
         /\ Becomes(p, [p EXCEPT !.inside = b]) /\ [p EXCEPT !.inside = b].buffer = p.buffer
         /\ Becomes(p, [p EXCEPT !.lead = <<>>, !.truncated = b])
         /\ Becomes(p, [p EXCEPT !.lead = <<>>])
<1>1. <<>> \in Seq(Atom)
  OBVIOUS
<1> QED BY <1>1 DEF Parser, Becomes

(* The branches of Consume. *)
Moves(p, r) == Becomes(p, r) /\ Len(r.buffer) < Len(p.buffer)

LEMMA EmitBeforeBecomes ==
  ASSUME NEW p \in Parser, NEW i \in 1 .. Len(p.buffer) + 1
  PROVE  Becomes(p, EmitBefore(p, i)) /\ EmitBefore(p, i).buffer = From(p.buffer, i)
<1>1. PICK b \in Seq(Atom) : b = p.buffer
  BY DEF Parser
<1>2. Upto(b, i - 1) \in Seq(Atom) /\ From(b, i) \in Seq(Atom)
  <2>1. i - 1 \in Int /\ i - 1 <= Len(b) /\ i \in Nat \ {0}
    BY <1>1
  <2> QED BY <2>1, UptoType, FromType
<1>3. PICK q : q = Emit(p, Upto(b, i - 1))
  OBVIOUS
<1>4. Becomes(p, q) /\ q.buffer = b
  BY <1>1, <1>2, <1>3, EmitBecomes
<1>5. EmitBefore(p, i) = [q EXCEPT !.buffer = From(b, i)]
  BY <1>1, <1>3, <1>4 DEF EmitBefore
<1>6. q \in Parser
  BY <1>4 DEF Becomes
<1>7. Becomes(q, EmitBefore(p, i)) /\ EmitBefore(p, i).buffer = From(b, i)
  <2>1. PICK t \in Seq(Atom) : t = From(b, i)
    BY <1>2
  <2>2. Becomes(q, [q EXCEPT !.buffer = t]) /\ [q EXCEPT !.buffer = t].buffer = t
    BY <1>6, CutBecomes
  <2> QED BY <1>5, <2>1, <2>2
<1> QED BY <1>1, <1>4, <1>7, BecomesOn

LEMMA DropMarkerMoves ==
  ASSUME NEW p \in Parser, NEW i \in 1 .. Len(p.buffer)
  PROVE  Moves(p, DropMarker(p, i)) /\ Moves(p, [DropMarker(p, i) EXCEPT !.malformed = TRUE])
<1>1. PICK b \in Seq(Atom) : b = p.buffer
  BY DEF Parser
<1>2. PICK q : q = EmitBefore(p, i)
  OBVIOUS
<1>3. i \in 1 .. Len(p.buffer) + 1 /\ i \in Nat \ {0}
  BY <1>1
<1>4. Becomes(p, q) /\ q.buffer = From(b, i) /\ q \in Parser
  BY <1>1, <1>2, <1>3, EmitBeforeBecomes DEF Becomes
<1>5. PICK t : t = From(b, i)
  OBVIOUS
<1>6. t \in Seq(Atom) /\ Len(t) <= Len(b) /\ Len(t) = Len(b) - i + 1 /\ t # <<>>
  <2>1. t \in Seq(Atom) /\ Len(t) <= Len(b)
    BY <1>3, <1>5, FromShorter
  <2>2. Len(t) = Len(b) - i + 1
    BY <1>1, <1>5 DEF From
  <2> QED BY <1>1, <2>1, <2>2
<1>7. Tail(t) \in Seq(Atom) /\ Len(Tail(t)) = Len(t) - 1
  BY <1>6
<1>8. PICK r : r = [q EXCEPT !.buffer = Tail(t)]
  OBVIOUS
<1>9. DropMarker(p, i) = r
  BY <1>2, <1>4, <1>5, <1>8 DEF DropMarker
<1>10. Becomes(q, r) /\ r.buffer = Tail(t) /\ r \in Parser
  BY <1>4, <1>7, <1>8, CutBecomes DEF Becomes
<1>11. Moves(p, r)
  <2>1. Becomes(p, r)
    BY <1>4, <1>10, BecomesOn
  <2> QED BY <1>1, <1>6, <1>7, <1>10, <2>1 DEF Moves
<1>12. Becomes(r, [r EXCEPT !.malformed = TRUE]) /\ [r EXCEPT !.malformed = TRUE].buffer = r.buffer
  BY <1>10, MarkBecomes
<1>13. Becomes(p, [r EXCEPT !.malformed = TRUE])
  BY <1>11, <1>12, BecomesOn DEF Moves
<1> QED BY <1>9, <1>11, <1>12, <1>13 DEF Moves

LEMMA DropSectionMoves ==
  ASSUME NEW p \in Parser, NEW i \in 1 .. Len(p.buffer)
  PROVE  Moves(p, DropSection(p, i))
<1>1. PICK b \in Seq(Atom) : b = p.buffer
  BY DEF Parser
<1>2. i + 1 \in Nat \ {0} /\ i + 1 >= 2 /\ b # <<>>
  BY <1>1
<1>3. PICK t \in Seq(Atom) : t = From(b, i + 1) /\ Len(t) < Len(b)
  BY <1>2, FromShorter
<1>4. Becomes(p, [p EXCEPT !.buffer = t]) /\ [p EXCEPT !.buffer = t].buffer = t
  BY CutBecomes
<1>5. Moves(p, [p EXCEPT !.buffer = t])
  BY <1>1, <1>3, <1>4 DEF Moves
<1>6. DropSection(p, i) = [p EXCEPT !.buffer = t] \/ DropSection(p, i) = DropMarker(p, i)
  BY <1>1, <1>3 DEF DropSection
<1> QED BY <1>5, <1>6, DropMarkerMoves

LEMMA EnterToolMoves ==
  ASSUME NEW p \in Parser, NEW i \in 1 .. Len(p.buffer)
  PROVE  Moves(p, EnterTool(p, i))
<1>1. PICK b \in Seq(Atom) : b = p.buffer
  BY DEF Parser
<1>2. i + 2 \in Nat \ {0} /\ i + 2 >= 2 /\ b # <<>> /\ i - 1 \in Int /\ i - 1 <= Len(b)
  BY <1>1
<1>3. PICK t \in Seq(Atom) : t = From(b, i + 2) /\ Len(t) < Len(b)
  BY <1>2, FromShorter
<1>4. PICK q : q = Hold(p, Upto(b, i - 1))
  OBVIOUS
<1>5. Becomes(p, q) /\ q.buffer = b /\ q \in Parser
  BY <1>1, <1>2, <1>4, UptoType, HoldBecomes DEF Becomes
<1>6. /\ Becomes(q, [q EXCEPT !.buffer = t, !.inside = TRUE])
      /\ [q EXCEPT !.buffer = t, !.inside = TRUE].buffer = t
  BY <1>5, CutBecomes
<1>7. EnterTool(p, i) = [q EXCEPT !.buffer = t, !.inside = TRUE]
  BY <1>1, <1>3, <1>4, <1>5 DEF EnterTool
<1>8. Becomes(p, EnterTool(p, i))
  BY <1>5, <1>6, <1>7, BecomesOn
<1> QED BY <1>1, <1>3, <1>6, <1>7, <1>8 DEF Moves

LEMMA LeaveToolMoves ==
  ASSUME NEW p \in Parser, NEW close, close.at \in 1 .. Len(p.buffer), close.length \in 1 .. 2
  PROVE  Moves(p, LeaveTool(p, close))
<1>1. PICK b \in Seq(Atom) : b = p.buffer
  BY DEF Parser
<1>2. PICK m \in Nat \ {0} : m = close.at + close.length /\ m >= 2
  BY <1>1
<1>3. b # <<>> /\ close.at - 1 \in Int /\ close.at - 1 <= Len(b)
  BY <1>1
<1>4. PICK t \in Seq(Atom) : t = From(b, m) /\ Len(t) < Len(b)
  BY <1>2, <1>3, FromShorter
<1>5. PICK q : q = [p EXCEPT !.buffer = t]
  OBVIOUS
<1>6. Becomes(p, q) /\ q.buffer = t /\ q \in Parser
  BY <1>5, CutBecomes DEF Becomes
<1>7. PICK content \in Seq(Atom) : content = Upto(b, close.at - 1)
  BY <1>3, UptoType
<1>8. PICK r : r = ProcessToolContent(q, content)
  OBVIOUS
<1>9. Becomes(q, r) /\ r.buffer = t /\ r \in Parser
  BY <1>6, <1>8, ProcessBecomes DEF Becomes
<1>10. LeaveTool(p, close) = [r EXCEPT !.inside = FALSE]
  BY <1>1, <1>2, <1>4, <1>5, <1>7, <1>8 DEF LeaveTool
<1>11. Becomes(r, [r EXCEPT !.inside = FALSE]) /\ [r EXCEPT !.inside = FALSE].buffer = r.buffer
  BY <1>9, MarkBecomes
<1>12. Becomes(p, [r EXCEPT !.inside = FALSE])
  <2>1. Becomes(p, r)
    BY <1>6, <1>9, BecomesOn
  <2> QED BY <1>11, <2>1, BecomesOn
<1> QED BY <1>1, <1>4, <1>9, <1>10, <1>11, <1>12 DEF Moves

LEMMA TakeUnopenedMoves ==
  ASSUME NEW p \in Parser, NEW i \in 1 .. Len(p.buffer)
  PROVE  Moves(p, TakeUnopened(p, i))
<1>1. PICK b \in Seq(Atom) : b = p.buffer
  BY DEF Parser
<1>2. PICK close \in 0 .. Len(b) : close = IndexOf(b, CloseTag)
  <2>1. Len(CloseTag) = 2 /\ Len(CloseTag) \in Nat
    BY DEF CloseTag
  <2>2. IndexOf(b, CloseTag) \in 0 .. Len(b)
    BY <2>1, IndexOfType
  <2> QED BY <2>2
<1>3. /\ close + 2 \in Nat \ {0} /\ close + 2 >= 2 /\ b # <<>>
      /\ i - 1 \in Int /\ i - 1 <= Len(b) /\ close - 1 \in Int /\ close - 1 <= Len(b)
      /\ i \in Nat \ {0}
  BY <1>1
<1>4. PICK t \in Seq(Atom) : t = From(b, close + 2) /\ Len(t) < Len(b)
  BY <1>3, FromShorter
<1>5. PICK q : q = Hold(p, Upto(b, i - 1))
  OBVIOUS
<1>6. Becomes(p, q) /\ q.buffer = b /\ q \in Parser
  BY <1>1, <1>3, <1>5, UptoType, HoldBecomes DEF Becomes
<1>7. PICK u : u = [q EXCEPT !.buffer = t]
  OBVIOUS
<1>8. Becomes(q, u) /\ u.buffer = t /\ u \in Parser
  BY <1>6, <1>7, CutBecomes DEF Becomes
<1>9. PICK content \in Seq(Atom) : content = SubSeq(b, i, close - 1)
  BY <1>3, PieceType
<1>10. PICK r : r = ProcessToolContent(u, content)
  OBVIOUS
<1>11. Becomes(u, r) /\ r.buffer = t
  BY <1>8, <1>10, ProcessBecomes
<1>12. TakeUnopened(p, i) = r
  BY <1>1, <1>2, <1>4, <1>5, <1>6, <1>7, <1>9, <1>10 DEF TakeUnopened
<1>13. Becomes(p, r)
  <2>1. Becomes(p, u)
    BY <1>6, <1>8, BecomesOn
  <2> QED BY <1>11, <2>1, BecomesOn
<1> QED BY <1>1, <1>4, <1>11, <1>12, <1>13 DEF Moves

LEMMA TakeRawMoves ==
  ASSUME NEW p \in Parser, NEW i \in 1 .. Len(p.buffer),
         p.buffer[i] \in Declared, p.buffer[i] \in Calls
  PROVE  Moves(p, TakeRaw(p, i))
<1>1. PICK b \in Seq(Atom) : b = p.buffer
  BY DEF Parser
<1>2. PICK m \in Nat : m = RawEnd(b, i) /\ m >= 2
  BY <1>1, RawEndType
<1>3. PICK k \in 1 .. i : k = RawStart(b, i)
  BY <1>1, RawStartType
<1>4. b # <<>> /\ k - 1 \in Int /\ k - 1 <= Len(b) /\ m \in Nat \ {0}
  BY <1>1, <1>2
<1>5. PICK t \in Seq(Atom) : t = From(b, m) /\ Len(t) < Len(b)
  BY <1>2, <1>4, FromShorter
<1>6. PICK q : q = Hold(p, Upto(b, k - 1))
  OBVIOUS
<1>7. Becomes(p, q) /\ q.buffer = b /\ q \in Parser
  BY <1>1, <1>4, <1>6, UptoType, HoldBecomes DEF Becomes
<1>8. PICK u : u = [q EXCEPT !.buffer = t]
  OBVIOUS
<1>9. Becomes(q, u) /\ u.buffer = t /\ u \in Parser
  BY <1>7, <1>8, CutBecomes DEF Becomes
<1>10. PICK c : c = b[i]
  OBVIOUS
<1>11. c \in Declared /\ c \in Calls
  BY <1>1, <1>10
<1>12. Becomes(u, Finalize(u, c)) /\ Finalize(u, c).buffer = t
  BY <1>9, <1>11, FinalizeBecomes DEF Becomes
<1>13. TakeRaw(p, i) = Finalize(u, c)
  BY <1>1, <1>2, <1>3, <1>5, <1>6, <1>7, <1>8, <1>10 DEF TakeRaw
<1>14. Becomes(p, Finalize(u, c))
  <2>1. Becomes(p, u)
    BY <1>7, <1>9, BecomesOn
  <2> QED BY <1>12, <2>1, BecomesOn
<1> QED BY <1>1, <1>5, <1>12, <1>13, <1>14 DEF Moves

LEMMA EmitSafeBecomes ==
  ASSUME NEW p \in Parser
  PROVE  Becomes(p, EmitSafe(p))
<1>1. PICK N \in Nat : N = Len(p.buffer)
  BY DEF Parser
<1>2. PICK S : S = {PartialOpen(p), PartialMissingOpen(p)} \ {0}
  OBVIOUS
<1>3. S \in SUBSET Nat /\ \A i \in S : i \in 1 .. N
  BY <1>1, <1>2, PartialType
<1>4. PICK k : k = IF S = {} THEN N + 1 ELSE Min(S)
  OBVIOUS
<1>5. k \in 1 .. N + 1
  <2>1. S = {} \/ Min(S) \in S
    BY <1>3, LeastNumber
  <2> QED BY <1>1, <1>3, <1>4, <2>1
<1>6. EmitSafe(p) = EmitBefore(p, k)
  BY <1>1, <1>2, <1>4 DEF EmitSafe
<1> QED BY <1>1, <1>5, <1>6, EmitBeforeBecomes

LEMMA SwitchOffBecomes ==
  ASSUME NEW p \in Parser, NEW i \in 1 .. Len(p.buffer)
  PROVE  Becomes(p, SwitchOff(p, i))
<1>1. i \in 1 .. Len(p.buffer) + 1
  BY DEF Parser
<1>2. PICK q : q = EmitBefore(p, i)
  OBVIOUS
<1>3. Becomes(p, q) /\ q \in Parser
  BY <1>1, <1>2, EmitBeforeBecomes DEF Becomes
<1>4. <<>> \in Seq(Atom)
  OBVIOUS
<1>5. Becomes(q, [q EXCEPT !.buffer = <<>>, !.off = TRUE])
  BY <1>3, <1>4, CutBecomes
<1>6. SwitchOff(p, i) = [q EXCEPT !.buffer = <<>>, !.off = TRUE]
  BY <1>2 DEF SwitchOff
<1> QED BY <1>3, <1>5, <1>6, BecomesOn

(* Where an operation on parsers goes on from, or what it ends with.        *)
OnFrom(q) == [on |-> TRUE, at |-> q]
EndsWith(q) == [on |-> FALSE, at |-> q]

StepsBecome(p, d) ==
  d.at \in Parser /\ Becomes(p, d.at) /\ (d.on => Len(d.at.buffer) < Len(p.buffer))

ConsumeStep(p) ==
  LET corrupt == Find(p, <<"corrupt">>)
      orphan == Find(p, <<"orphan">>)
      section == Find(p, <<"section">>)
      open == Find(p, OpenTag)
      close == CloseOf(p.buffer)
      missing == MissingOpen(p)
      raw == RawCall(p.buffer)
  IN  IF p.buffer = <<>> THEN EndsWith(p)
      ELSE IF p.inside THEN IF close.at = 0 THEN EndsWith(p) ELSE OnFrom(LeaveTool(p, close))
      ELSE IF NotAfter(corrupt, open) /\ NotAfter(corrupt, section) THEN EndsWith(SwitchOff(p, corrupt))
      ELSE IF NotAfter(orphan, open) /\ NotAfter(orphan, section)
      THEN OnFrom([DropMarker(p, orphan) EXCEPT !.malformed = TRUE])
      ELSE IF NotAfter(section, open) THEN OnFrom(DropSection(p, section))
      ELSE IF open # 0 THEN OnFrom(EnterTool(p, open))
      ELSE IF missing # 0 THEN OnFrom(TakeUnopened(p, missing))
      ELSE IF raw = 0 THEN EndsWith(EmitSafe(p))
      ELSE IF RawComplete(p.buffer, raw) THEN OnFrom(TakeRaw(p, raw))
      ELSE EndsWith(EmitBefore(p, RawStart(p.buffer, raw)))

LEMMA StepParts ==
  ASSUME NEW q
  PROVE  /\ OnFrom(q).on = TRUE /\ OnFrom(q).at = q
         /\ EndsWith(q).on = FALSE /\ EndsWith(q).at = q
  BY DEF OnFrom, EndsWith

LEMMA OnFromBecomes ==
  ASSUME NEW p, NEW q, Moves(p, q)
  PROVE  StepsBecome(p, OnFrom(q)) /\ OnFrom(q).on = TRUE
  BY DEF Moves, Becomes, StepsBecome, OnFrom

LEMMA EndsWithBecomes ==
  ASSUME NEW p, NEW q, Becomes(p, q)
  PROVE  StepsBecome(p, EndsWith(q)) /\ EndsWith(q).on = FALSE
  BY DEF Becomes, StepsBecome, EndsWith

LEMMA ConsumeStepBecomes ==
  ASSUME NEW p \in Parser
  PROVE  StepsBecome(p, ConsumeStep(p)) /\ ConsumeStep(p).on \in BOOLEAN
<1>1. PICK corrupt \in 0 .. Len(p.buffer) : corrupt = Find(p, <<"corrupt">>)
  BY FindType
<1>2. PICK orphan \in 0 .. Len(p.buffer) : orphan = Find(p, <<"orphan">>)
  BY FindType
<1>3. PICK section \in 0 .. Len(p.buffer) : section = Find(p, <<"section">>)
  BY FindType
<1>4. PICK open \in 0 .. Len(p.buffer) : open = Find(p, OpenTag)
  BY FindType
<1>5. p.buffer \in Seq(Atom) /\ Len(p.buffer) \in Nat
  BY DEF Parser
<1>6. PICK close : close = CloseOf(p.buffer) /\ close.at \in 0 .. Len(p.buffer) /\ close.length \in 1 .. 2
  BY <1>5, CloseOfType
<1>7. PICK missing \in 0 .. Len(p.buffer) : missing = MissingOpen(p)
  BY MissingOpenType
<1>8. PICK raw : raw = RawCall(p.buffer)
  OBVIOUS
<1>9. raw = 0 \/ (/\ raw \in 1 .. Len(p.buffer)
                  /\ p.buffer[raw] \in Declared /\ p.buffer[raw] \in Calls)
  BY <1>5, <1>8, RawCallType
<1>10. PICK d : d = ConsumeStep(p)
  OBVIOUS
<1>11. d = IF p.buffer = <<>> THEN EndsWith(p)
           ELSE IF p.inside THEN IF close.at = 0 THEN EndsWith(p) ELSE OnFrom(LeaveTool(p, close))
           ELSE IF NotAfter(corrupt, open) /\ NotAfter(corrupt, section)
           THEN EndsWith(SwitchOff(p, corrupt))
           ELSE IF NotAfter(orphan, open) /\ NotAfter(orphan, section)
           THEN OnFrom([DropMarker(p, orphan) EXCEPT !.malformed = TRUE])
           ELSE IF NotAfter(section, open) THEN OnFrom(DropSection(p, section))
           ELSE IF open # 0 THEN OnFrom(EnterTool(p, open))
           ELSE IF missing # 0 THEN OnFrom(TakeUnopened(p, missing))
           ELSE IF raw = 0 THEN EndsWith(EmitSafe(p))
           ELSE IF RawComplete(p.buffer, raw) THEN OnFrom(TakeRaw(p, raw))
           ELSE EndsWith(EmitBefore(p, RawStart(p.buffer, raw)))
  BY <1>1, <1>2, <1>3, <1>4, <1>6, <1>7, <1>8, <1>10 DEF ConsumeStep
<1>12. Becomes(p, p)
  BY DEF Becomes
<1>13. close.at # 0 => Moves(p, LeaveTool(p, close))
  BY <1>5, <1>6, LeaveToolMoves
<1>14. corrupt # 0 => Becomes(p, SwitchOff(p, corrupt))
  BY <1>5, SwitchOffBecomes
<1>15. orphan # 0 => Moves(p, [DropMarker(p, orphan) EXCEPT !.malformed = TRUE])
  BY <1>5, DropMarkerMoves
<1>16. section # 0 => Moves(p, DropSection(p, section))
  BY <1>5, DropSectionMoves
<1>17. open # 0 => Moves(p, EnterTool(p, open))
  BY <1>5, EnterToolMoves
<1>18. missing # 0 => Moves(p, TakeUnopened(p, missing))
  BY <1>5, TakeUnopenedMoves
<1>19. Becomes(p, EmitSafe(p))
  BY EmitSafeBecomes
<1>20. raw # 0 => Moves(p, TakeRaw(p, raw)) /\ Becomes(p, EmitBefore(p, RawStart(p.buffer, raw)))
  <2> SUFFICES ASSUME raw # 0
               PROVE  Moves(p, TakeRaw(p, raw)) /\ Becomes(p, EmitBefore(p, RawStart(p.buffer, raw)))
    OBVIOUS
  <2>1. RawStart(p.buffer, raw) \in 1 .. Len(p.buffer) + 1
    <3>1. RawStart(p.buffer, raw) \in 1 .. raw
      BY <1>5, <1>9, RawStartType
    <3> QED BY <1>5, <1>9, <3>1
  <2> QED BY <1>9, <2>1, TakeRawMoves, EmitBeforeBecomes
<1>21. \A i \in Int, j \in Int : NotAfter(i, j) => i # 0
  BY DEF NotAfter
<1>22. \/ \E q : Moves(p, q) /\ d = OnFrom(q)
       \/ \E q : Becomes(p, q) /\ d = EndsWith(q)
  <2>1. corrupt \in Int /\ orphan \in Int /\ section \in Int /\ open \in Int
    OBVIOUS
  <2>2. /\ NotAfter(corrupt, open) => corrupt # 0
        /\ NotAfter(orphan, open) => orphan # 0
        /\ NotAfter(section, open) => section # 0
    BY <1>21, <2>1
  <2> QED BY <1>11, <1>12, <1>13, <1>14, <1>15, <1>16, <1>17, <1>18, <1>19, <1>20, <2>2, Zenon
<1>23. StepsBecome(p, d) /\ d.on \in BOOLEAN
  <2>1. CASE \E q : Moves(p, q) /\ d = OnFrom(q)
    BY <2>1, OnFromBecomes
  <2>2. CASE \E q : Becomes(p, q) /\ d = EndsWith(q)
    BY <2>2, EndsWithBecomes
  <2> QED BY <1>22, <2>1, <2>2
<1> QED BY <1>10, <1>23

(* A function that goes on as the steps say. *)
IsLoop(f, step) ==
  f = [p \in Parser |-> IF step[p].on THEN f[step[p].at] ELSE step[p].at]

LEMMA LoopExists ==
  ASSUME NEW step, \A p \in Parser : StepsBecome(p, step[p])
  PROVE  \E f : IsLoop(f, step)
<1> DEFINE D == {p \in Parser : step[p].on}
           N == [p \in D |-> step[p].at]
           O == [p \in Parser |-> step[p].at]
           m == [p \in Parser |-> Len(p.buffer)]
<1>1. D \in SUBSET Parser /\ \A p \in Parser : p \in D <=> step[p].on
  OBVIOUS
<1>2. \A p \in Parser : step[p].at \in Parser
  BY DEF StepsBecome
<1>3. N \in [D -> Parser] /\ O \in [Parser -> Parser]
  BY <1>2
<1>4. m \in [Parser -> Nat]
  BY DEF Parser
<1>5. \A p \in D : m[N[p]] < m[p]
  <2> SUFFICES ASSUME NEW p \in D PROVE m[N[p]] < m[p]
    OBVIOUS
  <2>1. p \in Parser /\ step[p].at \in Parser /\ N[p] = step[p].at
    BY <1>2
  <2>2. Len(step[p].at.buffer) < Len(p.buffer)
    BY DEF StepsBecome
  <2> QED BY <2>1, <2>2
<1>6. \A p \in D : N[p] = step[p].at
  OBVIOUS
<1>7. \A p \in Parser : O[p] = step[p].at
  OBVIOUS
<1> HIDE DEF D, N, O, m
<1>8. PICK f : IsTailRecursion(f, Parser, D, N, O)
  BY <1>1, <1>3, <1>4, <1>5, TailRecursionExists, Zenon
<1>9. f \in [Parser -> Parser] /\ \A p \in Parser : f[p] = IF p \in D THEN f[N[p]] ELSE O[p]
  BY <1>8 DEF IsTailRecursion
<1>10. \A p \in Parser : f[p] = IF step[p].on THEN f[step[p].at] ELSE step[p].at
  BY <1>1, <1>6, <1>7, <1>9
<1>11. f = [p \in Parser |-> f[p]]
  BY <1>9
<1> QED BY <1>10, <1>11 DEF IsLoop

LEMMA LoopBecomes ==
  ASSUME NEW step, \A p \in Parser : StepsBecome(p, step[p]), NEW f, IsLoop(f, step)
  PROVE  \A p \in Parser : Becomes(p, f[p])
<1> DEFINE Bad == {p \in Parser : ~ Becomes(p, f[p])}
           L == {Len(p.buffer) : p \in Bad}
<1>1. \A p \in Parser : f[p] = IF step[p].on THEN f[step[p].at] ELSE step[p].at
  BY DEF IsLoop
<1>2. SUFFICES ASSUME Bad # {} PROVE FALSE
  OBVIOUS
<1>3. L \in SUBSET Nat /\ L # {}
  <2>1. \A p \in Bad : Len(p.buffer) \in Nat
    BY DEF Parser
  <2> HIDE DEF Bad
  <2> QED BY <1>2, <2>1
<1>4. PICK n : n \in L /\ \A k \in L : n <= k
  <2> HIDE DEF L
  <2> QED BY <1>3, LeastNumber
<1>5. PICK p \in Bad : n = Len(p.buffer)
  <2> HIDE DEF Bad
  <2> QED BY <1>4
<1>6. p \in Parser /\ ~ Becomes(p, f[p])
  OBVIOUS
<1>7. PICK q : q = step[p].at
  OBVIOUS
<1>8. q \in Parser /\ Becomes(p, q) /\ (step[p].on => Len(q.buffer) < Len(p.buffer))
  BY <1>6, <1>7 DEF StepsBecome
<1>9. Becomes(q, f[q]) \/ Len(q.buffer) \in L
  BY <1>8
<1>10. CASE step[p].on
  <2>1. f[p] = f[q]
    BY <1>1, <1>6, <1>7, <1>10
  <2>2. Len(q.buffer) \in L
    <3> HIDE DEF L
    <3> QED BY <1>6, <1>8, <1>9, <2>1, BecomesOn
  <2>3. n <= Len(q.buffer)
    <3> HIDE DEF L
    <3> QED BY <1>4, <2>2
  <2>4. Len(q.buffer) \in Nat /\ Len(p.buffer) \in Nat
    BY <1>6, <1>8 DEF Parser
  <2> QED BY <1>5, <1>8, <1>10, <2>3, <2>4
<1>11. CASE ~ step[p].on
  BY <1>1, <1>6, <1>7, <1>8, <1>11
<1> QED BY <1>10, <1>11

LEMMA ConsumeBecomes ==
  ASSUME NEW p \in Parser
  PROVE  Becomes(p, Consume[p])
<1> DEFINE Body(g, q) ==
      LET corrupt == Find(q, <<"corrupt">>)
          orphan == Find(q, <<"orphan">>)
          section == Find(q, <<"section">>)
          open == Find(q, OpenTag)
          close == CloseOf(q.buffer)
          missing == MissingOpen(q)
          raw == RawCall(q.buffer)
      IN  IF q.buffer = <<>> THEN q
          ELSE IF q.inside THEN IF close.at = 0 THEN q ELSE g[LeaveTool(q, close)]
          ELSE IF NotAfter(corrupt, open) /\ NotAfter(corrupt, section) THEN SwitchOff(q, corrupt)
          ELSE IF NotAfter(orphan, open) /\ NotAfter(orphan, section)
          THEN g[[DropMarker(q, orphan) EXCEPT !.malformed = TRUE]]
          ELSE IF NotAfter(section, open) THEN g[DropSection(q, section)]
          ELSE IF open # 0 THEN g[EnterTool(q, open)]
          ELSE IF missing # 0 THEN g[TakeUnopened(q, missing)]
          ELSE IF raw = 0 THEN EmitSafe(q)
          ELSE IF RawComplete(q.buffer, raw) THEN g[TakeRaw(q, raw)]
          ELSE EmitBefore(q, RawStart(q.buffer, raw))
      IsConsume(g) == g = [q \in Parser |-> Body(g, q)]
      consume == CHOOSE g : IsConsume(g)
<1>1. Consume = consume
  BY DEF Consume
<1>2. PICK step : step = [q \in Parser |-> ConsumeStep(q)]
  OBVIOUS
<1>3. \A q \in Parser : step[q] = ConsumeStep(q)
  BY <1>2
<1>4. \A q \in Parser : StepsBecome(q, step[q])
  BY <1>3, ConsumeStepBecomes
<1>5. ASSUME NEW g, NEW q \in Parser
      PROVE  Body(g, q) = IF step[q].on THEN g[step[q].at] ELSE step[q].at
  BY <1>3, StepParts DEF ConsumeStep
<1> HIDE DEF Body
<1>6. \A g : IsConsume(g) <=> IsLoop(g, step)
  <2> SUFFICES ASSUME NEW g PROVE IsConsume(g) <=> IsLoop(g, step)
    OBVIOUS
  <2>1. \A q \in Parser : Body(g, q) = IF step[q].on THEN g[step[q].at] ELSE step[q].at
    BY <1>5
  <2> QED BY <2>1 DEF IsLoop
<1>7. PICK f : IsConsume(f) /\ f = consume
  <2>1. \E g : IsLoop(g, step)
    BY <1>4, LoopExists
  <2>2. \E g : IsConsume(g)
    BY <1>6, <2>1
  <2> HIDE DEF IsConsume
  <2> QED BY <2>2
<1>8. IsLoop(f, step)
  BY <1>6, <1>7
<1>9. Becomes(p, f[p])
  BY <1>4, <1>8, LoopBecomes
<1> HIDE DEF consume, IsConsume
<1> QED BY <1>1, <1>7, <1>9

(* What is left at the end of an answer. *)
FlushStep(p) ==
  LET raw == RawCall(p.buffer)
      kept == Hold(p, Upto(p.buffer, RawStart(p.buffer, raw) - 1))
  IN  IF raw = 0 THEN EndsWith(Emit(p, p.buffer))
      ELSE IF RawComplete(p.buffer, raw) THEN OnFrom(TakeRaw(p, raw))
      ELSE OnFrom(Finalize([kept EXCEPT !.buffer = <<>>], p.buffer[raw]))

LEMMA FlushStepBecomes ==
  ASSUME NEW p \in Parser
  PROVE  StepsBecome(p, FlushStep(p))
<1>1. PICK b \in Seq(Atom) : b = p.buffer
  BY DEF Parser
<1>2. PICK raw : raw = RawCall(b)
  OBVIOUS
<1>3. CASE raw = 0
  <2>1. Becomes(p, Emit(p, b))
    BY EmitBecomes
  <2> QED BY <1>1, <1>2, <1>3, <2>1, EndsWithBecomes DEF FlushStep
<1>4. CASE raw # 0
  <2>1. raw \in 1 .. Len(b) /\ b[raw] \in Declared /\ b[raw] \in Calls
    BY <1>2, <1>4, RawCallType
  <2>2. PICK q : q = Hold(p, Upto(b, RawStart(b, raw) - 1))
    OBVIOUS
  <2>3. Becomes(p, q) /\ q.buffer = b /\ q \in Parser
    <3>1. RawStart(b, raw) \in 1 .. raw
      BY <2>1, RawStartType
    <3>2. RawStart(b, raw) - 1 \in Int /\ RawStart(b, raw) - 1 <= Len(b)
      BY <2>1, <3>1
    <3> QED BY <1>1, <2>2, <3>2, UptoType, HoldBecomes DEF Becomes
  <2>4. <<>> \in Seq(Atom) /\ Len(<<>>) = 0
    OBVIOUS
  <2>5. PICK u : u = [q EXCEPT !.buffer = <<>>]
    OBVIOUS
  <2>6. Becomes(q, u) /\ u.buffer = <<>> /\ u \in Parser
    BY <2>3, <2>4, <2>5, CutBecomes DEF Becomes
  <2>7. PICK c : c = b[raw]
    OBVIOUS
  <2>8. Becomes(u, Finalize(u, c)) /\ Finalize(u, c).buffer = <<>>
    BY <2>1, <2>6, <2>7, FinalizeBecomes DEF Becomes
  <2>9. Becomes(p, Finalize(u, c))
    <3>1. Becomes(p, u)
      BY <2>3, <2>6, BecomesOn
    <3> QED BY <2>8, <3>1, BecomesOn
  <2>10. Moves(p, Finalize(u, c))
    BY <1>1, <2>1, <2>4, <2>8, <2>9 DEF Moves
  <2>11. Moves(p, TakeRaw(p, raw))
    BY <1>1, <2>1, TakeRawMoves
  <2>12. FlushStep(p) = OnFrom(TakeRaw(p, raw)) \/ FlushStep(p) = OnFrom(Finalize(u, c))
    BY <1>1, <1>2, <1>4, <2>2, <2>5, <2>7 DEF FlushStep
  <2> QED BY <2>10, <2>11, <2>12, OnFromBecomes
<1> QED BY <1>3, <1>4

LEMMA FlushRawBecomes ==
  ASSUME NEW p \in Parser
  PROVE  Becomes(p, FlushRaw[p])
<1> DEFINE Body(g, q) ==
      LET raw == RawCall(q.buffer)
          kept == Hold(q, Upto(q.buffer, RawStart(q.buffer, raw) - 1))
      IN  IF raw = 0 THEN Emit(q, q.buffer)
          ELSE IF RawComplete(q.buffer, raw) THEN g[TakeRaw(q, raw)]
          ELSE g[Finalize([kept EXCEPT !.buffer = <<>>], q.buffer[raw])]
      IsFlush(g) == g = [q \in Parser |-> Body(g, q)]
      flush == CHOOSE g : IsFlush(g)
<1>1. FlushRaw = flush
  BY DEF FlushRaw
<1>2. PICK step : step = [q \in Parser |-> FlushStep(q)]
  OBVIOUS
<1>3. \A q \in Parser : step[q] = FlushStep(q)
  BY <1>2
<1>4. \A q \in Parser : StepsBecome(q, step[q])
  BY <1>3, FlushStepBecomes
<1>5. ASSUME NEW g, NEW q \in Parser
      PROVE  Body(g, q) = IF step[q].on THEN g[step[q].at] ELSE step[q].at
  BY <1>3, StepParts DEF FlushStep
<1> HIDE DEF Body
<1>6. \A g : IsFlush(g) <=> IsLoop(g, step)
  <2> SUFFICES ASSUME NEW g PROVE IsFlush(g) <=> IsLoop(g, step)
    OBVIOUS
  <2>1. \A q \in Parser : Body(g, q) = IF step[q].on THEN g[step[q].at] ELSE step[q].at
    BY <1>5
  <2> QED BY <2>1 DEF IsLoop
<1>7. PICK f : IsFlush(f) /\ f = flush
  <2>1. \E g : IsLoop(g, step)
    BY <1>4, LoopExists
  <2>2. \E g : IsFlush(g)
    BY <1>6, <2>1
  <2> HIDE DEF IsFlush
  <2> QED BY <2>2
<1>8. IsLoop(f, step)
  BY <1>6, <1>7
<1>9. Becomes(p, f[p])
  BY <1>4, <1>8, LoopBecomes
<1> HIDE DEF flush, IsFlush
<1> QED BY <1>1, <1>7, <1>9

(* What the handler calls. *)
LEMMA FeedBecomes ==
  ASSUME NEW p \in Parser, NEW chunk \in Seq(Atom)
  PROVE  Becomes(p, Feed(p, chunk))
<1>1. PICK s \in Seq(Atom) : s = p.buffer \o chunk
  <2>1. p.buffer \o chunk \in Seq(Atom)
    BY DEF Parser
  <2> QED BY <2>1
<1>2. PICK q : q = [p EXCEPT !.buffer = s]
  OBVIOUS
<1>3. Becomes(p, q) /\ q \in Parser
  BY <1>2, CutBecomes DEF Becomes
<1>4. Becomes(q, Consume[q])
  BY <1>3, ConsumeBecomes
<1>5. Becomes(p, Consume[q]) /\ Becomes(p, p)
  BY <1>3, <1>4, BecomesOn DEF Becomes
<1>6. Feed(p, chunk) = IF p.off THEN p ELSE Consume[q]
  BY <1>1, <1>2 DEF Feed
<1> QED BY <1>5, <1>6

LEMMA FlushBecomes ==
  ASSUME NEW p \in Parser
  PROVE  Becomes(p, Flush(p))
<1>1. Becomes(p, FlushTool(p))
  <2>1. PICK b \in Seq(Atom) : b = p.buffer
    BY DEF Parser
  <2>2. PICK first : first = FirstCall(b)
    OBVIOUS
  <2>3. Becomes(p, Lose(p))
    BY MarkBecomes DEF Lose
  <2>4. CASE first # 0 /\ b[first] \in Declared
    <3>1. b[first] \in Calls
      BY <2>2, <2>4, FirstCallType
    <3>2. Becomes(p, Finalize(p, b[first]))
      BY <2>4, <3>1, FinalizeBecomes DEF Becomes
    <3> QED BY <2>1, <2>2, <2>4, <3>2 DEF FlushTool
  <2>5. CASE ~ (first # 0 /\ b[first] \in Declared)
    BY <2>1, <2>2, <2>3, <2>5 DEF FlushTool
  <2> QED BY <2>4, <2>5
<1>2. PartialOpen(p) # 0 => Becomes(p, [EmitBefore(p, PartialOpen(p)) EXCEPT !.truncated = TRUE])
  <2> SUFFICES ASSUME PartialOpen(p) # 0
               PROVE  Becomes(p, [EmitBefore(p, PartialOpen(p)) EXCEPT !.truncated = TRUE])
    OBVIOUS
  <2>1. PICK q : q = EmitBefore(p, PartialOpen(p))
    OBVIOUS
  <2>2. PartialOpen(p) \in 1 .. Len(p.buffer) + 1
    <3>1. PartialOpen(p) \in 0 .. Len(p.buffer) /\ Len(p.buffer) \in Nat
      BY PartialType DEF Parser
    <3> QED BY <3>1
  <2>3. Becomes(p, q) /\ q \in Parser
    BY <2>1, <2>2, EmitBeforeBecomes DEF Becomes
  <2>4. Becomes(q, [q EXCEPT !.truncated = TRUE])
    BY <2>3, MarkBecomes
  <2> QED BY <2>1, <2>3, <2>4, BecomesOn
<1>3. Becomes(p, FlushRaw[p])
  BY FlushRawBecomes
<1>4. PICK q : q = Flushed(p)
  OBVIOUS
<1>5. Becomes(p, q) /\ q \in Parser
  <2>1. Becomes(p, q)
    BY <1>1, <1>2, <1>3, <1>4 DEF Flushed
  <2> QED BY <2>1 DEF Becomes
<1>6. PICK r : r = [q EXCEPT !.buffer = <<>>, !.inside = FALSE, !.code = 0, !.off = FALSE]
  OBVIOUS
<1>7. <<>> \in Seq(Atom)
  OBVIOUS
<1>8. r \in Parser /\ r.calls = q.calls
  BY <1>5, <1>6, <1>7 DEF Parser
<1>9. Becomes(q, r)
  BY <1>8 DEF Becomes
<1>10. Flush(p) = r
  BY <1>4, <1>6 DEF Flush
<1> QED BY <1>5, <1>9, <1>10, BecomesOn

-----------------------------------------------------------------------------
(* The calls of an answer *)

(* A parser l.parser of the handler, and a message: the calls are of tools   *)
(* that the request declares, each once, and there are none without tools;  *)
(* a message says something or calls something.                            *)
Parses(p, withTools) ==
  p \in Parser /\ Honest(p.calls) /\ (~withTools => p.calls = <<>>)

Offers(m, withTools) ==
  /\ Honest(m.calls) /\ (~withTools => m.calls = <<>>)
  /\ m.calls # <<>> => m.text = <<>>

CallsInv ==
  /\ Parses(local.parser, tools)
  /\ Offers(client.message, tools)
  /\ \A m \in saved : Offers(m, tools)

LEMMA NothingIsHonest == Honest(<<>>)
  BY DEF Honest

LEMMA NewHandlerParses ==
  ASSUME NEW pc, NEW n, NEW b
  PROVE  Parses(NewHandler(pc, n).parser, b)
<1>1. <<>> \in Seq(Atom) /\ <<>> \in Seq(Calls)
  OBVIOUS
<1>2. NewParser \in Parser /\ NewParser.calls = <<>>
  BY <1>1 DEF NewParser, Parser
<1>3. NewHandler(pc, n).parser = NewParser
  BY DEF NewHandler
<1> QED BY <1>2, <1>3, NothingIsHonest DEF Parses

LEMMA CallsInitially == StreamInit => CallsInv
<1> SUFFICES ASSUME StreamInit PROVE CallsInv
  OBVIOUS
<1>1. local = NewHandler(Started, 0) /\ client.message = Message(<<>>, <<>>, <<>>) /\ saved = {}
  BY DEF StreamInit
<1>2. Parses(local.parser, tools)
  BY <1>1, NewHandlerParses
<1>3. Offers(client.message, tools)
  BY <1>1, NothingIsHonest DEF Offers, Message
<1> QED BY <1>1, <1>2, <1>3 DEF CallsInv

LEMMA UseParses ==
  ASSUME NEW p, Parses(p, tools), NEW text \in Seq(Atom)
  PROVE  Parses(Use(p, text), tools)
<1>1. p \in Parser
  BY DEF Parses
<1>2. Becomes(p, Feed(p, text))
  BY <1>1, FeedBecomes
<1>3. PICK more \in Seq(Atom) : more = p.text \o text
  <2>1. p.text \o text \in Seq(Atom)
    BY <1>1 DEF Parser
  <2> QED BY <2>1
<1>4. PICK q : q = [p EXCEPT !.text = more]
  OBVIOUS
<1>5. q \in Parser /\ q.calls = p.calls
  BY <1>1, <1>4 DEF Parser
<1>6. Use(p, text) = p \/ (tools /\ Use(p, text) = Feed(p, text)) \/ Use(p, text) = q
  BY <1>3, <1>4 DEF Use
<1> QED BY <1>2, <1>5, <1>6 DEF Becomes, Parses

(* What an event and what the end of the answer make of the parser. *)
LEMMA ReadsCalls ==
  ASSUME StreamInv, CallsInv, NEW n \in 1..MaxPiece, Reads(n)
  PROVE  CallsInv'
<1> DEFINE content == IF source = "page" THEN Upto(Text, up.at + n)
                      ELSE SubSeq(Text, up.at + 1, up.at + n)
           after == IF IsOfTarget THEN [Consumed(content) EXCEPT !.target = Targeted.target]
                    ELSE local
<1>1. /\ up.at + n <= Len(Text) /\ local' = after
      /\ client' = IF Live THEN [client EXCEPT !.message = Seen(after)] ELSE client
      /\ tools' = tools /\ saved' = saved
  BY DEF Reads, given
<1>2. up.at \in Nat /\ n \in Nat /\ answer \in Answers
  BY StreamAssumption DEF StreamInv
<1>3. content \in Seq(Atom)
  <2>1. Text \in Seq(Atom)
    BY <1>2, TextOfType DEF Text
  <2>2. /\ up.at + 1 \in Nat \ {0} /\ up.at + n \in Int /\ up.at + n <= Len(Text)
    BY <1>1, <1>2
  <2> QED BY <2>1, <2>2, PieceType, UptoType
<1> HIDE DEF content
<1>4. PICK c : c = Consumed(content)
  OBVIOUS
<1>5. PICK text \in Seq(Atom) : c.parser \in {local.parser, Use(local.parser, text)}
  BY <1>3, <1>4, ConsumedType
<1>6. Parses(c.parser, tools)
  BY <1>5, UseParses DEF CallsInv
<1>7. PICK l : l = local' /\ l \in {[c EXCEPT !.target = Targeted.target], local}
  BY <1>1, <1>4
<1>8. l.parser \in {c.parser, local.parser}
  <2>1. Reading(c)
    BY <1>3, <1>4, ConsumedType
  <2> QED BY <1>7, <2>1 DEF Reading
<1>9. Parses(l.parser, tools)
  BY <1>6, <1>8 DEF CallsInv
<1>10. Offers(Seen(l), tools)
  BY NothingIsHonest DEF Offers, Seen, Message
<1>11. client'.message \in {client.message, Seen(l)}
  BY <1>1, <1>7 DEF StreamInv, ClientRecord
<1>12. Offers(client'.message, tools)
  BY <1>10, <1>11 DEF CallsInv
<1>13. PICK m : m = client'.message
  OBVIOUS
<1> QED BY <1>1, <1>7, <1>9, <1>12 DEF CallsInv

LEMMA FinalOffers ==
  ASSUME StreamInv, CallsInv
  PROVE  Offers(FinalMessage, tools)
<1>1. local.sanitizer \in Sanitizer(Atom)
  BY DEF StreamInv, Reading
<1>2. PICK text : text = SanitizerFlush(local.sanitizer).text
  OBVIOUS
<1>3. text \in Seq(Atom)
  BY <1>1, <1>2, CallAtoms, SanitizerFlushType
<1>4. PICK r : r = Remaining
  OBVIOUS
<1>5. Parses(r, tools)
  BY <1>2, <1>3, <1>4, UseParses DEF Remaining, CallsInv
<1>6. PICK q : q = Final
  OBVIOUS
<1>7. q = IF tools THEN Flush(r) ELSE r
  BY <1>4, <1>6 DEF Final
<1>8. Becomes(r, Flush(r))
  BY <1>5, FlushBecomes DEF Parses
<1>9. Honest(q.calls) /\ (~tools => q.calls = <<>>)
  BY <1>5, <1>7, <1>8 DEF Parses, Becomes
<1>10. FinalMessage = Message(IF q.calls = <<>> THEN q.text ELSE <<>>, q.calls, local.reasoning)
  BY <1>6 DEF FinalMessage
<1> QED BY <1>9, <1>10 DEF Offers, Message

(* A step after which the handler parses what it did, or starts anew, and    *)
(* the client has what it had.                                             *)
LEMMA NothingOffered ==
  ASSUME CallsInv, tools' = tools, saved' = saved, client'.message = client.message,
         local'.parser = local.parser \/ \E pc, n : local' = NewHandler(pc, n)
  PROVE  CallsInv'
<1>1. PICK l : l = local'
  OBVIOUS
<1>2. Parses(l.parser, tools)
  BY <1>1, NewHandlerParses DEF CallsInv
<1> QED BY <1>1, <1>2 DEF CallsInv

LEMMA FailsCalls ==
  ASSUME StreamInv, CallsInv, NEW status, Fails(status), tools' = tools, saved' = saved
  PROVE  CallsInv'
<1>1. local'.parser = local.parser /\ client'.message = client.message
  BY DEF Fails, Concludes, StreamInv, Reading
<1> QED BY <1>1, NothingOffered

LEMMA ThrowsCalls ==
  ASSUME StreamInv, CallsInv, NEW retryable, Throws(retryable), tools' = tools, saved' = saved
  PROVE  CallsInv'
<1>1. CASE Fails("cut") \/ Fails("refused")
  BY <1>1, FailsCalls
<1>2. CASE ~(Fails("cut") \/ Fails("refused"))
  <2>1. local' = NewHandler("acquiring", local.attempt) /\ client' = client
    BY <1>2 DEF Throws, Rethrown
  <2> QED BY <2>1, NothingOffered
<1> QED BY <1>1, <1>2

LEMMA ReadsErrorPayloadCalls ==
  ASSUME StreamInv, CallsInv, ReadsErrorPayload
  PROVE  CallsInv'
<1>1. tools' = tools /\ saved' = saved
  BY DEF ReadsErrorPayload, given
<1>2. CASE Live /\ local.pc = "reading"
  <2>1. PICK m : m = [client.message EXCEPT !.text = Append(@, "w")]
    OBVIOUS
  <2>2. Concludes("done", m, "stop")
    BY <1>2, <2>1 DEF ReadsErrorPayload
  <2>3. local'.parser = local.parser /\ client'.message = m
    BY <2>2 DEF Concludes, StreamInv, Reading
  <2>4. m.calls = client.message.calls
    BY <2>1 DEF StreamInv, ClientRecord
  <2>5. ~tools /\ client.message.calls = <<>>
    BY <1>2 DEF Live, CallsInv, Offers
  <2>6. Offers(m, tools)
    BY <2>4, <2>5, NothingIsHonest DEF Offers
  <2> QED BY <1>1, <2>3, <2>6 DEF CallsInv
<1>3. CASE ~(Live /\ local.pc = "reading")
  BY <1>1, <1>3, FailsCalls DEF ReadsErrorPayload
<1> QED BY <1>2, <1>3

LEMMA ReadsEndCalls ==
  ASSUME StreamInv, CallsInv, NEW finish, ReadsEnd(finish)
  PROVE  CallsInv'
<1>1. tools' = tools
  BY DEF ReadsEnd, given
<1>2. CASE IsIncomplete(finish)
  BY <1>1, <1>2, ThrowsCalls DEF ReadsEnd
<1>3. CASE ~IsIncomplete(finish) /\ local.noticed
  BY <1>1, <1>3, FailsCalls DEF ReadsEnd, Responds
<1>4. CASE ~IsIncomplete(finish) /\ ~local.noticed
  <2>1. PICK m : m = FinalMessage
    OBVIOUS
  <2>2. Concludes("done", m, FinishReason(finish)) /\ saved' = {m}
    BY <1>4, <2>1 DEF ReadsEnd, Responds
  <2>3. local'.parser = local.parser /\ client'.message = m
    BY <2>2 DEF Concludes, StreamInv, Reading
  <2>4. Offers(m, tools)
    BY <2>1, FinalOffers
  <2> QED BY <1>1, <2>2, <2>3, <2>4 DEF CallsInv
<1> QED BY <1>2, <1>3, <1>4

LEMMA CallsSteps ==
  ASSUME StreamInv, CallsInv, [StreamNext]_streamVars
  PROVE  CallsInv'
<1>1. CASE \E retryable \in BOOLEAN : ReadsError(retryable)
  BY <1>1, ThrowsCalls DEF ReadsError, given
<1>2. CASE ReadFails
  BY <1>2, ThrowsCalls DEF ReadFails, given
<1>3. CASE AcquireFails
  BY <1>3, FailsCalls DEF AcquireFails, given
<1>4. CASE PageMoves \/ ClientLeaves \/ StopAsked \/ \E a \in stops : StopAnswered(a) \/ StopRefused(a)
  <2>1. /\ UNCHANGED <<given, client, saved>>
        /\ local' = local \/ \E b : local' = [local EXCEPT !.noticed = b]
    BY <1>4 DEF PageMoves, ClientLeaves, StopAsked, StopAnswered, StopRefused
  <2>2. local'.parser = local.parser
    BY <2>1 DEF StreamInv, Reading
  <2> QED BY <2>1, <2>2, NothingOffered DEF given
<1>5. CASE UNCHANGED streamVars
  BY <1>5, NothingOffered DEF streamVars, given
<1>6. CASE Commits
  <2>1. local'.parser = local.parser /\ client'.message = client.message
    BY <1>6 DEF Commits, StreamInv, Reading, ClientRecord
  <2> QED BY <1>6, <2>1, NothingOffered DEF Commits, given
<1>7. CASE Acquires
  BY <1>7, NothingOffered DEF Acquires, given
<1>8. CASE \E n \in 1..MaxPiece : Reads(n)
  BY <1>8, ReadsCalls
<1>9. CASE \E finish \in {"stop", "length"} : ReadsEnd(finish)
  BY <1>9, ReadsEndCalls
<1> QED BY <1>1, <1>2, <1>3, <1>4, <1>5, <1>6, <1>7, <1>8, <1>9,
           ReadsErrorPayloadCalls DEF StreamNext, Handler

(* The parser of the handler has taken calls of declared tools only, each    *)
(* once, and so has every message that was made of what it found, whatever  *)
(* the answer, wherever its events are cut and whichever of them are lost.  *)
THEOREM ParserInvariant == StreamSpec => []CallsInv
<1>1. StreamInit => CallsInv
  BY CallsInitially
<1>2. StreamInv /\ CallsInv /\ [StreamNext]_streamVars => CallsInv'
  BY CallsSteps
<1> QED BY <1>1, <1>2, HandlerInvariant, PTL DEF StreamSpec

(* What the client is sent and what is saved of an answer calls only tools   *)
(* that the request declares, none if it declares none, no call twice, and  *)
(* has no text beside its calls (StreamingToolParser.finalizeToolCall,      *)
(* processNonStreamingResponse).                                           *)
OnlyDeclaredCalls ==
  \A m \in saved \union {client.message} :
    /\ ToSet(m.calls) \subseteq Declared
    /\ ~tools => m.calls = <<>>
    /\ \A i, j \in 1 .. Len(m.calls) : m.calls[i] = m.calls[j] => i = j
    /\ m.calls # <<>> => m.text = <<>>

THEOREM CallsAreDeclared == StreamSpec => []OnlyDeclaredCalls
<1>1. CallsInv => OnlyDeclaredCalls
  <2> SUFFICES ASSUME CallsInv, NEW m \in saved \union {client.message}
               PROVE  /\ ToSet(m.calls) \subseteq Declared
                      /\ ~tools => m.calls = <<>>
                      /\ \A i, j \in 1 .. Len(m.calls) : m.calls[i] = m.calls[j] => i = j
                      /\ m.calls # <<>> => m.text = <<>>
    BY DEF OnlyDeclaredCalls
  <2>1. Offers(m, tools)
    BY DEF CallsInv
  <2>2. ToSet(m.calls) \subseteq Declared
    BY <2>1 DEF Offers, Honest, ToSet
  <2> QED BY <2>1, <2>2 DEF Offers, Honest
<1> QED BY <1>1, ParserInvariant, PTL

=============================================================================
