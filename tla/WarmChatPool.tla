---------------------------- MODULE WarmChatPool ----------------------------
(***************************************************************************)
(* Chats of one account that are created ahead of the requests that will    *)
(* use them: precreatedChatSessions, precreatingChatSessions and            *)
(* inFlightWarmChats of src/services/qwen.ts, and the part of              *)
(* createQwenStream that takes a new chat, sends the first message to it   *)
(* and gives it back.                                                      *)
(*                                                                         *)
(* A pool belongs to a model, but chats do not: the account's unused chats  *)
(* are listed whatever they were created for, and go to whoever asks.  That *)
(* list, and every creation, has three steps: the call, what Qwen does, and *)
(* the answer; requests and other refills run in between.                  *)
(***************************************************************************)
EXTENDS Integers, Sequences, FiniteSets, SequencesExt, FiniteSetsExt, Functions

CONSTANTS
  Request,
  Model,
  Chat,       \* as many as can be referred to at a time: a bound
  NoChat,
  PoolSize,   \* chatPoolSize
  LowWater    \* WARM_POOL_LOW_WATER

ASSUME WarmChatPoolAssumption ==
  /\ Model # {}
  /\ IsFiniteSet(Chat) /\ NoChat \notin Chat
  /\ PoolSize \in Nat \ {0} /\ LowWater \in Nat

VARIABLES
  qwen,      \* what Qwen has of every chat
  pool,      \* precreatedChatSessions
  refill,    \* refill[m]: precreatingChatSessions and the locals of the refill
  timer,     \* models with a refill scheduled
  inFlight,  \* inFlightWarmChats
  req,       \* req[r]: the local variables of request r
  gaveUp     \* history: models whose pool was never warmed, or whose last refill failed

vars == <<qwen, pool, refill, timer, inFlight, req, gaveUp>>

Refill == [pc : {"off", "listing", "listed", "creating", "made"},
           existing : SUBSET Chat,   \* the pool when the refill began
           list : SUBSET Chat,       \* unused chats, when Qwen listed them
           chat : Chat \union {NoChat}]

NoRefill == [pc |-> "off", existing |-> {}, list |-> {}, chat |-> NoChat]

(* "ended" is a stream that the idle timeout has ended, whose reader has not *)
(* been told yet.                                                          *)
Local == [pc : {"idle", "creating", "made", "ready", "streaming", "ended", "deleting"},
          model : Model,
          chat : Chat \union {NoChat},
          leased : BOOLEAN,     \* leasedWarmChat
          released : BOOLEAN]   \* warmChatReleased

Idle == [pc |-> "idle", model |-> CHOOSE m \in Model : TRUE, chat |-> NoChat,
         leased |-> FALSE, released |-> FALSE]

TypeOK ==
  /\ qwen \in [Chat -> {"none", "unused", "used"}]
  /\ pool \in [Model -> Seq(Chat)]
  /\ refill \in [Model -> Refill]
  /\ timer \subseteq Model
  /\ inFlight \subseteq Model \X Chat
  /\ req \in [Request -> Local]
  /\ gaveUp \subseteq Model

(* warmConfiguredChatPools warms the pools of an account when it is ready, or *)
(* not at all if the account has no headers.                               *)
Init ==
  /\ qwen = [c \in Chat |-> "none"]
  /\ pool = [m \in Model |-> <<>>]
  /\ refill = [m \in Model |-> NoRefill]
  /\ inFlight = {}
  /\ req = [r \in Request |-> Idle]
  /\ timer \in SUBSET Model
  /\ gaveUp = Model \ timer

-----------------------------------------------------------------------------

At(r, pc) == req[r].pc = pc
Becomes(r, local) == req' = [req EXCEPT ![r] = local]
Low(p, m) == Len(p[m]) < PoolSize

(* What somebody may still use; anything else may stand for a new chat. *)
Referenced ==
  {c \in Chat :
     \/ qwen[c] = "unused"
     \/ \E m \in Model : \/ c \in ToSet(pool[m]) \union refill[m].existing \union refill[m].list
                         \/ refill[m].chat = c
                         \/ <<m, c>> \in inFlight
     \/ \E r \in Request : req[r].chat = c}

QwenCreates(c) ==
  /\ c \notin Referenced
  /\ qwen' = [qwen EXCEPT ![c] = "unused"]

-----------------------------------------------------------------------------
(* Refilling a pool *)

(* refillQwenChatPool does nothing for a full pool or beside another refill. *)
Begins(m) ==
  IF Low(pool', m) /\ refill[m].pc = "off"
  THEN /\ refill' = [refill EXCEPT ![m] = [NoRefill EXCEPT !.pc = "listing",
                                                           !.existing = ToSet(pool'[m])]]
       /\ gaveUp' = gaveUp \ {m}
  ELSE UNCHANGED <<refill, gaveUp>>

(* A timer of scheduleQwenChatPoolRefill, or warmQwenChatPool; there may be *)
(* several for a model.                                                    *)
TimerFires(m) ==
  /\ m \in timer
  /\ timer' \in {timer, timer \ {m}}
  /\ UNCHANGED <<qwen, pool, inFlight, req>>
  /\ Begins(m)

QwenLists(m) ==
  /\ refill[m].pc = "listing"
  /\ refill' = [refill EXCEPT ![m].pc = "listed",
                              ![m].list = {c \in Chat : qwen[c] = "unused"}]
  /\ UNCHANGED <<qwen, pool, timer, inFlight, req, gaveUp>>

(* Mutant of Reusable: chats that are leased are taken again. *)
ReusableWhenLeased(m) == refill[m].list \ refill[m].existing

Reusable(m) == {c \in refill[m].list : c \notin refill[m].existing /\ <<m, c>> \notin inFlight}

(* Mutant of Missing: the chats listed are taken without a limit. *)
MissingAll(m) == Cardinality(Chat)

Missing(m) == Max({0, PoolSize - Len(pool[m])})

(* With the pool full the refill ends, otherwise it creates another chat. *)
GoesOn(m) ==
  refill' = [refill EXCEPT ![m] = IF Low(pool', m) THEN [NoRefill EXCEPT !.pc = "creating"]
                                                   ELSE NoRefill]

(* The list arrives, or none: chats are taken from it, in its order. *)
ListArrives(m) ==
  /\ refill[m].pc \in {"listing", "listed"}
  /\ LET n == Min({Missing(m), Cardinality(Reusable(m))})
     IN  \E reused \in {q \in [1 .. n -> Reusable(m)] : IsInjective(q)} :
           pool' = [pool EXCEPT ![m] = @ \o reused]
  /\ GoesOn(m)
  /\ UNCHANGED <<qwen, timer, inFlight, req, gaveUp>>

QwenCreatesForPool(m) ==
  /\ refill[m].pc = "creating"
  /\ \E c \in Chat :
       /\ QwenCreates(c)
       /\ refill' = [refill EXCEPT ![m].pc = "made", ![m].chat = c]
  /\ UNCHANGED <<pool, timer, inFlight, req, gaveUp>>

(* Mutant of ChatArrives: one chat for each refill. *)
ChatArrivesOnce(m) ==
  /\ refill[m].pc = "made"
  /\ pool' = [pool EXCEPT ![m] = Append(@, refill[m].chat)]
  /\ refill' = [refill EXCEPT ![m] = NoRefill]
  /\ UNCHANGED <<qwen, timer, inFlight, req, gaveUp>>

ChatArrives(m) ==
  /\ refill[m].pc = "made"
  /\ pool' = [pool EXCEPT ![m] = Append(@, refill[m].chat)]
  /\ GoesOn(m)
  /\ UNCHANGED <<qwen, timer, inFlight, req, gaveUp>>

(* A creation fails, at Qwen or on the way back. *)
RefillFails(m) ==
  /\ refill[m].pc \in {"creating", "made"}
  /\ refill' = [refill EXCEPT ![m] = NoRefill]
  /\ gaveUp' = gaveUp \union {m}
  /\ UNCHANGED <<qwen, pool, timer, inFlight, req>>

-----------------------------------------------------------------------------
(* A request that needs a new chat *)

(* acquireNewQwenChatSession with a pooled chat: the refill begins at once  *)
(* below the low-water mark, later otherwise.                              *)
Leases(r, m) ==
  /\ At(r, "idle") /\ pool[m] # <<>>
  /\ LET c == Head(pool[m])
     IN  /\ inFlight' = inFlight \union {<<m, c>>}
         /\ Becomes(r, [Idle EXCEPT !.pc = "ready", !.model = m, !.chat = c, !.leased = TRUE])
  /\ pool' = [pool EXCEPT ![m] = Tail(@)]
  /\ IF Len(pool'[m]) < LowWater /\ refill[m].pc = "off"
     THEN Begins(m) /\ UNCHANGED timer
     ELSE timer' = timer \union {m} /\ UNCHANGED <<refill, gaveUp>>
  /\ UNCHANGED qwen

(* Without one it creates its own. *)
Creates(r, m) ==
  /\ At(r, "idle") /\ pool[m] = <<>>
  /\ Becomes(r, [Idle EXCEPT !.pc = "creating", !.model = m])
  /\ UNCHANGED <<qwen, pool, refill, timer, inFlight, gaveUp>>

QwenCreatesForRequest(r) ==
  /\ At(r, "creating")
  /\ \E c \in Chat :
       /\ QwenCreates(c)
       /\ Becomes(r, [req[r] EXCEPT !.pc = "made", !.chat = c])
  /\ UNCHANGED <<pool, refill, timer, inFlight, gaveUp>>

Created(r) ==
  /\ At(r, "made")
  /\ Becomes(r, [req[r] EXCEPT !.pc = "ready"])
  /\ timer' = timer \union {req[r].model}
  /\ UNCHANGED <<qwen, pool, refill, inFlight, gaveUp>>

(* The creation fails; through the page, it is tried again with fetch. *)
CreationFails(r) ==
  /\ req[r].pc \in {"creating", "made"}
  /\ Becomes(r, Idle) \/ Becomes(r, [req[r] EXCEPT !.pc = "creating", !.chat = NoChat])
  /\ UNCHANGED <<qwen, pool, refill, timer, inFlight, gaveUp>>

(* MAX_PAYLOAD_SIZE is checked between the lease and the try block; the     *)
(* errors of the page that mean a challenge are thrown there as well.       *)
FailsOutsideTry(r) ==
  /\ At(r, "ready")
  /\ \/ Becomes(r, Idle)
     \/ Becomes(r, [req[r] EXCEPT !.pc = "deleting"])
  /\ UNCHANGED <<qwen, pool, refill, timer, inFlight, gaveUp>>

MessageArrives(r) ==
  /\ At(r, "ready") /\ qwen[req[r].chat] # "none"
  /\ qwen' = [qwen EXCEPT ![req[r].chat] = "used"]
  /\ Becomes(r, [req[r] EXCEPT !.pc = "streaming"])
  /\ UNCHANGED <<pool, refill, timer, inFlight, gaveUp>>

(* releaseLeasedWarmChat, which works once. *)
Unmarked(r) ==
  IF req[r].leased /\ ~req[r].released
  THEN inFlight \ {<<req[r].model, req[r].chat>>} ELSE inFlight

(* The stream ends, is cancelled or fails, or there is none; a new chat that *)
(* failed without a stream may be deleted.                                 *)
Ends(r) ==
  /\ req[r].pc \in {"ready", "streaming", "ended"}
  /\ inFlight' = Unmarked(r)
  /\ \/ Becomes(r, Idle)
     \/ /\ ~At(r, "ended")
        /\ Becomes(r, [req[r] EXCEPT !.pc = "deleting", !.released = TRUE])
  /\ UNCHANGED <<qwen, pool, refill, timer, gaveUp>>

(* The idle timeout releases the chat and cancels the stream; that its      *)
(* reader learns of it is another step.                                    *)
IdleTimeout(r) ==
  /\ At(r, "streaming")
  /\ inFlight' = Unmarked(r)
  /\ Becomes(r, [req[r] EXCEPT !.pc = "ended", !.released = TRUE])
  /\ UNCHANGED <<qwen, pool, refill, timer, gaveUp>>

DeletionEnds(r) ==
  /\ At(r, "deleting")
  /\ qwen' \in {qwen, [qwen EXCEPT ![req[r].chat] = "none"]}
  /\ Becomes(r, Idle)
  /\ UNCHANGED <<pool, refill, timer, inFlight, gaveUp>>

-----------------------------------------------------------------------------

(* The process starts again; the chats stay at Qwen. *)
Restart ==
  /\ pool' = [m \in Model |-> <<>>]
  /\ refill' = [m \in Model |-> NoRefill]
  /\ inFlight' = {}
  /\ req' = [r \in Request |-> Idle]
  /\ timer' \in SUBSET Model
  /\ gaveUp' = Model \ timer'
  /\ UNCHANGED qwen

RequestStep(r) ==
  \/ \E m \in Model : Leases(r, m) \/ Creates(r, m)
  \/ QwenCreatesForRequest(r) \/ Created(r) \/ CreationFails(r)
  \/ FailsOutsideTry(r) \/ MessageArrives(r) \/ Ends(r) \/ IdleTimeout(r) \/ DeletionEnds(r)

RefillStep(m) ==
  \/ TimerFires(m) \/ QwenLists(m) \/ ListArrives(m)
  \/ QwenCreatesForPool(m) \/ ChatArrives(m) \/ RefillFails(m)

Next ==
  \/ \E r \in Request : RequestStep(r)
  \/ \E m \in Model : RefillStep(m)
  \/ Restart

Spec == Init /\ [][Next]_vars

-----------------------------------------------------------------------------
(* Properties *)

Holds(r) == req[r].pc \in {"ready", "streaming"}

(* A chat that a request leased from its model's pool, and has not given     *)
(* back, is leased to it alone and not in that pool: no late list and no     *)
(* second release brings it back.                                          *)
LeasesAreExclusive ==
  \A r \in Request : Holds(r) /\ req[r].leased =>
    /\ req[r].chat \notin ToSet(pool[req[r].model])
    /\ \A s \in Request \ {r} :
         Holds(s) /\ req[s].leased /\ req[s].model = req[r].model => req[s].chat # req[r].chat

(* A pool never has more chats than configured, nor a chat twice. *)
PoolsAreBounded == \A m \in Model : Len(pool[m]) <= PoolSize /\ IsInjective(pool[m])

(* A pool that is not full is being refilled, or will be; unless a refill    *)
(* failed and no request came since.  Triggers that come while a refill      *)
(* runs are ignored, and none is needed.                                   *)
LowPoolsAreRefilled ==
  \A m \in Model : Low(pool, m) => refill[m].pc # "off" \/ m \in timer \union gaveUp
=============================================================================
