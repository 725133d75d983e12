---------------------------- MODULE AccountPool ----------------------------
(***************************************************************************)
(* The pool of accounts: the accounts table and its cache                   *)
(* (src/core/accounts.ts), and cooldowns and rotation on top of it          *)
(* (src/core/account-manager.ts).                                          *)
(*                                                                         *)
(* A cooldown lives in three places: a column of the table, the cached      *)
(* copy of that column, and a map in memory that is lost in a restart.      *)
(* Writes to the table may fail, which the code logs and ignores; another   *)
(* process (login.ts) adds and removes accounts behind the cache's back.    *)
(*                                                                         *)
(* Times are kept relative to the present: a cooldown is what is left of    *)
(* it, and a cache has an age.  Every operation is synchronous, so each is  *)
(* one action.                                                             *)
(***************************************************************************)
EXTENDS Naturals, Sequences, FiniteSets, SequencesExt

CONSTANTS
  Accounts,
  EnvAccount,  \* the accounts that QWEN_ACCOUNTS lists
  Roaming,     \* the accounts that are added and removed at run time
  Duration,    \* the cooldowns that errors set
  Ttl,         \* ACCOUNTS_CACHE_TTL
  Nothing

ASSUME AccountPoolAssumption ==
  /\ IsFiniteSet(Accounts)
  /\ EnvAccount \subseteq Accounts /\ Roaming \subseteq Accounts
  /\ Duration \subseteq Nat \ {0}
  /\ Ttl \in Nat \ {0}
  /\ Nothing \notin Accounts /\ Nothing \notin Nat

VARIABLES
  rows,          \* the table, ordered by created_at
  left,          \* left[a]: what is left of cooldown_until in a's row
  cache,         \* accountsCache, Nothing if invalid
  cooldowns,     \* cooldowns[a]: what is left of a's entry, Nothing if it has none
  currentIndex,
  failed         \* the accounts whose last write of a cooldown failed

poolVars == <<rows, left, cache, cooldowns, currentIndex, failed>>

PoolInit ==
  /\ rows = SetToSeq(Accounts \ Roaming)
  /\ left = [a \in Accounts |-> 0]
  /\ cache = Nothing
  /\ cooldowns = [a \in Accounts |-> Nothing]
  /\ currentIndex = 0
  /\ failed = {}

-----------------------------------------------------------------------------
(* The table and its cache *)

(* syncEnvAccounts inserts the accounts of the environment, at most twice a *)
(* minute: a load may find that it is due or not.                          *)
EnvSynced == {rows, rows \o SetToSeq(EnvAccount \ ToSet(rows))}

(* getCachedAccounts, with the table as EnvSynced left it. *)
Loaded(table) ==
  IF cache # Nothing /\ cache.age < Ttl THEN cache
  ELSE [rows |-> table, left |-> left, age |-> 0]

(* updateAccountCooldown, whose error the callers catch: it invalidates the *)
(* cache only if the write goes well.  `loaded` is the cache before it.     *)
Stored(a, d, ok, loaded) ==
  /\ left' = IF ok THEN [left EXCEPT ![a] = IF a \in ToSet(rows) THEN d ELSE 0] ELSE left
  /\ cache' = IF ok THEN Nothing ELSE loaded
  /\ failed' = IF ok THEN failed \ {a} ELSE failed \union {a}

(* loadAccounts, for a list of the accounts. *)
Load ==
  /\ \E table \in EnvSynced : rows' = table /\ cache' = Loaded(table)
  /\ UNCHANGED <<left, cooldowns, currentIndex, failed>>

Inserts(a) ==
  /\ a \notin ToSet(rows)
  /\ rows' = Append(rows, a)
  /\ UNCHANGED <<left, cooldowns, currentIndex, failed>>

Deletes(a) ==
  /\ a \in ToSet(rows)
  /\ rows' = RemoveFirst(rows, a)
  /\ left' = [left EXCEPT ![a] = 0]
  /\ UNCHANGED <<cooldowns, currentIndex, failed>>

AddAccount(a) == Inserts(a) /\ cache' = Nothing

RemoveAccount(a) == Deletes(a) /\ cache' = Nothing

(* The same in the process of login.ts, which has a cache of its own. *)
AddedOutside(a) == Inserts(a) /\ UNCHANGED cache

RemovedOutside(a) == Deletes(a) /\ UNCHANGED cache

-----------------------------------------------------------------------------
(* Cooldowns *)

MarkAccountRateLimited(a, d) ==
  /\ cooldowns' = [cooldowns EXCEPT ![a] = d]
  /\ \E ok \in BOOLEAN : Stored(a, d, ok, cache)
  /\ UNCHANGED <<rows, currentIndex>>

ClearAccountCooldown(a) ==
  /\ cooldowns' = [cooldowns EXCEPT ![a] = Nothing]
  /\ \E ok \in BOOLEAN : Stored(a, 0, ok, cache)
  /\ UNCHANGED <<rows, currentIndex>>

(* Mutant of Consulted: an entry is dropped one unit of time too early. *)
ConsultedTooEarly(a, entries, loaded) ==
  IF entries[a] \in {0, 1}
  THEN /\ cooldowns' = [entries EXCEPT ![a] = Nothing]
       /\ \E ok \in BOOLEAN : Stored(a, 0, ok, loaded)
  ELSE /\ cooldowns' = entries
       /\ cache' = loaded
       /\ UNCHANGED <<left, failed>>

(* getAccountCooldownInfo drops an entry that expired, from the table too;  *)
(* `entries` are the cooldowns it finds.                                   *)
Consulted(a, entries, loaded) ==
  IF entries[a] = 0
  THEN /\ cooldowns' = [entries EXCEPT ![a] = Nothing]
       /\ \E ok \in BOOLEAN : Stored(a, 0, ok, loaded)
  ELSE /\ cooldowns' = entries
       /\ cache' = loaded
       /\ UNCHANGED <<left, failed>>

GetAccountCooldownInfo(a) ==
  /\ Consulted(a, cooldowns, cache)
  /\ UNCHANGED <<rows, currentIndex>>

(* Mutant of Synced: entries in memory win over the table. *)
SyncedFromMemory(loaded) == cooldowns

(* syncCooldownsFromDb *)
Synced(loaded) ==
  [a \in Accounts |->
     IF a \notin ToSet(loaded.rows) THEN cooldowns[a]
     ELSE IF loaded.left[a] = 0 THEN Nothing
     ELSE IF cooldowns[a] = Nothing THEN loaded.left[a] ELSE cooldowns[a]]

-----------------------------------------------------------------------------
(* The choice of an account *)

Free(entries, a) == entries[a] \in {Nothing, 0}

(* The positions of `order` in the order in which the rotation visits them. *)
Position(order, i) == ((currentIndex + i) % Len(order)) + 1

FirstFree(order, entries, tried) ==
  LET turns == {i \in 0 .. Len(order) - 1 :
                  LET a == order[Position(order, i)]
                  IN  a \notin tried /\ Free(entries, a)}
  IN  IF turns = {} THEN Nothing ELSE CHOOSE i \in turns : \A j \in turns : i <= j

(* The first of those with the least left. *)
Shortest(order, entries, tried) ==
  LET cooling == {i \in 1 .. Len(order) : order[i] \notin tried}
      best == {i \in cooling : \A j \in cooling : entries[order[i]] <= entries[order[j]]}
  IN  IF best = {} THEN Nothing ELSE order[CHOOSE i \in best : \A j \in best : i <= j]

(* Mutant of NextIndex: the rotation does not move past the chosen account. *)
NextIndexAtTheChosen(order, i) == (currentIndex + i) % Len(order)

NextIndex(order, i) == (currentIndex + i + 1) % Len(order)

(* The account that is returned: the first the rotation finds free, or the  *)
(* one that cools down first.                                              *)
Picked(order, entries, tried) ==
  LET turn == FirstFree(order, entries, tried) IN
  IF order = <<>> THEN Nothing
  ELSE IF turn # Nothing THEN order[Position(order, turn)]
  ELSE Shortest(order, entries, tried)

(* `table` is what syncEnvAccounts makes of the table, `idle` where the     *)
(* index stays if all are cooling.                                         *)
Chooses(tried, table, idle) ==
  LET loaded == Loaded(table)
      order == loaded.rows
      entries == Synced(loaded)
      turn == FirstFree(order, entries, tried)
  IN  /\ rows' = table
      /\ CASE order = <<>> ->
                /\ cache' = loaded
                /\ UNCHANGED <<left, cooldowns, currentIndex, failed>>
           [] order # <<>> /\ turn # Nothing ->
                /\ currentIndex' = NextIndex(order, turn)
                /\ Consulted(Picked(order, entries, tried), entries, loaded)
           [] OTHER ->
                /\ currentIndex' = idle
                /\ cooldowns' = entries
                /\ cache' = loaded
                /\ UNCHANGED <<left, failed>>

GetNextAccount(table) ==
  Chooses({}, table, currentIndex % Len(Loaded(table).rows))

GetNextAvailableAccount(tried, table) ==
  Chooses(tried, table, currentIndex)

-----------------------------------------------------------------------------
(* Time and restarts *)

Less(n) == IF n \in Nat \ {0} THEN n - 1 ELSE n

TimePasses ==
  /\ left' = [a \in Accounts |-> Less(left[a])]
  /\ cooldowns' = [a \in Accounts |-> Less(cooldowns[a])]
  /\ cache' = IF cache = Nothing \/ cache.age = Ttl THEN cache
              ELSE [cache EXCEPT !.left = [a \in Accounts |-> Less(@[a])], !.age = @ + 1]
  /\ UNCHANGED <<rows, currentIndex, failed>>

(* Memory is lost; the start-up only clears cooldowns that are over. *)
Restart ==
  /\ cooldowns' = [a \in Accounts |-> Nothing]
  /\ cache' = Nothing
  /\ currentIndex' = 0
  /\ failed' = {}
  /\ UNCHANGED <<rows, left>>

PoolNext ==
  \/ Load \/ TimePasses \/ Restart
  \/ \E table \in EnvSynced :
       \/ GetNextAccount(table)
       \/ \E tried \in SUBSET Accounts : GetNextAvailableAccount(tried, table)
  \/ \E a \in Roaming :
       AddAccount(a) \/ RemoveAccount(a) \/ AddedOutside(a) \/ RemovedOutside(a)
  \/ \E a \in Accounts :
       \/ ClearAccountCooldown(a) \/ GetAccountCooldownInfo(a)
       \/ \E d \in Duration : MarkAccountRateLimited(a, d)

PoolSpec == PoolInit /\ [][PoolNext]_poolVars

-----------------------------------------------------------------------------
(* Properties *)

Choice(tried, table) ==
  GetNextAvailableAccount(tried, table) \/ (tried = {} /\ GetNextAccount(table))

(* A choice falls on an account that is cooling only if all others it could *)
(* return are cooling too, by what the table or its cache says and whatever *)
(* memory holds, so also after a restart; only a failed write may upset it. *)
CoolingAccountsAreLast ==
  [][\A tried \in SUBSET Accounts, table \in EnvSynced :
       LET known == Loaded(table)
           picked == Picked(known.rows, Synced(known), tried)
       IN  /\ picked # Nothing /\ picked \notin failed /\ known.left[picked] > 0
           /\ \E a \in ToSet(known.rows) \ (tried \union failed) : known.left[a] = 0
           => ~Choice(tried, table)]_poolVars

(* Looking a cooldown up and choosing an account never erase one that still *)
(* runs: what memory takes for expired is expired in the table.  Again only *)
(* a failed write may upset this.                                          *)
RunningCooldownsAreKept ==
  [][(\E a \in Accounts \ failed : left[a] > 0 /\ left'[a] # left[a]) =>
       /\ \A a \in Accounts : ~GetAccountCooldownInfo(a)
       /\ \A tried \in SUBSET Accounts, table \in EnvSynced : ~Choice(tried, table)]_poolVars

(* How many accounts the rotation visits before a. *)
Distance(order, index, a) ==
  CHOOSE i \in 0 .. Len(order) - 1 : order[((index + i) % Len(order)) + 1] = a

(* A choice that passes a free account over brings the account's turn       *)
(* closer, so no account starves, wherever requests that exclude accounts   *)
(* and choices among cooling ones leave the index.                         *)
RotationIsRoundRobin ==
  [][\A tried \in SUBSET Accounts, table \in EnvSynced :
       LET known == Loaded(table)
           entries == Synced(known)
           others == ToSet(known.rows) \ (tried \union {Picked(known.rows, entries, tried)})
       IN  (\E a \in others :
              /\ Free(entries, a)
              /\ Distance(known.rows, currentIndex', a)
                   >= Distance(known.rows, currentIndex, a))
           => ~Choice(tried, table)]_poolVars
=============================================================================
